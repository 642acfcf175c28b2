-------------------------- MODULE SceneTransaction --------------------------
(***************************************************************************)
(* The runtime state of a SceneRegistry of mfd_api and the batches its     *)
(* CommandProcessor applies to it: every command handler, the footprint a  *)
(* multi-command batch declares, the snapshot captured of that footprint   *)
(* and the rollback from it when a later command fails.                    *)
(*                                                                         *)
(* A page's view, static reticles and containers are only ever overwritten *)
(* and are one value here. Shapes, blinking and transport identifiers are  *)
(* left out; positions are points of a line. All of it runs on the render  *)
(* thread, which also routes the pointer to the widgets of the active page.*)
(* Coalescing is what the UdpRuntimeBridge does to a batch it has received.*)
(***************************************************************************)
EXTENDS Integers, Sequences, FiniteSets, FiniteSetsExt

CONSTANTS
    Pages,        \* pages of the document
    DefaultPage,  \* the page a loaded document shows
    Bound,        \* dynamic templates bound on each page
    Reticles,     \* identifiers of dynamic reticles
    NoReticle,    \* an empty lockedReticleId
    Strobes,      \* strobe variants of every page
    FirstStrobe,  \* the variant a loaded document selects
    Positions,    \* positions, 0 being a template's own
    Radius,       \* magnet.radius of the strobes
    Values,       \* values of views, displays and widgets, 0 being the authored one
    Keep,         \* an absent field of a patch
    Batches,      \* command batches that can be submitted
    Bursts,       \* command batches as they are received, before they are coalesced
    Transactional, \* batchTransactionMode_ is Transactional
    MaxFeedback,  \* capacity of the widget feedback queue (1024)
    MaxRequests,  \* bound: widget requests
    MaxCreated    \* bound: dynamic reticles created since the last load

\* The templates of the document, and those of a page (DynamicReticleLayerBinding).
Templates == UNION {Bound[p] : p \in Pages}
Overrides == {k \in Pages \X Templates : k[2] \in Bound[k[1]]}

Dynamic == [template : Templates, position : Positions,
            visible : BOOLEAN, creation : Nat]
Strobe == [position : Positions, lock : Reticles \cup {NoReticle}, visible : BOOLEAN]
Widget == [value : Values, available : BOOLEAN, touched : BOOLEAN, pending : BOOLEAN, request : Nat]

\* The fields of each kind of command besides the kind.
Fields ==
    [page |-> {"page"}, view |-> {"page", "value"}, display |-> {"value"},
     strobe |-> {"page", "strobe", "visible", "position"},
     upsert |-> {"page", "reticle", "template", "visible", "position"}, remove |-> {"page", "reticle"},
     visibility |-> {"page", "template", "on"}, magnet |-> {"page", "template", "on"},
     widget |-> {"page", "value", "available", "request"}, reset |-> {}]

\* A decoded command has the fields of its kind; Keep stands for an absent one.
WellFormed(c) ==
    /\ c.kind \in DOMAIN Fields /\ DOMAIN c = {"kind"} \cup Fields[c.kind]
    /\ c.kind \in {"view", "display"} => c.value \in Values
    /\ c.kind \in {"visibility", "magnet"} => c.on \in BOOLEAN
    /\ c.kind \in {"strobe", "upsert"} =>
        c.visible \in BOOLEAN \cup {Keep} /\ c.position \in Positions \cup {Keep}
    /\ c.kind = "upsert" => c.reticle \in Reticles
    /\ c.kind = "widget" => c.available \in BOOLEAN \cup {Keep}

ASSUME SceneAssumption ==
    /\ DefaultPage \in Pages /\ FirstStrobe \in Strobes
    /\ NoReticle \notin Reticles /\ Keep \notin Values /\ Keep \notin BOOLEAN
    /\ Positions \subseteq Nat /\ 0 \in Positions /\ 0 \in Values
    /\ Radius \in Nat /\ MaxFeedback \in Nat \ {0} /\ {MaxRequests, MaxCreated} \subseteq Nat
    /\ Transactional \in BOOLEAN
    /\ \A commands \in Batches \cup Bursts :
        /\ Len(commands) \in Nat /\ DOMAIN commands = 1 .. Len(commands)
        /\ \A i \in DOMAIN commands : WellFormed(commands[i])

VARIABLES
    scene,          \* the runtime state of the SceneRegistry
    request         \* request_ of the WidgetInputController

vars == <<scene, request>>

-----------------------------------------------------------------------------
(* The scene. *)

\* LoadDocument
Loaded ==
    [active |-> DefaultPage, display |-> 0,
     static |-> [p \in Pages |-> 0],
     hidden |-> {}, magnetic |-> {},
     dynamics |-> <<>>, creation |-> 1,
     selected |-> [p \in Pages |-> FirstStrobe],
     strobe |-> [k \in Pages \X Strobes |-> [position |-> 0, lock |-> NoReticle, visible |-> TRUE]],
     widget |-> [p \in Pages |-> [value |-> 0, available |-> TRUE, touched |-> FALSE,
                                  pending |-> FALSE, request |-> 0]],
     feedback |-> <<>>]

TypeOfScene(s) ==
    /\ s.active \in Pages /\ s.display \in Values
    /\ s.static \in [Pages -> Values]
    /\ {s.hidden, s.magnetic} \subseteq SUBSET Overrides
    /\ DOMAIN s.dynamics \subseteq Pages \X Reticles
    /\ \A k \in DOMAIN s.dynamics : s.dynamics[k] \in Dynamic
    /\ s.creation \in Nat
    /\ s.selected \in [Pages -> Strobes]
    /\ s.strobe \in [Pages \X Strobes -> Strobe]
    /\ s.widget \in [Pages -> Widget]
    /\ s.feedback \in Seq(Nat) /\ Len(s.feedback) <= MaxFeedback

\* A dynamic reticle a strobe of the active page can be locked on.
Attracts(s, k) ==
    /\ k \in DOMAIN s.dynamics /\ k[1] = s.active
    /\ s.dynamics[k].visible
    /\ <<k[1], s.dynamics[k].template>> \in s.magnetic \ s.hidden

Selected(s, p) == <<p, s.selected[p]>>

\* RefreshStickyStrobePosition: follow the locked reticle or let it go.
RefreshSticky(s, p) ==
    LET sel == Selected(s, p)
        target == <<p, s.strobe[sel].lock>>
    IN IF p # s.active \/ target[2] = NoReticle THEN s
       ELSE IF Attracts(s, target) THEN [s EXCEPT !.strobe[sel].position = s.dynamics[target].position]
       ELSE [s EXCEPT !.strobe[sel].lock = NoReticle]

\* The interaction of a widget that loses the pointer.
Released(w) == [w EXCEPT !.touched = FALSE, !.pending = FALSE]

\* Mutant: the sticky strobe is not refreshed when its page is shown.
Activated_NoRefresh(s, p) ==
    LET t == IF s.active = p THEN s ELSE [s EXCEPT !.widget = [q \in Pages |-> Released(@[q])]]
    IN [t EXCEPT !.active = p]

\* Mutant: widgets keep their press when the page changes.
Activated_KeepsPress(s, p) == RefreshSticky([s EXCEPT !.active = p], p)

\* SetActivePage
Activated(s, p) ==
    LET t == IF s.active = p THEN s ELSE [s EXCEPT !.widget = [q \in Pages |-> Released(@[q])]]
    IN RefreshSticky([t EXCEPT !.active = p], p)

\* SelectStrobe
WithStrobe(s, p, v) ==
    IF s.selected[p] = v THEN s ELSE RefreshSticky([s EXCEPT !.selected[p] = v], p)

Abs(n) == IF n < 0 THEN -n ELSE n

\* FindNearestStrobeMagnetTarget; reticles at one distance tie.
Nearest(s, p, x) ==
    LET near == {k \in DOMAIN s.dynamics : k[1] = p /\ Attracts(s, k) /\ Abs(s.dynamics[k].position - x) < Radius}
    IN {k \in near : \A j \in near : Abs(s.dynamics[k].position - x) <= Abs(s.dynamics[j].position - x)}

\* A strobe at a position, locked on a reticle or on none.
Placed(s, k, position, lock) ==
    [s EXCEPT !.strobe[k] = [@ EXCEPT !.position = position, !.lock = lock]]

\* SetStrobePosition: every outcome.
Moved(s, p, x) ==
    IF Nearest(s, p, x) = {} THEN {Placed(s, Selected(s, p), x, NoReticle)}
    ELSE {Placed(s, Selected(s, p), s.dynamics[k].position, k[2]) : k \in Nearest(s, p, x)}

-----------------------------------------------------------------------------
(* The command handlers: the scenes a command can lead to, none if it fails. *)

\* f, and g where f has no value.
Over(f, g) == [k \in DOMAIN f \cup DOMAIN g |-> IF k \in DOMAIN f THEN f[k] ELSE g[k]]

Or(field, old) == IF field = Keep THEN old ELSE field

OnActivatePage(s, c) == {Activated(s, c.page)}

\* OnSetPageView, OnUpdateReticle and OnUpdateContainer overwrite page state.
OnSetPageView(s, c) == {[s EXCEPT !.static[c.page] = c.value]}

OnUpdateWindowDisplay(s, c) == {[s EXCEPT !.display = c.value]}

\* ApplyStrobeUpdate: select, then show, then move.
OnUpdateStrobe(s, c) ==
    LET t == WithStrobe(s, c.page, Or(c.strobe, s.selected[c.page]))
        u == [t EXCEPT !.strobe[Selected(t, c.page)].visible = Or(c.visible, @)]
    IN IF c.strobe \notin Strobes \cup {Keep} THEN {}
       ELSE IF c.position = Keep THEN {u} ELSE Moved(u, c.page, c.position)

\* CheckDynamicReticleUpsert, then UpsertDynamicReticle and its patch.
OnUpsertDynamicReticle(s, c) ==
    LET k == <<c.page, c.reticle>>
        known == k \in DOMAIN s.dynamics
        old == IF known THEN s.dynamics[k]
               ELSE [template |-> c.template, position |-> 0, visible |-> TRUE, creation |-> s.creation]
        new == [old EXCEPT !.position = Or(c.position, @), !.visible = Or(c.visible, @)]
    IN IF c.template \notin Bound[c.page] \/ old.template # c.template THEN {}
       ELSE {RefreshSticky([s EXCEPT !.dynamics = Over([j \in {k} |-> new], @),
                                     !.creation = IF known THEN @ ELSE @ + 1], c.page)}

OnRemoveDynamicReticle(s, c) ==
    LET k == <<c.page, c.reticle>>
    IN {RefreshSticky([s EXCEPT !.dynamics = [i \in DOMAIN @ \ {k} |-> @[i]]], c.page) :
            j \in DOMAIN s.dynamics \cap {k}}

Marked(set, k, in) == IF in THEN set \cup {k} ELSE set \ {k}

OnSetDynamicReticleSetVisibility(s, c) ==
    {RefreshSticky([s EXCEPT !.hidden = Marked(@, <<c.page, t>>, ~c.on)], c.page) :
        t \in Bound[c.page] \cap {c.template}}

OnSetDynamicReticleSetStrobeMagnetEnabled(s, c) ==
    {RefreshSticky([s EXCEPT !.magnetic = Marked(@, <<c.page, t>>, c.on)], c.page) :
        t \in Bound[c.page] \cap {c.template}}

\* ApplyWidgetPatch: an acknowledgement must name the current request.
OnUpdateWidget(s, c) ==
    LET w == s.widget[c.page]
        told == [w EXCEPT !.value = Or(c.value, @), !.available = Or(c.available, @),
                          !.pending = @ /\ c.request = Keep]
    IN IF c.request \notin {Keep, w.request} \/ told.value \notin Values THEN {}
       ELSE {[s EXCEPT !.widget[c.page] = IF told.available THEN told ELSE Released(told)]}

OnResetWindow(s) == {Loaded}

\* A command whose page the scene does not have fails, whatever its kind (ResolvePageRef).
OnKnownPage(c) == c.kind \in {"display", "reset"} \/ c.page \in Pages

Dispatch(s, c) ==
    IF ~OnKnownPage(c) THEN {} ELSE
    CASE c.kind = "page" -> OnActivatePage(s, c)
      [] c.kind = "view" -> OnSetPageView(s, c)
      [] c.kind = "display" -> OnUpdateWindowDisplay(s, c)
      [] c.kind = "strobe" -> OnUpdateStrobe(s, c)
      [] c.kind = "upsert" -> OnUpsertDynamicReticle(s, c)
      [] c.kind = "remove" -> OnRemoveDynamicReticle(s, c)
      [] c.kind = "visibility" -> OnSetDynamicReticleSetVisibility(s, c)
      [] c.kind = "magnet" -> OnSetDynamicReticleSetStrobeMagnetEnabled(s, c)
      [] c.kind = "widget" -> OnUpdateWidget(s, c)
      [] c.kind = "reset" -> OnResetWindow(s)

-----------------------------------------------------------------------------
(* Rolling back. *)

Kinds(commands) == {commands[i].kind : i \in DOMAIN commands}

\* Mutant: strobe updates are left out of the footprint.
TouchedPages_NoStrobes(s, commands) ==
    LET paged == {i \in DOMAIN commands : commands[i].kind \notin {"display", "reset", "strobe"}}
    IN (Pages \cap {commands[i].page : i \in paged})
       \cup (IF "page" \in Kinds(commands) THEN {s.active} ELSE {})

\* CommandRollbackFootprintCollector: what a batch is expected to touch.
TouchesWholeScene(commands) == "reset" \in Kinds(commands)
TouchedPages(s, commands) ==
    LET paged == {i \in DOMAIN commands : commands[i].kind \notin {"display", "reset"}}
    IN (Pages \cap {commands[i].page : i \in paged})
       \cup (IF "page" \in Kinds(commands) THEN {s.active} ELSE {})

OfPages(f, pages) == [k \in {j \in DOMAIN f : j[1] \in pages} |-> f[k]]
SetsOf(set, pages) == {k \in set : k[1] \in pages}

\* ClearDynamicReticles and EraseDynamicTemplateOverridesForPage, which erases the widget states of
\* the pages but none of the overrides: their keys do not begin with a page's name.
Neutral(s, pages) ==
    LET cleared == [s EXCEPT !.dynamics = OfPages(@, Pages \ pages)]
    IN [(IF s.active \in pages THEN RefreshSticky(cleared, s.active) ELSE cleared) EXCEPT
           !.widget = [p \in Pages |-> IF p \in pages THEN Loaded.widget[p] ELSE @[p]]]

\* The rows of a snapshot taken of old, up to the strobe rows.
WithRows(s, old, pages) ==
    [s EXCEPT
        !.display = old.display,
        !.static = [p \in Pages |-> IF p \in pages THEN old.static[p] ELSE @[p]],
        !.hidden = @ \cup SetsOf(old.hidden, pages),
        !.magnetic = @ \cup SetsOf(old.magnetic, pages),
        !.widget = [p \in Pages |-> IF p \in pages THEN old.widget[p] ELSE @[p]],
        !.dynamics = Over(OfPages(old.dynamics, pages), @),
        !.strobe = [k \in Pages \X Strobes |-> IF k[1] \in pages THEN old.strobe[k] ELSE @[k]]]

\* Selecting the captured strobe of every captured page; a page that is not
\* active has nothing to refresh.
WithSelections(s, old, pages) ==
    LET others == [s EXCEPT !.selected = [p \in Pages |->
                                 IF p \in pages \ {s.active} THEN old.selected[p] ELSE @[p]]]
    IN IF s.active \in pages THEN WithStrobe(others, s.active, old.selected[s.active]) ELSE others

\* Mutant: the next creation sequence is not put back.
Applied_NoSequence(s, old, pages) ==
    Activated(WithSelections(WithRows(s, old, pages), old, pages), old.active)

\* ApplySnapshotState
Applied(s, old, pages) ==
    LET shown == Activated(WithSelections(WithRows(s, old, pages), old, pages), old.active)
    IN [shown EXCEPT !.creation = Max({1, old.creation})]

\* RestoreRuntimeSnapshot
Restored(s, old, commands) ==
    IF TouchesWholeScene(commands) THEN Applied(Loaded, old, Pages)
    ELSE LET pages == TouchedPages(old, commands) IN Applied(Neutral(s, pages), old, pages)

-----------------------------------------------------------------------------
(* The steps. *)

\* Commands in order, up to the first that fails.
Step(outcomes, c) ==
    UNION {IF o.ok /\ Dispatch(o.scene, c) # {}
           THEN {[scene |-> t, ok |-> TRUE] : t \in Dispatch(o.scene, c)}
           ELSE {[o EXCEPT !.ok = FALSE]} : o \in outcomes}
Outcomes(s, commands) ==
    LET after[n \in 0 .. Len(commands)] ==
            IF n = 0 THEN {[scene |-> s, ok |-> TRUE]} ELSE Step(after[n - 1], commands[n])
    IN after[Len(commands)]

\* SubmitCommandsWithCurrentTransactionMode: what a batch leaves.
Submitted(s, commands, mode) ==
    {IF o.ok \/ ~mode \/ Len(commands) <= 1 THEN o
     ELSE [o EXCEPT !.scene = Restored(@, s, commands)] : o \in Outcomes(s, commands)}

-----------------------------------------------------------------------------
(* Coalescing. *)

\* Mutant: the reticle is not part of the key.
SameKey_AnyReticle(c, d) ==
    /\ c.kind = d.kind /\ c.kind \notin {"page", "remove", "widget", "reset"}
    /\ \A field \in {"page", "strobe", "template"} \cap DOMAIN c : c[field] = d[field]

\* CommandCoalescingKeyVisitor: commands that may be merged. The others are barriers.
SameKey(c, d) ==
    /\ c.kind = d.kind /\ c.kind \notin {"page", "remove", "widget", "reset"}
    /\ \A field \in {"page", "strobe", "reticle", "template"} \cap DOMAIN c : c[field] = d[field]

\* Mutant: the later command replaces the earlier one, absent fields included.
Merged_Replaces(c, d) == d

\* MergeCoalescedCommand: of each field the latest value.
Merged(c, d) == [field \in DOMAIN c |-> IF d[field] = Keep THEN c[field] ELSE d[field]]

\* CommandCoalescer: neighbours are merged.
Coalesced(merged, c) ==
    IF merged # <<>> /\ SameKey(merged[Len(merged)], c)
    THEN [merged EXCEPT ![Len(merged)] = Merged(@, c)] ELSE Append(merged, c)
Coalesce(commands) ==
    LET after[n \in 0 .. Len(commands)] ==
            IF n = 0 THEN <<>> ELSE Coalesced(after[n - 1], commands[n])
    IN after[Len(commands)]

-----------------------------------------------------------------------------
Init ==
    /\ scene = Loaded
    /\ request = 0

SubmitBatch(commands) ==
    /\ scene' \in {o.scene : o \in Submitted(scene, commands, Transactional)}
    /\ scene'.creation <= MaxCreated + 1
    /\ UNCHANGED request

\* Mutant: the oldest feedback is not dropped.
Queued_NoCap(queue, event) == Append(queue, event)

\* QueueWidgetFeedback
Queued(queue, event) == LET q == Append(queue, event) IN IF Len(q) > MaxFeedback THEN Tail(q) ELSE q

\* WidgetInputController::Update: the pointer on the widget of the active page.
\* Besides requests it reports presses, cancellations and snapshots.
UpdateWidgetInput(touched, pending, fresh, report) ==
    LET w == scene.widget[scene.active]
        id == IF fresh THEN request + 1 ELSE w.request
    IN /\ touched \/ pending \/ fresh => w.available
       /\ fresh => report /\ request < MaxRequests
       /\ pending => fresh \/ w.pending
       /\ request' = IF fresh THEN id ELSE request
       /\ scene' = [scene EXCEPT
              !.widget[scene.active] = [@ EXCEPT !.touched = touched, !.pending = pending, !.request = id],
              !.feedback = IF report THEN Queued(@, id) ELSE @]

TakeWidgetFeedback ==
    /\ scene.feedback # <<>>
    /\ scene' = [scene EXCEPT !.feedback = <<>>]
    /\ UNCHANGED request

Next ==
    \/ \E commands \in Batches : SubmitBatch(commands)
    \/ \E touched, pending, fresh, report \in BOOLEAN : UpdateWidgetInput(touched, pending, fresh, report)
    \/ TakeWidgetFeedback

Spec == Init /\ [][Next]_vars

-----------------------------------------------------------------------------
(* Properties. *)

\* The scene has its type, through every handler and every rollback.
TypeOK ==
    /\ TypeOfScene(scene)
    /\ request \in 0..MaxRequests

\* What commands decide, leaving out what the pointer does to the widgets and
\* where the selected strobe of a hidden page sits: showing the page decides
\* that anew.
Shown(s, k) == k[1] = s.active \/ k # Selected(s, k[1])
Commanded(s) ==
    [s EXCEPT !.feedback = <<>>,
              !.widget = [p \in Pages |-> Released(@[p])],
              !.strobe = [k \in Pages \X Strobes |-> IF Shown(s, k) THEN @[k] ELSE
                             [@[k] EXCEPT !.position = 0, !.lock = NoReticle]]]

\* The template sets that commands of a batch hide, or give a magnet.
HiddenBy(commands) ==
    {<<c.page, c.template>> : c \in {d \in Range(commands) : d.kind = "visibility" /\ ~d.on}}
MagneticBy(commands) ==
    {<<c.page, c.template>> : c \in {d \in Range(commands) : d.kind = "magnet" /\ d.on}}

\* The sets after a rollback: those before, and of the given ones some that were left behind.
LeavesBehind(after, before, given) == before \subseteq after /\ after \subseteq before \cup given

\* A scene after the rollback of a batch, by the scene before it. Only where not the whole scene is
\* put back may overrides be left behind.
RolledBack(before, after, commands) ==
    LET kept == [before EXCEPT !.hidden = after.hidden, !.magnetic = after.magnetic]
        whole == TouchesWholeScene(commands)
    IN /\ Commanded(after) = Commanded(RefreshSticky(kept, kept.active))
       /\ LeavesBehind(after.hidden, before.hidden, IF whole THEN {} ELSE HiddenBy(commands))
       /\ LeavesBehind(after.magnetic, before.magnetic, IF whole THEN {} ELSE MagneticBy(commands))

\* A batch of several commands that fails leaves what commands decide as it was (the active page,
\* reticles and their creation order, strobes with their locks, the confirmed state of widgets), and
\* keeps every override there was. Only a set that the batch itself hid or gave a magnet may stay so,
\* and the strobe that sits on a reticle of a set left hidden is let go (RestoreRuntimeSnapshot).
RollbackRestores ==
    \A commands \in Batches : \A o \in Submitted(scene, commands, TRUE) :
        ~o.ok /\ Len(commands) > 1 => RolledBack(scene, o.scene, commands)

\* The strobes that may be locked while a batch is applied: those that are, and those it moves.
MayLock(s, commands) ==
    {k \in Pages \X Strobes :
        \/ s.strobe[k].lock # NoReticle
        \/ \E i \in DOMAIN commands : /\ commands[i].kind = "strobe" /\ commands[i].page = k[1]
                                      /\ commands[i].position # Keep}

\* s is t, but for strobes of the set K that were let go.
LetGo(s, t, K) ==
    /\ s = [t EXCEPT !.strobe = s.strobe]
    /\ \A k \in Pages \X Strobes :
          \/ s.strobe[k] = t.strobe[k]
          \/ k \in K /\ s.strobe[k].lock = NoReticle /\ s.strobe[k].visible = t.strobe[k].visible

\* A batch that is applied whole has, once coalesced, an outcome that it had as it was received. The
\* one difference is a strobe locked on a reticle that moves, hides or loses its magnet between the
\* commands: applied one by one they may let it go, and leave it elsewhere (CommandCoalescer).
CoalescedAlike ==
    \A burst \in Bursts : \A o \in Outcomes(scene, burst) :
        o.ok => \E u \in Outcomes(scene, Coalesce(burst)) :
                   u.ok /\ LetGo(o.scene, u.scene, MayLock(scene, burst))

\* The selected strobe of the active page sits on the reticle it is locked
\* on, and that reticle is still there, shown and magnetic
\* (RefreshStickyStrobePosition after every change, and after a rollback).
StrobeSitsOnLock ==
    LET lock == scene.strobe[Selected(scene, scene.active)].lock
    IN lock # NoReticle =>
        /\ Attracts(scene, <<scene.active, lock>>)
        /\ scene.strobe[Selected(scene, scene.active)].position = scene.dynamics[<<scene.active, lock>>].position

\* Creation sequences order the reticles of a page: no two are equal and the
\* next one is later than all, also after a rollback put old ones back
\* (nextDynamicCreationSequence_, BuildDynamicReticleDrawOrderKey).
CreationOrders ==
    /\ \A k \in DOMAIN scene.dynamics : scene.dynamics[k].creation < scene.creation
    /\ \A j, k \in DOMAIN scene.dynamics :
          scene.dynamics[j].creation = scene.dynamics[k].creation => j = k

\* A press or a pending request belongs to a widget of the active page, so
\* no widget comes back pressed when its page does (SetActivePage, and its
\* place in ApplySnapshotState).
InteractionOnActivePage ==
    \A p \in Pages : scene.widget[p].touched \/ scene.widget[p].pending => p = scene.active

=============================================================================
