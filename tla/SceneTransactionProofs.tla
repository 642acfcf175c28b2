----------------------- MODULE SceneTransactionProofs -----------------------
(***************************************************************************)
(* Proofs about SceneTransaction: what every command handler keeps, that   *)
(* a failed batch is rolled back up to the overrides it made itself, and   *)
(* that a coalesced batch has an outcome of the batch as it was received.  *)
(***************************************************************************)
EXTENDS SceneTransaction, SumTheorems

-----------------------------------------------------------------------------
(* Scenes as a set of records. *)

Places == Pages \X Reticles
DynamicMaps == UNION {[D -> Dynamic] : D \in SUBSET Places}
Feedbacks == {q \in Seq(Nat) : Len(q) <= MaxFeedback}

Scenes ==
    [active : Pages, display : Values, static : [Pages -> Values],
     hidden : SUBSET Overrides, magnetic : SUBSET Overrides,
     dynamics : DynamicMaps, creation : Nat \ {0},
     selected : [Pages -> Strobes], strobe : [Pages \X Strobes -> Strobe],
     widget : [Pages -> Widget], feedback : Feedbacks]

\* The invariants of the run, of any scene.
SitsOnLock(s) ==
    LET sel == Selected(s, s.active) lock == s.strobe[sel].lock
    IN lock # NoReticle =>
        /\ Attracts(s, <<s.active, lock>>)
        /\ s.strobe[sel].position = s.dynamics[<<s.active, lock>>].position

InOrder(s) ==
    /\ \A k \in DOMAIN s.dynamics : s.dynamics[k].creation < s.creation
    /\ \A j, k \in DOMAIN s.dynamics : s.dynamics[j].creation = s.dynamics[k].creation => j = k

TouchedWhereShown(s) ==
    \A p \in Pages : s.widget[p].touched \/ s.widget[p].pending => p = s.active

Coherent(s) == SitsOnLock(s) /\ InOrder(s) /\ TouchedWhereShown(s)

\* t has what s has, but for the fields of the strobes, of the active page, ...
SameRows(s, t) ==
    /\ t.display = s.display /\ t.static = s.static /\ t.hidden = s.hidden
    /\ t.magnetic = s.magnetic /\ t.dynamics = s.dynamics /\ t.creation = s.creation
    /\ t.feedback = s.feedback
SameButStrobe(s, t) ==
    /\ SameRows(s, t) /\ t.active = s.active /\ t.selected = s.selected /\ t.widget = s.widget

LEMMA SceneFields ==
  ASSUME NEW s \in Scenes
  PROVE  /\ s.active \in Pages /\ s.display \in Values /\ s.static \in [Pages -> Values]
         /\ s.hidden \in SUBSET Overrides /\ s.magnetic \in SUBSET Overrides
         /\ s.dynamics \in DynamicMaps /\ s.creation \in Nat \ {0}
         /\ s.selected \in [Pages -> Strobes] /\ s.strobe \in [Pages \X Strobes -> Strobe]
         /\ s.widget \in [Pages -> Widget] /\ s.feedback \in Feedbacks
  BY DEF Scenes

\* Two scenes with the same fields are one.
LEMMA SameScene ==
  ASSUME NEW s \in Scenes, NEW t \in Scenes, SameButStrobe(s, t), t.strobe = s.strobe
  PROVE  t = s
  BY DEF Scenes, SameButStrobe, SameRows

LEMMA DynamicTyped ==
  ASSUME NEW d \in DynamicMaps
  PROVE  DOMAIN d \subseteq Places /\ \A k \in DOMAIN d : d[k] \in Dynamic
  BY DEF DynamicMaps

LEMMA SelectedIs ==
  ASSUME NEW s \in Scenes, NEW p \in Pages
  PROVE  Selected(s, p) = <<p, s.selected[p]>> /\ Selected(s, p) \in Pages \X Strobes
         /\ s.strobe[Selected(s, p)] \in Strobe
  BY SceneFields DEF Selected

\* A strobe is moved or let go.
LEMMA StrobeSet ==
  ASSUME NEW s \in Scenes, NEW k \in Pages \X Strobes, NEW new \in Strobe
  PROVE  LET t == [s EXCEPT !.strobe[k] = new]
         IN /\ t \in Scenes /\ SameButStrobe(s, t)
            /\ t.strobe = [s.strobe EXCEPT ![k] = new]
  BY DEF Scenes, SameButStrobe, SameRows

-----------------------------------------------------------------------------
(* The sticky strobe. *)

\* What happens to the selected strobe of the active page.
FollowedStrobe(s) ==
    LET sel == Selected(s, s.active)
        target == <<s.active, s.strobe[sel].lock>>
    IN IF Attracts(s, target)
       THEN [s.strobe[sel] EXCEPT !.position = s.dynamics[target].position]
       ELSE [s.strobe[sel] EXCEPT !.lock = NoReticle]

LEMMA RefreshOther ==
  ASSUME NEW s, NEW p, p # s.active
  PROVE  RefreshSticky(s, p) = s
  BY DEF RefreshSticky

LEMMA RefreshActive ==
  ASSUME NEW s \in Scenes
  PROVE  LET sel == Selected(s, s.active)
         IN /\ s.strobe[sel].lock = NoReticle => RefreshSticky(s, s.active) = s
            /\ s.strobe[sel].lock # NoReticle =>
                 RefreshSticky(s, s.active) = [s EXCEPT !.strobe[sel] = FollowedStrobe(s)]
  BY DEF RefreshSticky, FollowedStrobe

LEMMA FollowedTyped ==
  ASSUME NEW s \in Scenes
  PROVE  LET sel == Selected(s, s.active)
         IN /\ FollowedStrobe(s) \in Strobe
            /\ FollowedStrobe(s).visible = s.strobe[sel].visible
  <1> DEFINE sel == Selected(s, s.active)
             target == <<s.active, s.strobe[sel].lock>>
  <1>1. s.active \in Pages /\ s.strobe[sel] \in Strobe
    BY SceneFields, SelectedIs
  <1>2. CASE Attracts(s, target)
    <2>1. target \in DOMAIN s.dynamics
      BY <1>2 DEF Attracts
    <2>2. s.dynamics[target].position \in Positions
      BY <2>1, SceneFields, DynamicTyped DEF Dynamic
    <2> QED
      BY <1>1, <1>2, <2>2 DEF FollowedStrobe, Strobe
  <1>3. CASE ~ Attracts(s, target)
    BY <1>1, <1>3 DEF FollowedStrobe, Strobe
  <1> QED
    BY <1>2, <1>3

\* A strobe follows the same reticle in scenes that agree on it and on the reticles.
LEMMA AttractsAlike ==
  ASSUME NEW s, NEW t, NEW k, t.active = s.active, t.dynamics = s.dynamics,
         t.magnetic = s.magnetic, t.hidden = s.hidden
  PROVE  Attracts(t, k) <=> Attracts(s, k)
  BY DEF Attracts

LEMMA SitsAlike ==
  ASSUME NEW s, NEW t, SitsOnLock(s), t.active = s.active, t.dynamics = s.dynamics,
         t.magnetic = s.magnetic, t.hidden = s.hidden,
         t.selected[s.active] = s.selected[s.active],
         t.strobe[Selected(s, s.active)] = s.strobe[Selected(s, s.active)]
  PROVE  SitsOnLock(t)
  <1>1. Selected(t, t.active) = Selected(s, s.active)
    BY DEF Selected
  <1>2. \A k : Attracts(t, k) <=> Attracts(s, k)
    BY AttractsAlike
  <1> QED
    BY <1>1, <1>2 DEF SitsOnLock

\* Only the selected strobe of the active page is refreshed. It then sits on its lock, and a
\* strobe that already did stays as it is.
LEMMA RefreshIs ==
  ASSUME NEW s \in Scenes, NEW p \in Pages
  PROVE  LET t == RefreshSticky(s, p)
         IN /\ t \in Scenes
            /\ SameButStrobe(s, t)
            /\ \A k \in Pages \X Strobes : k # Selected(s, p) => t.strobe[k] = s.strobe[k]
            /\ t.strobe[Selected(s, p)].visible = s.strobe[Selected(s, p)].visible
            /\ p # s.active => t = s
            /\ p = s.active => SitsOnLock(t)
            /\ SitsOnLock(s) => t = s
  <1> DEFINE t == RefreshSticky(s, p)
             sel == Selected(s, s.active)
             lock == s.strobe[sel].lock
             target == <<s.active, lock>>
  <1>1. s.active \in Pages /\ sel \in Pages \X Strobes /\ s.strobe[sel] \in Strobe
    BY SceneFields, SelectedIs
  <1>2. CASE p # s.active
    <2>1. t = s
      BY <1>2, RefreshOther
    <2> QED
      BY <1>2, <2>1 DEF SameButStrobe, SameRows
  <1>3. CASE p = s.active /\ lock = NoReticle
    <2>1. t = s
      BY <1>3, RefreshActive
    <2>2. SitsOnLock(s)
      BY <1>3 DEF SitsOnLock
    <2> QED
      BY <1>3, <2>1, <2>2 DEF SameButStrobe, SameRows
  <1>4. CASE p = s.active /\ lock # NoReticle
    <2>1. t = [s EXCEPT !.strobe[sel] = FollowedStrobe(s)]
      BY <1>4, RefreshActive
    <2>2. FollowedStrobe(s) \in Strobe /\ FollowedStrobe(s).visible = s.strobe[sel].visible
      BY FollowedTyped
    <2>3. t \in Scenes /\ SameButStrobe(s, t) /\ t.strobe = [s.strobe EXCEPT ![sel] = FollowedStrobe(s)]
      BY <1>1, <2>1, <2>2, StrobeSet
    <2>4. s.strobe \in [Pages \X Strobes -> Strobe]
      BY SceneFields
    <2> HIDE DEF t, sel
    <2>5. /\ \A k \in Pages \X Strobes : k # sel => t.strobe[k] = s.strobe[k]
          /\ t.strobe[sel] = FollowedStrobe(s)
      BY <1>1, <2>3, <2>4
    <2>6. Selected(t, t.active) = sel /\ t.active = s.active
      BY <2>3 DEF SameButStrobe, Selected, sel
    <2>7. \A k : Attracts(t, k) <=> Attracts(s, k)
      BY <2>3, AttractsAlike DEF SameButStrobe, SameRows
    <2>8. SitsOnLock(t)
      <3>1. CASE Attracts(s, target)
        <4>1. FollowedStrobe(s) = [s.strobe[sel] EXCEPT !.position = s.dynamics[target].position]
          BY <3>1 DEF FollowedStrobe, sel
        <4>2. t.strobe[sel].lock = lock /\ t.strobe[sel].position = s.dynamics[target].position
          BY <1>1, <2>5, <4>1 DEF Strobe
        <4>3. t.dynamics = s.dynamics
          BY <2>3 DEF SameButStrobe, SameRows
        <4> QED
          BY <2>6, <2>7, <3>1, <4>2, <4>3 DEF SitsOnLock
      <3>2. CASE ~ Attracts(s, target)
        <4>1. FollowedStrobe(s) = [s.strobe[sel] EXCEPT !.lock = NoReticle]
          BY <3>2 DEF FollowedStrobe, sel
        <4>2. t.strobe[sel].lock = NoReticle
          BY <1>1, <2>5, <4>1 DEF Strobe
        <4> QED
          BY <2>6, <4>2 DEF SitsOnLock
      <3> QED
        BY <3>1, <3>2
    <2>9. ASSUME SitsOnLock(s) PROVE t = s
      <3>1. Attracts(s, target) /\ s.strobe[sel].position = s.dynamics[target].position
        BY <1>4, <2>9 DEF SitsOnLock, sel
      <3>2. FollowedStrobe(s) = s.strobe[sel]
        <4>1. FollowedStrobe(s) = [s.strobe[sel] EXCEPT !.position = s.dynamics[target].position]
          BY <3>1 DEF FollowedStrobe, sel
        <4> QED
          BY <1>1, <3>1, <4>1 DEF Strobe
      <3>3. t.strobe = s.strobe
        BY <2>3, <2>4, <3>2
      <3> QED
        BY <2>3, <3>3, SameScene
    <2> QED
      BY <1>4, <2>2, <2>3, <2>5, <2>8, <2>9 DEF t, sel
  <1> QED
    BY <1>2, <1>3, <1>4

\* The refresh of the sticky strobe, by what it makes of that strobe.
StrobeAfter(s, p) ==
    LET old == s.strobe[Selected(s, p)]
    IN IF p # s.active \/ old.lock = NoReticle THEN old
       ELSE IF Attracts(s, <<p, old.lock>>)
            THEN [old EXCEPT !.position = s.dynamics[<<p, old.lock>>].position]
            ELSE [old EXCEPT !.lock = NoReticle]

LEMMA RefreshedStrobe ==
  ASSUME NEW s \in Scenes, NEW p \in Pages
  PROVE  RefreshSticky(s, p).strobe[Selected(s, p)] = StrobeAfter(s, p)
  <1> DEFINE t == RefreshSticky(s, p)
             sel == Selected(s, p)
             lock == s.strobe[sel].lock
  <1>1. sel \in Pages \X Strobes /\ s.strobe[sel] \in Strobe /\ s.strobe \in [Pages \X Strobes -> Strobe]
    BY SceneFields, SelectedIs
  <1>2. CASE p # s.active
    BY <1>2, RefreshOther DEF StrobeAfter
  <1>3. CASE p = s.active /\ lock = NoReticle
    BY <1>3, RefreshActive DEF StrobeAfter
  <1>4. CASE p = s.active /\ lock # NoReticle
    <2>1. t = [s EXCEPT !.strobe[sel] = FollowedStrobe(s)]
      BY <1>4, RefreshActive
    <2>2. FollowedStrobe(s) \in Strobe
      BY FollowedTyped
    <2>3. t.strobe = [s.strobe EXCEPT ![sel] = FollowedStrobe(s)]
      BY <1>1, <2>1, <2>2, StrobeSet
    <2>4. t.strobe[sel] = FollowedStrobe(s)
      BY <1>1, <2>3
    <2> QED
      BY <1>4, <2>4 DEF FollowedStrobe, StrobeAfter
  <1> QED
    BY <1>2, <1>3, <1>4

-----------------------------------------------------------------------------
(* Showing a page and selecting a strobe. *)

LEMMA ReleasedTyped ==
  ASSUME NEW w \in Widget
  PROVE  /\ Released(w) \in Widget
         /\ ~ Released(w).touched /\ ~ Released(w).pending
         /\ Released(Released(w)) = Released(w)
  BY DEF Released, Widget

\* Showing a page.
Turned(s, p) ==
    LET t == IF s.active = p THEN s ELSE [s EXCEPT !.widget = [q \in Pages |-> Released(@[q])]]
    IN [t EXCEPT !.active = p]

LEMMA TurnedIs ==
  ASSUME NEW s \in Scenes, NEW p \in Pages
  PROVE  /\ Activated(s, p) = RefreshSticky(Turned(s, p), p)
         /\ Turned(s, p) \in Scenes /\ Turned(s, p).strobe = s.strobe
         /\ SameRows(s, Turned(s, p)) /\ Turned(s, p).active = p /\ Turned(s, p).selected = s.selected
         /\ Turned(s, p).widget = IF s.active = p THEN s.widget ELSE [q \in Pages |-> Released(s.widget[q])]
  <1> DEFINE let == [q \in Pages |-> Released(s.widget[q])]
             u == IF s.active = p THEN s ELSE [s EXCEPT !.widget = let]
  <1>1. let \in [Pages -> Widget]
    BY SceneFields, ReleasedTyped
  <1>2. Turned(s, p) = [u EXCEPT !.active = p] /\ Activated(s, p) = RefreshSticky([u EXCEPT !.active = p], p)
    BY DEF Turned, Activated
  <1>3. /\ u.widget = IF s.active = p THEN s.widget ELSE let
    BY DEF Scenes
  <1> HIDE DEF let
  <1>4. /\ u \in Scenes /\ SameRows(s, u) /\ u.strobe = s.strobe /\ u.selected = s.selected
    BY <1>1 DEF Scenes, SameRows
  <1> HIDE DEF u
  <1>5. [u EXCEPT !.active = p] \in Scenes /\ SameRows(u, [u EXCEPT !.active = p])
        /\ [u EXCEPT !.active = p].strobe = u.strobe /\ [u EXCEPT !.active = p].selected = u.selected
        /\ [u EXCEPT !.active = p].widget = u.widget /\ [u EXCEPT !.active = p].active = p
    BY <1>4 DEF Scenes, SameRows
  <1>6. SameRows(s, [u EXCEPT !.active = p])
    BY <1>4, <1>5 DEF SameRows
  <1> QED
    BY <1>2, <1>3, <1>4, <1>5, <1>6 DEF let

LEMMA ActivatedIs ==
  ASSUME NEW s \in Scenes, NEW p \in Pages
  PROVE  LET t == Activated(s, p)
         IN /\ t \in Scenes /\ SameRows(s, t)
            /\ t.active = p /\ t.selected = s.selected
            /\ s.active = p => t.widget = s.widget
            /\ s.active # p => \A q \in Pages : t.widget[q] = Released(s.widget[q])
            /\ \A k \in Pages \X Strobes : k # Selected(s, p) => t.strobe[k] = s.strobe[k]
            /\ t.strobe[Selected(s, p)].visible = s.strobe[Selected(s, p)].visible
            /\ SitsOnLock(t)
            /\ SitsOnLock([s EXCEPT !.active = p]) => t.strobe = s.strobe
  <1> DEFINE let == [q \in Pages |-> Released(s.widget[q])]
             u == IF s.active = p THEN s ELSE [s EXCEPT !.widget = let]
             x == [u EXCEPT !.active = p]
             y == [s EXCEPT !.active = p]
             t == Activated(s, p)
  <1>1. t = RefreshSticky(x, p)
    BY DEF Activated
  <1>2. let \in [Pages -> Widget]
    BY SceneFields, ReleasedTyped
  <1> HIDE DEF let
  <1>3. /\ u \in Scenes /\ SameRows(s, u) /\ u.strobe = s.strobe /\ u.selected = s.selected
        /\ s.active = p => u.widget = s.widget
        /\ s.active # p => u.widget = let
    BY <1>2 DEF Scenes, SameRows
  <1> HIDE DEF u
  <1>4. /\ x \in Scenes /\ SameRows(s, x) /\ x.strobe = s.strobe /\ x.selected = s.selected
        /\ x.widget = u.widget /\ x.active = p
    BY <1>3 DEF Scenes, SameRows
  <1>5. /\ SameRows(s, y) /\ y.strobe = s.strobe /\ y.selected = s.selected /\ y.active = p
    BY DEF Scenes, SameRows
  <1> HIDE DEF x, y
  <1>6. Selected(x, p) = Selected(s, p) /\ Selected(y, p) = Selected(s, p)
    BY <1>4, <1>5 DEF Selected
  <1>7. /\ t \in Scenes /\ SameButStrobe(x, t) /\ SitsOnLock(t)
        /\ \A k \in Pages \X Strobes : k # Selected(s, p) => t.strobe[k] = s.strobe[k]
        /\ t.strobe[Selected(s, p)].visible = s.strobe[Selected(s, p)].visible
        /\ SitsOnLock(x) => t = x
    <2> HIDE DEF t
    <2> QED
      BY <1>1, <1>4, <1>6, RefreshIs
  <1>8. ASSUME SitsOnLock(y) PROVE t.strobe = s.strobe
    <2>1. SitsOnLock(x)
      BY <1>4, <1>5, <1>6, <1>8, SitsAlike DEF SameRows
    <2> QED
      BY <1>4, <1>7, <2>1
  <1> HIDE DEF t
  <1>9. /\ SameRows(s, t) /\ t.active = p /\ t.selected = s.selected
        /\ s.active = p => t.widget = s.widget
        /\ s.active # p => \A q \in Pages : t.widget[q] = Released(s.widget[q])
    BY <1>3, <1>4, <1>7 DEF SameButStrobe, SameRows, let
  <1> QED
    BY <1>7, <1>8, <1>9 DEF t, y

LEMMA WithStrobeIs ==
  ASSUME NEW s \in Scenes, NEW p \in Pages, NEW v \in Strobes
  PROVE  LET t == WithStrobe(s, p, v)
         IN /\ t \in Scenes /\ SameRows(s, t)
            /\ t.active = s.active /\ t.widget = s.widget
            /\ t.selected = [s.selected EXCEPT ![p] = v]
            /\ \A k \in Pages \X Strobes : k # <<p, v>> => t.strobe[k] = s.strobe[k]
            /\ t.strobe[<<p, v>>].visible = s.strobe[<<p, v>>].visible
            /\ SitsOnLock(s) => SitsOnLock(t)
            /\ SitsOnLock([s EXCEPT !.selected[p] = v]) => t.strobe = s.strobe
  <1> DEFINE x == [s EXCEPT !.selected[p] = v]
             t == WithStrobe(s, p, v)
  <1>1. s.selected \in [Pages -> Strobes]
    BY SceneFields
  <1>2. CASE s.selected[p] = v
    <2>1. t = s
      BY <1>2 DEF WithStrobe
    <2>2. [s.selected EXCEPT ![p] = v] = s.selected
      BY <1>1, <1>2
    <2> QED
      BY <2>1, <2>2 DEF SameRows
  <1>3. CASE s.selected[p] # v
    <2>1. t = RefreshSticky(x, p)
      BY <1>3 DEF WithStrobe
    <2>2. /\ x \in Scenes /\ SameRows(s, x) /\ x.strobe = s.strobe /\ x.widget = s.widget
          /\ x.active = s.active /\ x.selected = [s.selected EXCEPT ![p] = v]
      BY <1>1 DEF Scenes, SameRows
    <2> HIDE DEF x, t
    <2>3. Selected(x, p) = <<p, v>>
      BY <1>1, <2>2 DEF Selected
    <2>4. /\ t \in Scenes /\ SameButStrobe(x, t)
          /\ \A k \in Pages \X Strobes : k # <<p, v>> => t.strobe[k] = s.strobe[k]
          /\ t.strobe[<<p, v>>].visible = s.strobe[<<p, v>>].visible
          /\ p # x.active => t = x
          /\ p = x.active => SitsOnLock(t)
          /\ SitsOnLock(x) => t = x
      BY <2>1, <2>2, <2>3, RefreshIs
    <2>5. ASSUME SitsOnLock(s) PROVE SitsOnLock(t)
      <3>1. CASE p = s.active
        BY <2>2, <2>4, <3>1
      <3>2. CASE p # s.active
        <4>1. x.selected[s.active] = s.selected[s.active]
          BY <1>1, <2>2, <3>2
        <4>2. SitsOnLock(x)
          BY <2>2, <2>5, <4>1, SitsAlike DEF SameRows
        <4> QED
          BY <2>4, <4>2
      <3> QED
        BY <3>1, <3>2
    <2>6. /\ SameRows(s, t) /\ t.active = s.active /\ t.widget = s.widget
          /\ t.selected = [s.selected EXCEPT ![p] = v]
      BY <2>2, <2>4 DEF SameButStrobe, SameRows
    <2>7. SitsOnLock(x) => t.strobe = s.strobe
      BY <2>2, <2>4
    <2> QED
      BY <2>4, <2>5, <2>6, <2>7 DEF t, x
  <1> QED
    BY <1>2, <1>3

-----------------------------------------------------------------------------
(* What the handlers keep. *)

\* t agrees with s outside of the pages P, but for the interaction of widgets.
ElsewhereOnPages(s, t, P) ==
    \A p \in Pages \ P :
        /\ t.static[p] = s.static[p] /\ t.selected[p] = s.selected[p]
        /\ Released(t.widget[p]) = Released(s.widget[p])
        /\ \A v \in Strobes : t.strobe[<<p, v>>] = s.strobe[<<p, v>>]
ElsewhereInSets(s, t, P) ==
    \A k \in Overrides : k[1] \notin P =>
        /\ k \in t.hidden <=> k \in s.hidden
        /\ k \in t.magnetic <=> k \in s.magnetic
ElsewhereInReticles(s, t, P) ==
    \A k \in Places : k[1] \notin P =>
        /\ k \in DOMAIN t.dynamics <=> k \in DOMAIN s.dynamics
        /\ k \in DOMAIN s.dynamics => t.dynamics[k] = s.dynamics[k]
Elsewhere(s, t, P) ==
    /\ ElsewhereOnPages(s, t, P) /\ ElsewhereInSets(s, t, P) /\ ElsewhereInReticles(s, t, P)
    /\ t.active = s.active \/ {s.active, t.active} \subseteq P

LEMMA ElsewhereSelf ==
  ASSUME NEW s, NEW P
  PROVE  Elsewhere(s, s, P)
  BY DEF Elsewhere, ElsewhereOnPages, ElsewhereInSets, ElsewhereInReticles

LEMMA ElsewhereTrans ==
  ASSUME NEW s, NEW t, NEW u, NEW P, Elsewhere(s, t, P), Elsewhere(t, u, P)
  PROVE  Elsewhere(s, u, P)
  <1>1. ElsewhereOnPages(s, u, P)
    BY DEF Elsewhere, ElsewhereOnPages
  <1>2. ElsewhereInSets(s, u, P)
    BY DEF Elsewhere, ElsewhereInSets
  <1>3. ElsewhereInReticles(s, u, P)
    BY DEF Elsewhere, ElsewhereInReticles
  <1> QED
    BY <1>1, <1>2, <1>3 DEF Elsewhere

\* Every scene agrees with every other outside of all pages.
LEMMA ElsewhereNowhere ==
  ASSUME NEW s \in Scenes, NEW t \in Scenes
  PROVE  Elsewhere(s, t, Pages)
  BY SceneFields DEF Elsewhere, ElsewhereOnPages, ElsewhereInSets, ElsewhereInReticles, Overrides, Places

\* Scenes with the same rows differ on the pages whose strobes, selections and widgets differ.
LEMMA ElsewhereByRows ==
  ASSUME NEW s, NEW t, NEW P, SameRows(s, t),
         t.active = s.active \/ {s.active, t.active} \subseteq P,
         \A p \in Pages \ P :
            /\ t.selected[p] = s.selected[p]
            /\ Released(t.widget[p]) = Released(s.widget[p])
            /\ \A v \in Strobes : t.strobe[<<p, v>>] = s.strobe[<<p, v>>]
  PROVE  Elsewhere(s, t, P)
  BY DEF SameRows, Elsewhere, ElsewhereOnPages, ElsewhereInSets, ElsewhereInReticles

Handled(s, t, P) == t \in Scenes /\ Coherent(t) /\ Elsewhere(s, t, P)

LEMMA InOrderAlike ==
  ASSUME NEW s, NEW t, InOrder(s), SameRows(s, t)
  PROVE  InOrder(t)
  BY DEF InOrder, SameRows

LEMMA TouchedAlike ==
  ASSUME NEW s, NEW t, TouchedWhereShown(s), t.widget = s.widget, t.active = s.active
  PROVE  TouchedWhereShown(t)
  BY DEF TouchedWhereShown

LEMMA ActivateHandled ==
  ASSUME NEW s \in Scenes, Coherent(s), NEW p \in Pages, NEW P, {p, s.active} \subseteq P
  PROVE  Handled(s, Activated(s, p), P)
  <1> DEFINE t == Activated(s, p)
  <1>1. /\ t \in Scenes /\ SameRows(s, t) /\ t.active = p /\ t.selected = s.selected
        /\ s.active = p => t.widget = s.widget
        /\ s.active # p => \A q \in Pages : t.widget[q] = Released(s.widget[q])
        /\ \A k \in Pages \X Strobes : k # Selected(s, p) => t.strobe[k] = s.strobe[k]
        /\ SitsOnLock(t)
    BY ActivatedIs
  <1> HIDE DEF t
  <1>2. \A q \in Pages : s.widget[q] \in Widget
    BY SceneFields
  <1>3. TouchedWhereShown(t)
    <2>1. CASE s.active = p
      BY <1>1, <2>1, TouchedAlike DEF Coherent
    <2>2. CASE s.active # p
      BY <1>1, <1>2, <2>2, ReleasedTyped DEF TouchedWhereShown
    <2> QED
      BY <2>1, <2>2
  <1>4. ASSUME NEW q \in Pages \ P
        PROVE  /\ Released(t.widget[q]) = Released(s.widget[q])
               /\ \A v \in Strobes : t.strobe[<<q, v>>] = s.strobe[<<q, v>>]
    <2>1. Released(t.widget[q]) = Released(s.widget[q])
      BY <1>1, <1>2, ReleasedTyped
    <2>2. q # p
      OBVIOUS
    <2>3. ASSUME NEW v \in Strobes PROVE t.strobe[<<q, v>>] = s.strobe[<<q, v>>]
      BY <1>1, <2>2, SelectedIs
    <2> QED
      BY <2>1, <2>3
  <1>5. Elsewhere(s, t, P)
    BY <1>1, <1>4, ElsewhereByRows
  <1>6. InOrder(t)
    BY <1>1, InOrderAlike DEF Coherent
  <1> QED
    BY <1>1, <1>3, <1>5, <1>6 DEF Handled, Coherent, t

LEMMA SetPageViewHandled ==
  ASSUME NEW s \in Scenes, Coherent(s), NEW c, c.page \in Pages, c.value \in Values,
         NEW P, c.page \in P, NEW t \in OnSetPageView(s, c)
  PROVE  Handled(s, t, P)
  <1>1. t = [s EXCEPT !.static[c.page] = c.value]
    BY DEF OnSetPageView
  <1>2. s.static \in [Pages -> Values]
    BY SceneFields
  <1>3. /\ t \in Scenes /\ t.active = s.active /\ t.hidden = s.hidden /\ t.magnetic = s.magnetic
        /\ t.dynamics = s.dynamics /\ t.creation = s.creation /\ t.selected = s.selected
        /\ t.strobe = s.strobe /\ t.widget = s.widget
        /\ t.static = [s.static EXCEPT ![c.page] = c.value]
    BY <1>1, <1>2 DEF Scenes
  <1>4. Coherent(t)
    BY <1>3, SitsAlike DEF Coherent, InOrder, TouchedWhereShown
  <1>5. Elsewhere(s, t, P)
    BY <1>2, <1>3 DEF Elsewhere, ElsewhereOnPages, ElsewhereInSets, ElsewhereInReticles
  <1> QED
    BY <1>3, <1>4, <1>5 DEF Handled

LEMMA UpdateWindowDisplayHandled ==
  ASSUME NEW s \in Scenes, Coherent(s), NEW c, c.value \in Values, NEW P,
         NEW t \in OnUpdateWindowDisplay(s, c)
  PROVE  Handled(s, t, P)
  <1>1. t = [s EXCEPT !.display = c.value]
    BY DEF OnUpdateWindowDisplay
  <1>2. /\ t \in Scenes /\ t.active = s.active /\ t.hidden = s.hidden /\ t.magnetic = s.magnetic
        /\ t.dynamics = s.dynamics /\ t.creation = s.creation /\ t.selected = s.selected
        /\ t.strobe = s.strobe /\ t.widget = s.widget /\ t.static = s.static
    BY <1>1 DEF Scenes
  <1>3. Coherent(t)
    BY <1>2, SitsAlike DEF Coherent, InOrder, TouchedWhereShown
  <1>4. Elsewhere(s, t, P)
    BY <1>2 DEF Elsewhere, ElsewhereOnPages, ElsewhereInSets, ElsewhereInReticles
  <1> QED
    BY <1>2, <1>3, <1>4 DEF Handled

LEMMA ElsewhereMore ==
  ASSUME NEW s, NEW t, NEW P, NEW Q, P \subseteq Q, Elsewhere(s, t, P)
  PROVE  Elsewhere(s, t, Q)
  <1>1. ElsewhereOnPages(s, t, Q)
    BY DEF Elsewhere, ElsewhereOnPages
  <1>2. ElsewhereInSets(s, t, Q)
    BY DEF Elsewhere, ElsewhereInSets
  <1>3. ElsewhereInReticles(s, t, Q)
    BY DEF Elsewhere, ElsewhereInReticles
  <1> QED
    BY <1>1, <1>2, <1>3 DEF Elsewhere

\* Changes on other pages do not concern the strobe of the active page.
LEMMA SitsElsewhere ==
  ASSUME NEW s \in Scenes, NEW t \in Scenes, SitsOnLock(s), NEW P, s.active \notin P,
         Elsewhere(s, t, P)
  PROVE  SitsOnLock(t)
  <1> DEFINE sel == Selected(s, s.active)
             lock == s.strobe[sel].lock
             target == <<s.active, lock>>
  <1>1. s.active \in Pages /\ t.active = s.active
    BY SceneFields DEF Elsewhere
  <1>2. Selected(t, t.active) = sel /\ t.strobe[sel] = s.strobe[sel]
    BY <1>1, SceneFields DEF Elsewhere, ElsewhereOnPages, Selected
  <1>3. ASSUME lock # NoReticle
        PROVE  Attracts(t, target) /\ t.dynamics[target] = s.dynamics[target]
    <2>1. Attracts(s, target)
      BY <1>3 DEF SitsOnLock
    <2>2. target \in DOMAIN s.dynamics /\ target \in Places
      BY <2>1, SceneFields, DynamicTyped DEF Attracts
    <2>3. target \in DOMAIN t.dynamics /\ t.dynamics[target] = s.dynamics[target]
      BY <2>2 DEF Elsewhere, ElsewhereInReticles
    <2> DEFINE o == <<s.active, s.dynamics[target].template>>
    <2>4. o \in s.magnetic /\ o \notin s.hidden /\ s.dynamics[target].visible
      BY <2>1 DEF Attracts
    <2>5. o \in Overrides
      BY <2>4, SceneFields
    <2> HIDE DEF o
    <2>6. o[1] = s.active
      BY DEF o
    <2>7. o \in t.magnetic /\ o \notin t.hidden
      BY <2>4, <2>5, <2>6 DEF Elsewhere, ElsewhereInSets
    <2> QED
      BY <1>1, <2>3, <2>4, <2>7 DEF Attracts, o
  <1>4. lock # NoReticle => s.strobe[sel].position = s.dynamics[target].position
    BY DEF SitsOnLock
  <1> HIDE DEF sel, target
  <1> QED
    BY <1>1, <1>2, <1>3, <1>4 DEF SitsOnLock, target

\* A change on one page that ends with a refresh of its strobe.
LEMMA RefreshHandled ==
  ASSUME NEW s \in Scenes, Coherent(s), NEW p \in Pages, NEW P, p \in P,
         NEW x \in Scenes, x.active = s.active, InOrder(x), TouchedWhereShown(x),
         Elsewhere(s, x, {p})
  PROVE  Handled(s, RefreshSticky(x, p), P)
  <1> DEFINE t == RefreshSticky(x, p)
  <1>1. /\ t \in Scenes /\ SameButStrobe(x, t)
        /\ \A k \in Pages \X Strobes : k # Selected(x, p) => t.strobe[k] = x.strobe[k]
        /\ p # x.active => t = x
        /\ p = x.active => SitsOnLock(t)
    BY RefreshIs
  <1> HIDE DEF t
  <1>2. SitsOnLock(t)
    <2>1. CASE p = x.active
      BY <1>1, <2>1
    <2>2. CASE p # x.active
      BY <1>1, <2>2, SitsElsewhere DEF Coherent
    <2> QED
      BY <2>1, <2>2
  <1>3. InOrder(t) /\ TouchedWhereShown(t)
    BY <1>1, InOrderAlike, TouchedAlike DEF SameButStrobe
  <1>4. ASSUME NEW q \in Pages \ P, NEW v \in Strobes PROVE t.strobe[<<q, v>>] = x.strobe[<<q, v>>]
    BY <1>1, SelectedIs
  <1>5. Elsewhere(x, t, P)
    BY <1>1, <1>4, ElsewhereByRows DEF SameButStrobe
  <1>6. Elsewhere(s, t, P)
    <2>1. Elsewhere(s, x, P)
      BY ElsewhereMore
    <2> QED
      BY <1>5, <2>1, ElsewhereTrans
  <1> QED
    BY <1>1, <1>2, <1>3, <1>6 DEF Handled, Coherent, t

LEMMA MarkedTyped ==
  ASSUME NEW set \in SUBSET Overrides, NEW k \in Overrides, NEW in
  PROVE  /\ Marked(set, k, in) \in SUBSET Overrides
         /\ \A o \in Overrides : o # k => (o \in Marked(set, k, in) <=> o \in set)
  BY DEF Marked

LEMMA SetVisibilityHandled ==
  ASSUME NEW s \in Scenes, Coherent(s), NEW c, c.page \in Pages, NEW P, c.page \in P,
         NEW t \in OnSetDynamicReticleSetVisibility(s, c)
  PROVE  Handled(s, t, P)
  <1> DEFINE k == <<c.page, c.template>>
             set == Marked(s.hidden, k, ~c.on)
             x == [s EXCEPT !.hidden = set]
  <1>1. c.template \in Bound[c.page] /\ t = RefreshSticky(x, c.page)
    BY DEF OnSetDynamicReticleSetVisibility
  <1>2. k \in Overrides /\ k[1] = c.page
    BY <1>1 DEF Overrides, Templates
  <1>3. set \in SUBSET Overrides /\ \A o \in Overrides : o # k => (o \in set <=> o \in s.hidden)
    BY <1>2, SceneFields, MarkedTyped
  <1> HIDE DEF set
  <1>4. /\ x \in Scenes /\ x.active = s.active /\ x.hidden = set /\ x.magnetic = s.magnetic
        /\ x.dynamics = s.dynamics /\ x.creation = s.creation /\ x.selected = s.selected
        /\ x.strobe = s.strobe /\ x.widget = s.widget /\ x.static = s.static
    BY <1>3 DEF Scenes
  <1> HIDE DEF x, k
  <1>5. InOrder(x) /\ TouchedWhereShown(x)
    BY <1>4 DEF Coherent, InOrder, TouchedWhereShown
  <1>6. Elsewhere(s, x, {c.page})
    BY <1>2, <1>3, <1>4 DEF Elsewhere, ElsewhereOnPages, ElsewhereInSets, ElsewhereInReticles
  <1> QED
    BY <1>1, <1>4, <1>5, <1>6, RefreshHandled

LEMMA SetMagnetHandled ==
  ASSUME NEW s \in Scenes, Coherent(s), NEW c, c.page \in Pages, NEW P, c.page \in P,
         NEW t \in OnSetDynamicReticleSetStrobeMagnetEnabled(s, c)
  PROVE  Handled(s, t, P)
  <1> DEFINE k == <<c.page, c.template>>
             set == Marked(s.magnetic, k, c.on)
             x == [s EXCEPT !.magnetic = set]
  <1>1. c.template \in Bound[c.page] /\ t = RefreshSticky(x, c.page)
    BY DEF OnSetDynamicReticleSetStrobeMagnetEnabled
  <1>2. k \in Overrides /\ k[1] = c.page
    BY <1>1 DEF Overrides, Templates
  <1>3. set \in SUBSET Overrides /\ \A o \in Overrides : o # k => (o \in set <=> o \in s.magnetic)
    BY <1>2, SceneFields, MarkedTyped
  <1> HIDE DEF set
  <1>4. /\ x \in Scenes /\ x.active = s.active /\ x.hidden = s.hidden /\ x.magnetic = set
        /\ x.dynamics = s.dynamics /\ x.creation = s.creation /\ x.selected = s.selected
        /\ x.strobe = s.strobe /\ x.widget = s.widget /\ x.static = s.static
    BY <1>3 DEF Scenes
  <1> HIDE DEF x, k
  <1>5. InOrder(x) /\ TouchedWhereShown(x)
    BY <1>4 DEF Coherent, InOrder, TouchedWhereShown
  <1>6. Elsewhere(s, x, {c.page})
    BY <1>2, <1>3, <1>4 DEF Elsewhere, ElsewhereOnPages, ElsewhereInSets, ElsewhereInReticles
  <1> QED
    BY <1>1, <1>4, <1>5, <1>6, RefreshHandled

\* The reticles of a scene change on one page.
LEMMA ReticlesHandled ==
  ASSUME NEW s \in Scenes, Coherent(s), NEW p \in Pages, NEW P, p \in P,
         NEW d \in DynamicMaps, NEW n \in Nat \ {0},
         \A k \in Places : k[1] # p =>
            /\ k \in DOMAIN d <=> k \in DOMAIN s.dynamics
            /\ k \in DOMAIN s.dynamics => d[k] = s.dynamics[k],
         \A k \in DOMAIN d : d[k].creation < n,
         \A j, k \in DOMAIN d : d[j].creation = d[k].creation => j = k
  PROVE  Handled(s, RefreshSticky([s EXCEPT !.dynamics = d, !.creation = n], p), P)
  <1> DEFINE x == [s EXCEPT !.dynamics = d, !.creation = n]
  <1>4. /\ x \in Scenes /\ x.active = s.active /\ x.hidden = s.hidden /\ x.magnetic = s.magnetic
        /\ x.dynamics = d /\ x.creation = n /\ x.selected = s.selected
        /\ x.strobe = s.strobe /\ x.widget = s.widget /\ x.static = s.static
    BY DEF Scenes
  <1> HIDE DEF x
  <1>5. InOrder(x) /\ TouchedWhereShown(x)
    BY <1>4 DEF Coherent, InOrder, TouchedWhereShown
  <1>6. Elsewhere(s, x, {p})
    BY <1>4 DEF Elsewhere, ElsewhereOnPages, ElsewhereInSets, ElsewhereInReticles
  <1>7. Handled(s, RefreshSticky(x, p), P)
    BY <1>4, <1>5, <1>6, RefreshHandled
  <1> QED
    BY <1>7 DEF x

LEMMA RemoveHandled ==
  ASSUME NEW s \in Scenes, Coherent(s), NEW c, c.page \in Pages, NEW P, c.page \in P,
         NEW t \in OnRemoveDynamicReticle(s, c)
  PROVE  Handled(s, t, P)
  <1> DEFINE k == <<c.page, c.reticle>>
             d == [i \in DOMAIN s.dynamics \ {k} |-> s.dynamics[i]]
  <1>1. t = RefreshSticky([s EXCEPT !.dynamics = d], c.page)
    BY DEF OnRemoveDynamicReticle
  <1>2. DOMAIN s.dynamics \subseteq Places /\ (\A i \in DOMAIN s.dynamics : s.dynamics[i] \in Dynamic)
        /\ s.creation \in Nat \ {0}
    BY SceneFields, DynamicTyped
  <1>3. DOMAIN d = DOMAIN s.dynamics \ {k} /\ \A i \in DOMAIN d : d[i] = s.dynamics[i]
    OBVIOUS
  <1>4. d \in DynamicMaps
    <2>1. d \in [DOMAIN s.dynamics \ {k} -> Dynamic]
      BY <1>2
    <2>2. DOMAIN s.dynamics \ {k} \in SUBSET Places
      BY <1>2
    <2> HIDE DEF d
    <2> QED
      BY <2>1, <2>2 DEF DynamicMaps
  <1>5. [s EXCEPT !.dynamics = d] = [s EXCEPT !.dynamics = d, !.creation = s.creation]
    BY DEF Scenes
  <1>6. k[1] = c.page
    OBVIOUS
  <1> HIDE DEF d, k
  <1>7. \A i \in Places : i[1] # c.page =>
            /\ i \in DOMAIN d <=> i \in DOMAIN s.dynamics
            /\ i \in DOMAIN s.dynamics => d[i] = s.dynamics[i]
    BY <1>3, <1>6
  <1>8. /\ \A i \in DOMAIN d : d[i].creation < s.creation
        /\ \A j, i \in DOMAIN d : d[j].creation = d[i].creation => j = i
    BY <1>3 DEF Coherent, InOrder
  <1>9. Handled(s, RefreshSticky([s EXCEPT !.dynamics = d, !.creation = s.creation], c.page), P)
    BY <1>2, <1>4, <1>7, <1>8, ReticlesHandled
  <1> QED
    BY <1>1, <1>5, <1>9

LEMMA OverIs ==
  ASSUME NEW f, NEW g
  PROVE  /\ DOMAIN Over(f, g) = DOMAIN f \cup DOMAIN g
         /\ \A k \in DOMAIN f : Over(f, g)[k] = f[k]
         /\ \A k \in DOMAIN g : k \notin DOMAIN f => Over(f, g)[k] = g[k]
         /\ Over(f, g) = [k \in DOMAIN Over(f, g) |-> Over(f, g)[k]]
  BY DEF Over

\* Maps of reticles put together are one.
LEMMA OverTyped ==
  ASSUME NEW f, NEW g \in DynamicMaps, DOMAIN f \subseteq Places, \A k \in DOMAIN f : f[k] \in Dynamic
  PROVE  Over(f, g) \in DynamicMaps
  <1> DEFINE d == Over(f, g)
  <1>0. /\ DOMAIN d = DOMAIN f \cup DOMAIN g
        /\ \A k \in DOMAIN f : d[k] = f[k]
        /\ \A k \in DOMAIN g : k \notin DOMAIN f => d[k] = g[k]
        /\ d = [k \in DOMAIN d |-> d[k]]
    BY OverIs
  <1> HIDE DEF d
  <1>1. DOMAIN d \in SUBSET Places /\ (\A k \in DOMAIN d : d[k] \in Dynamic)
        /\ d = [k \in DOMAIN d |-> d[k]]
    BY <1>0, DynamicTyped
  <1>2. d \in [DOMAIN d -> Dynamic]
    BY <1>1
  <1>3. d \in DynamicMaps
    BY <1>1, <1>2 DEF DynamicMaps
  <1> QED
    BY <1>3 DEF d

LEMMA UpsertHandled ==
  ASSUME NEW s \in Scenes, Coherent(s), NEW c, c.page \in Pages, WellFormed(c), c.kind = "upsert",
         NEW P, c.page \in P, NEW t \in OnUpsertDynamicReticle(s, c)
  PROVE  Handled(s, t, P)
  <1> DEFINE k == <<c.page, c.reticle>>
             known == k \in DOMAIN s.dynamics
             fresh == [template |-> c.template, position |-> 0, visible |-> TRUE, creation |-> s.creation]
             old == IF known THEN s.dynamics[k] ELSE fresh
             new == [old EXCEPT !.position = Or(c.position, @), !.visible = Or(c.visible, @)]
             one == [i \in {k} |-> new]
             d == Over(one, s.dynamics)
             n == IF known THEN s.creation ELSE s.creation + 1
  <1>1. c.template \in Bound[c.page] /\ t = RefreshSticky([s EXCEPT !.dynamics = d, !.creation = n], c.page)
    BY DEF OnUpsertDynamicReticle
  <1>2. DOMAIN s.dynamics \subseteq Places /\ (\A i \in DOMAIN s.dynamics : s.dynamics[i] \in Dynamic)
        /\ s.creation \in Nat \ {0}
    BY SceneFields, DynamicTyped
  <1>3. /\ c.reticle \in Reticles /\ c.position \in Positions \cup {Keep}
        /\ c.visible \in BOOLEAN \cup {Keep} /\ 0 \in Positions
    BY SceneAssumption DEF WellFormed
  <1>4. k \in Places /\ k[1] = c.page
    BY <1>3 DEF Places
  <1>5. fresh \in Dynamic
    BY <1>1, <1>2, <1>3 DEF Dynamic, Templates
  <1>6. old \in Dynamic /\ (~ known => old.creation = s.creation) /\ (known => old = s.dynamics[k])
    BY <1>2, <1>5
  <1> HIDE DEF old, fresh
  <1>7. new \in Dynamic /\ new.creation = old.creation
    BY <1>3, <1>6 DEF Dynamic, Or
  <1> HIDE DEF new
  <1>8. /\ DOMAIN d = DOMAIN s.dynamics \cup {k} /\ d[k] = new
        /\ \A i \in DOMAIN s.dynamics : i # k => d[i] = s.dynamics[i]
    <2>1. DOMAIN one = {k} /\ one[k] = new
      OBVIOUS
    <2> HIDE DEF one, k
    <2>2. /\ DOMAIN d = DOMAIN one \cup DOMAIN s.dynamics
          /\ \A i \in DOMAIN one : d[i] = one[i]
          /\ \A i \in DOMAIN s.dynamics : i \notin DOMAIN one => d[i] = s.dynamics[i]
      BY DEF Over
    <2> HIDE DEF d
    <2> QED
      BY <2>1, <2>2
  <1>9. d \in DynamicMaps
    <2>1. DOMAIN one \subseteq Places /\ \A i \in DOMAIN one : one[i] \in Dynamic
      BY <1>4, <1>7
    <2> HIDE DEF one
    <2> QED
      BY <2>1, SceneFields, OverTyped
  <1> HIDE DEF d, k
  <1>10. n \in Nat \ {0} /\ n >= s.creation /\ (known => n = s.creation) /\ (~ known => n = s.creation + 1)
    BY <1>2
  <1>11. /\ \A i \in DOMAIN s.dynamics : s.dynamics[i].creation < s.creation
         /\ \A i, j \in DOMAIN s.dynamics : s.dynamics[i].creation = s.dynamics[j].creation => i = j
         /\ \A i \in DOMAIN s.dynamics : s.dynamics[i].creation \in Nat
    BY <1>2 DEF Coherent, InOrder, Dynamic
  <1>12. \A i \in DOMAIN d : d[i].creation \in Nat /\ d[i].creation < n
    <2>1. ASSUME NEW i \in DOMAIN d PROVE d[i].creation \in Nat /\ d[i].creation < n
      <3>1. CASE i # k
        BY <1>2, <1>8, <1>10, <1>11, <3>1
      <3>2. CASE i = k
        BY <1>2, <1>6, <1>7, <1>8, <1>10, <1>11, <3>2
      <3> QED
        BY <3>1, <3>2
    <2> QED
      BY <2>1
  <1>13. ASSUME NEW i \in DOMAIN d, NEW j \in DOMAIN d, d[i].creation = d[j].creation
         PROVE  i = j
    <2>1. CASE known
      <3>1. \A m \in DOMAIN d : m \in DOMAIN s.dynamics /\ d[m].creation = s.dynamics[m].creation
        BY <1>6, <1>7, <1>8, <2>1
      <3> QED
        BY <1>11, <1>13, <3>1
    <2>2. CASE ~ known
      <3>1. d[k].creation = s.creation
        BY <1>6, <1>7, <1>8, <2>2
      <3>2. \A m \in DOMAIN d : m # k =>
                m \in DOMAIN s.dynamics /\ d[m].creation = s.dynamics[m].creation /\ d[m].creation # s.creation
        BY <1>2, <1>8, <1>11
      <3> QED
        BY <1>11, <1>13, <3>1, <3>2
    <2> QED
      BY <2>1, <2>2
  <1>14. \A i \in Places : i[1] # c.page =>
            /\ i \in DOMAIN d <=> i \in DOMAIN s.dynamics
            /\ i \in DOMAIN s.dynamics => d[i] = s.dynamics[i]
    BY <1>4, <1>8
  <1> HIDE DEF n
  <1> QED
    BY <1>1, <1>9, <1>10, <1>12, <1>13, <1>14, ReticlesHandled

\* A widget changes on one page.
LEMMA WidgetHandled ==
  ASSUME NEW s \in Scenes, Coherent(s), NEW c, c.page \in Pages, WellFormed(c), c.kind = "widget",
         NEW P, c.page \in P, NEW t \in OnUpdateWidget(s, c)
  PROVE  Handled(s, t, P)
  <1> DEFINE w == s.widget[c.page]
             waits == w.pending /\ c.request = Keep
             told == [w EXCEPT !.value = Or(c.value, @), !.available = Or(c.available, @),
                               !.pending = waits]
             new == IF told.available THEN told ELSE Released(told)
  <1>1. told.value \in Values /\ t = [s EXCEPT !.widget[c.page] = new]
    BY DEF OnUpdateWidget
  <1>2. w \in Widget /\ s.widget \in [Pages -> Widget]
    BY SceneFields
  <1>3. c.available \in BOOLEAN \cup {Keep}
    BY DEF WellFormed
  <1>4. told \in Widget /\ told.touched = w.touched /\ (told.pending => w.pending)
    <2>1. waits \in BOOLEAN /\ (waits => w.pending)
      OBVIOUS
    <2>2. Or(c.available, w.available) \in BOOLEAN
      BY <1>2, <1>3 DEF Or, Widget
    <2> HIDE DEF waits, w
    <2> DEFINE valued == [w EXCEPT !.value = Or(c.value, @)]
               shown == [valued EXCEPT !.available = Or(c.available, w.available)]
    <2>3. told = [shown EXCEPT !.pending = waits]
      BY <1>2 DEF Widget
    <2>4. valued.value = Or(c.value, w.value) /\ valued.touched = w.touched
      BY <1>2 DEF Widget
    <2>5. Or(c.value, w.value) \in Values => valued \in Widget
      BY <1>2 DEF Widget
    <2>6. /\ shown.value = valued.value /\ shown.touched = valued.touched
          /\ valued \in Widget => shown \in Widget
      <3> HIDE DEF valued
      <3> QED
        BY <2>2 DEF Widget
    <2>7. /\ told.value = shown.value /\ told.touched = shown.touched /\ told.pending = waits
          /\ shown \in Widget => told \in Widget
      <3> HIDE DEF shown, told
      <3> QED
        BY <2>1, <2>3 DEF Widget
    <2> HIDE DEF told, shown, valued
    <2> QED
      BY <1>1, <2>1, <2>4, <2>5, <2>6, <2>7
  <1> HIDE DEF told, w
  <1>5. new \in Widget /\ (new.touched => w.touched) /\ (new.pending => w.pending)
    BY <1>4, ReleasedTyped
  <1> HIDE DEF new
  <1>6. /\ t \in Scenes /\ t.active = s.active /\ t.hidden = s.hidden /\ t.magnetic = s.magnetic
        /\ t.dynamics = s.dynamics /\ t.creation = s.creation /\ t.selected = s.selected
        /\ t.strobe = s.strobe /\ t.static = s.static
        /\ t.widget = [s.widget EXCEPT ![c.page] = new]
    BY <1>1, <1>2, <1>5 DEF Scenes
  <1>7. TouchedWhereShown(t)
    BY <1>2, <1>5, <1>6 DEF Coherent, TouchedWhereShown, w
  <1>8. SitsOnLock(t) /\ InOrder(t)
    BY <1>6, SitsAlike DEF Coherent, InOrder
  <1>9. Elsewhere(s, t, P)
    BY <1>2, <1>6 DEF Elsewhere, ElsewhereOnPages, ElsewhereInSets, ElsewhereInReticles
  <1> QED
    BY <1>6, <1>7, <1>8, <1>9 DEF Handled, Coherent

\* The selected strobe of one page changes; on the active page it has to sit on its lock.
LEMMA StrobeHandled ==
  ASSUME NEW s \in Scenes, Coherent(s), NEW p \in Pages, NEW P, p \in P, NEW new \in Strobe,
         p = s.active /\ new.lock # NoReticle =>
            /\ Attracts(s, <<s.active, new.lock>>)
            /\ new.position = s.dynamics[<<s.active, new.lock>>].position
  PROVE  Handled(s, [s EXCEPT !.strobe[Selected(s, p)] = new], P)
  <1> DEFINE sel == Selected(s, p)
             t == [s EXCEPT !.strobe[sel] = new]
  <1>1. /\ t \in Scenes /\ SameButStrobe(s, t) /\ t.strobe = [s.strobe EXCEPT ![sel] = new]
        /\ sel \in Pages \X Strobes /\ sel = <<p, s.selected[p]>>
    BY SelectedIs, StrobeSet
  <1>2. s.strobe \in [Pages \X Strobes -> Strobe] /\ s.selected \in [Pages -> Strobes] /\ s.active \in Pages
    BY SceneFields
  <1> HIDE DEF t, sel
  <1>3. t.strobe[sel] = new /\ \A k \in Pages \X Strobes : k # sel => t.strobe[k] = s.strobe[k]
    BY <1>1, <1>2
  <1>4. SitsOnLock(t)
    <2>1. CASE p = s.active
      <3>1. Selected(t, t.active) = sel /\ t.active = s.active /\ t.dynamics = s.dynamics
        BY <1>1, <2>1 DEF Selected, SameButStrobe, SameRows
      <3>2. \A k : Attracts(t, k) <=> Attracts(s, k)
        BY <1>1, AttractsAlike DEF SameButStrobe, SameRows
      <3> QED
        BY <1>3, <2>1, <3>1, <3>2 DEF SitsOnLock
    <2>2. CASE p # s.active
      <3>1. Selected(s, s.active) \in Pages \X Strobes /\ Selected(s, s.active) # sel
        BY <1>1, <1>2, <2>2 DEF Selected
      <3> QED
        BY <1>1, <1>3, <3>1, SitsAlike DEF Coherent, SameButStrobe, SameRows
    <2> QED
      BY <2>1, <2>2
  <1>5. InOrder(t) /\ TouchedWhereShown(t)
    BY <1>1, InOrderAlike, TouchedAlike DEF SameButStrobe, Coherent
  <1>6. \A q \in Pages \ P : \A v \in Strobes : t.strobe[<<q, v>>] = s.strobe[<<q, v>>]
    BY <1>1, <1>3
  <1>7. Elsewhere(s, t, P)
    BY <1>1, <1>6, ElsewhereByRows DEF SameButStrobe
  <1> QED
    BY <1>1, <1>4, <1>5, <1>7 DEF Handled, Coherent, t, sel

LEMMA PlacedHandled ==
  ASSUME NEW s \in Scenes, Coherent(s), NEW p \in Pages, NEW P, p \in P,
         NEW y \in Positions, NEW lock \in Reticles \cup {NoReticle},
         lock # NoReticle =>
            Attracts(s, <<p, lock>>) /\ y = s.dynamics[<<p, lock>>].position
  PROVE  Handled(s, Placed(s, Selected(s, p), y, lock), P)
  <1> DEFINE sel == Selected(s, p)
             new == [s.strobe[sel] EXCEPT !.position = y, !.lock = lock]
  <1>1. sel \in Pages \X Strobes /\ s.strobe[sel] \in Strobe
    BY SelectedIs
  <1>2. Placed(s, sel, y, lock) = [s EXCEPT !.strobe[sel] = new]
    BY DEF Placed
  <1>3. new \in Strobe /\ new.position = y /\ new.lock = lock
    BY <1>1 DEF Strobe
  <1> HIDE DEF new
  <1>4. p = s.active /\ new.lock # NoReticle =>
            /\ Attracts(s, <<s.active, new.lock>>)
            /\ new.position = s.dynamics[<<s.active, new.lock>>].position
    BY <1>3
  <1>5. Handled(s, [s EXCEPT !.strobe[sel] = new], P)
    BY <1>3, <1>4, StrobeHandled
  <1> QED
    BY <1>2, <1>5

LEMMA MoveHandled ==
  ASSUME NEW s \in Scenes, Coherent(s), NEW p \in Pages, NEW P, p \in P, NEW x \in Positions,
         NEW t \in Moved(s, p, x)
  PROVE  Handled(s, t, P)
  <1>1. CASE Nearest(s, p, x) = {}
    BY <1>1, PlacedHandled DEF Moved
  <1>2. CASE Nearest(s, p, x) # {}
    <2>1. PICK k \in Nearest(s, p, x) : t = Placed(s, Selected(s, p), s.dynamics[k].position, k[2])
      BY <1>2 DEF Moved
    <2>2. k \in DOMAIN s.dynamics /\ k[1] = p /\ Attracts(s, k)
      BY <2>1 DEF Nearest
    <2>3. k \in Places /\ s.dynamics[k] \in Dynamic
      BY <2>2, SceneFields, DynamicTyped
    <2>4. k = <<p, k[2]>> /\ k[2] \in Reticles /\ s.dynamics[k].position \in Positions
      BY <2>2, <2>3 DEF Places, Dynamic
    <2> QED
      BY <2>1, <2>2, <2>4, PlacedHandled
  <1> QED
    BY <1>1, <1>2

LEMMA HandledTrans ==
  ASSUME NEW s, NEW t, NEW u, NEW P, Handled(s, t, P), Handled(t, u, P)
  PROVE  Handled(s, u, P)
  BY ElsewhereTrans DEF Handled

LEMMA SelectHandled ==
  ASSUME NEW s \in Scenes, Coherent(s), NEW p \in Pages, NEW P, p \in P, NEW v \in Strobes
  PROVE  Handled(s, WithStrobe(s, p, v), P)
  <1> DEFINE t == WithStrobe(s, p, v)
  <1>1. /\ t \in Scenes /\ SameRows(s, t) /\ t.active = s.active /\ t.widget = s.widget
        /\ t.selected = [s.selected EXCEPT ![p] = v]
        /\ \A k \in Pages \X Strobes : k # <<p, v>> => t.strobe[k] = s.strobe[k]
        /\ SitsOnLock(s) => SitsOnLock(t)
    BY WithStrobeIs
  <1> HIDE DEF t
  <1>2. s.selected \in [Pages -> Strobes]
    BY SceneFields
  <1>3. \A q \in Pages \ P : /\ t.selected[q] = s.selected[q]
                             /\ \A w \in Strobes : t.strobe[<<q, w>>] = s.strobe[<<q, w>>]
    BY <1>1, <1>2
  <1>4. Elsewhere(s, t, P)
    BY <1>1, <1>3, ElsewhereByRows
  <1>5. Coherent(t)
    BY <1>1, InOrderAlike, TouchedAlike DEF Coherent
  <1> QED
    BY <1>1, <1>4, <1>5 DEF Handled, t

LEMMA UpdateStrobeHandled ==
  ASSUME NEW s \in Scenes, Coherent(s), NEW c, c.page \in Pages, WellFormed(c), c.kind = "strobe",
         NEW P, c.page \in P, NEW t \in OnUpdateStrobe(s, c)
  PROVE  Handled(s, t, P)
  <1> DEFINE v == Or(c.strobe, s.selected[c.page])
             r == WithStrobe(s, c.page, v)
             sel == Selected(r, c.page)
             new == [r.strobe[sel] EXCEPT !.visible = Or(c.visible, @)]
             u == [r EXCEPT !.strobe[sel] = new]
  <1>1. c.strobe \in Strobes \cup {Keep} /\ t \in IF c.position = Keep THEN {u} ELSE Moved(u, c.page, c.position)
    BY DEF OnUpdateStrobe
  <1>2. v \in Strobes
    BY <1>1, SceneFields DEF Or
  <1> HIDE DEF v
  <1>3. Handled(s, r, P)
    BY <1>2, SelectHandled
  <1> HIDE DEF r
  <1>4. r \in Scenes /\ Coherent(r) /\ sel \in Pages \X Strobes /\ r.strobe[sel] \in Strobe
    BY <1>3, SelectedIs DEF Handled
  <1>5. c.visible \in BOOLEAN \cup {Keep} /\ c.position \in Positions \cup {Keep}
    BY DEF WellFormed
  <1>6. new \in Strobe /\ new.lock = r.strobe[sel].lock /\ new.position = r.strobe[sel].position
    <2>1. Or(c.visible, r.strobe[sel].visible) \in BOOLEAN
      BY <1>4, <1>5 DEF Or, Strobe
    <2> QED
      BY <1>4, <2>1 DEF Strobe
  <1>7. Handled(r, u, P)
    <2>1. c.page = r.active /\ new.lock # NoReticle =>
            /\ Attracts(r, <<r.active, new.lock>>)
            /\ new.position = r.dynamics[<<r.active, new.lock>>].position
      <3> HIDE DEF new
      <3> QED
        BY <1>4, <1>6 DEF Coherent, SitsOnLock
    <2> HIDE DEF new
    <2> QED
      BY <1>4, <1>6, <2>1, StrobeHandled
  <1>8. Handled(s, u, P)
    BY <1>3, <1>7, HandledTrans
  <1> HIDE DEF u
  <1>9. CASE c.position = Keep
    BY <1>1, <1>8, <1>9
  <1>10. CASE c.position # Keep
    <2>1. Handled(u, t, P)
      BY <1>1, <1>5, <1>8, <1>10, MoveHandled DEF Handled
    <2> QED
      BY <1>8, <2>1, HandledTrans
  <1> QED
    BY <1>9, <1>10

LEMMA LoadedTyped == Loaded \in Scenes
  <1>1. <<>> \in DynamicMaps
    <2>1. <<>> \in [{} -> Dynamic]
      OBVIOUS
    <2>2. {} \in SUBSET Places
      OBVIOUS
    <2> QED
      BY <2>1, <2>2 DEF DynamicMaps
  <1>2. /\ DefaultPage \in Pages /\ FirstStrobe \in Strobes /\ 0 \in Positions /\ 0 \in Values
        /\ MaxFeedback \in Nat \ {0}
    BY SceneAssumption
  <1>3. <<>> \in Feedbacks
    BY <1>2 DEF Feedbacks
  <1>4. [value |-> 0, available |-> TRUE, touched |-> FALSE, pending |-> FALSE, request |-> 0] \in Widget
    BY <1>2 DEF Widget
  <1>5. [position |-> 0, lock |-> NoReticle, visible |-> TRUE] \in Strobe
    BY <1>2 DEF Strobe
  <1> QED
    BY <1>1, <1>2, <1>3, <1>4, <1>5 DEF Loaded, Scenes

LEMMA LoadedCoherent == Coherent(Loaded)
  <1>1. Selected(Loaded, Loaded.active) \in Pages \X Strobes
    BY LoadedTyped, SceneFields, SelectedIs
  <1>2. Loaded.strobe[Selected(Loaded, Loaded.active)].lock = NoReticle
    BY <1>1 DEF Loaded
  <1>3. DOMAIN Loaded.dynamics = {}
    BY DEF Loaded
  <1>4. TouchedWhereShown(Loaded)
    BY DEF TouchedWhereShown, Loaded
  <1> QED
    BY <1>2, <1>3, <1>4 DEF Coherent, SitsOnLock, InOrder

LEMMA DispatchHandled ==
  ASSUME NEW s \in Scenes, Coherent(s), NEW c, WellFormed(c), NEW P,
         c.kind \notin {"display", "reset"} /\ c.page \in Pages => c.page \in P,
         c.kind = "page" => s.active \in P,
         c.kind = "reset" => P = Pages,
         NEW t \in Dispatch(s, c)
  PROVE  Handled(s, t, P)
  <1>1. OnKnownPage(c)
    BY DEF Dispatch
  <1>2. CASE c.kind = "display"
    BY <1>1, <1>2, UpdateWindowDisplayHandled DEF Dispatch, WellFormed
  <1>3. CASE c.kind = "reset"
    <2>1. t = Loaded
      BY <1>1, <1>3 DEF Dispatch, OnResetWindow
    <2> QED
      BY <1>3, <2>1, LoadedTyped, LoadedCoherent, ElsewhereNowhere DEF Handled
  <1>4. CASE c.kind \notin {"display", "reset"}
    <2>1. c.page \in Pages /\ c.page \in P
      BY <1>1, <1>4 DEF OnKnownPage
    <2>2. CASE c.kind = "page"
      BY <1>1, <2>1, <2>2, ActivateHandled DEF Dispatch, OnActivatePage
    <2>3. CASE c.kind = "view"
      BY <1>1, <2>1, <2>3, SetPageViewHandled DEF Dispatch, WellFormed
    <2>4. CASE c.kind = "strobe"
      BY <1>1, <2>1, <2>4, UpdateStrobeHandled DEF Dispatch
    <2>5. CASE c.kind = "upsert"
      BY <1>1, <2>1, <2>5, UpsertHandled DEF Dispatch
    <2>6. CASE c.kind = "remove"
      BY <1>1, <2>1, <2>6, RemoveHandled DEF Dispatch
    <2>7. CASE c.kind = "visibility"
      BY <1>1, <2>1, <2>7, SetVisibilityHandled DEF Dispatch
    <2>8. CASE c.kind = "magnet"
      BY <1>1, <2>1, <2>8, SetMagnetHandled DEF Dispatch
    <2>9. CASE c.kind = "widget"
      BY <1>1, <2>1, <2>9, WidgetHandled DEF Dispatch
    <2> QED
      BY <1>4, <2>2, <2>3, <2>4, <2>5, <2>6, <2>7, <2>8, <2>9 DEF WellFormed, Fields
  <1> QED
    BY <1>2, <1>3, <1>4

-----------------------------------------------------------------------------
(* The overrides. *)

\* A command adds no override but the one it names.
GrownBy(s, t, hides, gives) ==
    /\ DOMAIN t = DOMAIN s
    /\ t.hidden \subseteq s.hidden \cup hides
    /\ t.magnetic \subseteq s.magnetic \cup gives
HasSets(s) == {"hidden", "magnetic"} \subseteq DOMAIN s

LEMMA StrobeKeepsSets ==
  ASSUME NEW s, HasSets(s), NEW strobe
  PROVE  GrownBy(s, [s EXCEPT !.strobe = strobe], {}, {})
  BY DEF GrownBy, HasSets

LEMMA RefreshKeepsSets ==
  ASSUME NEW s, HasSets(s), NEW p
  PROVE  GrownBy(s, RefreshSticky(s, p), {}, {})
  <1>1. GrownBy(s, s, {}, {})
    BY DEF GrownBy
  <1>2. RefreshSticky(s, p) = s \/ \E strobe : RefreshSticky(s, p) = [s EXCEPT !.strobe = strobe]
    <2> DEFINE sel == Selected(s, p)
               target == <<p, s.strobe[sel].lock>>
               followed == [s.strobe EXCEPT ![sel].position = s.dynamics[target].position]
               free == [s.strobe EXCEPT ![sel].lock = NoReticle]
    <2>1. RefreshSticky(s, p) \in {s, [s EXCEPT !.strobe = followed], [s EXCEPT !.strobe = free]}
      BY DEF RefreshSticky
    <2> HIDE DEF followed, free
    <2> QED
      BY <2>1
  <1> QED
    BY <1>1, <1>2, StrobeKeepsSets

LEMMA GrownTwice ==
  ASSUME NEW s, NEW t, NEW u, NEW hides, NEW gives,
         \/ GrownBy(s, t, hides, gives) /\ GrownBy(t, u, {}, {})
         \/ GrownBy(s, t, {}, {}) /\ GrownBy(t, u, hides, gives)
  PROVE  GrownBy(s, u, hides, gives)
  BY DEF GrownBy

LEMMA MovedKeepsSets ==
  ASSUME NEW s, HasSets(s), NEW p, NEW x, NEW t \in Moved(s, p, x)
  PROVE  GrownBy(s, t, {}, {})
  <1>1. \E y, lock : t = Placed(s, Selected(s, p), y, lock)
    <2>1. CASE Nearest(s, p, x) = {}
      BY <2>1 DEF Moved
    <2>2. CASE Nearest(s, p, x) # {}
      <3>1. PICK k \in Nearest(s, p, x) : t = Placed(s, Selected(s, p), s.dynamics[k].position, k[2])
        BY <2>2 DEF Moved
      <3> QED
        BY <3>1
    <2> QED
      BY <2>1, <2>2
  <1>2. PICK y, lock : t = Placed(s, Selected(s, p), y, lock)
    BY <1>1
  <1> DEFINE sel == Selected(s, p)
             strobe == [s.strobe EXCEPT ![sel] = [s.strobe[sel] EXCEPT !.position = y, !.lock = lock]]
  <1>3. t = [s EXCEPT !.strobe = strobe]
    BY <1>2 DEF Placed
  <1> HIDE DEF strobe
  <1> QED
    BY <1>3, StrobeKeepsSets

Hides(c) == IF c.kind = "visibility" /\ ~c.on THEN {<<c.page, c.template>>} ELSE {}
Gives(c) == IF c.kind = "magnet" /\ c.on THEN {<<c.page, c.template>>} ELSE {}

LEMMA RowsKeepSets ==
  ASSUME NEW s \in Scenes, NEW t \in Scenes, SameRows(s, t)
  PROVE  GrownBy(s, t, {}, {})
  BY DEF GrownBy, SameRows, Scenes

LEMMA UpdateStrobeKeepsSets ==
  ASSUME NEW s \in Scenes, NEW c, c.page \in Pages, NEW t \in OnUpdateStrobe(s, c)
  PROVE  GrownBy(s, t, {}, {})
  <1> DEFINE v == Or(c.strobe, s.selected[c.page])
             r == WithStrobe(s, c.page, v)
             sel == Selected(r, c.page)
             strobe == [r.strobe EXCEPT ![sel].visible = Or(c.visible, @)]
             u == [r EXCEPT !.strobe = strobe]
  <1>1. c.strobe \in Strobes \cup {Keep} /\ t \in IF c.position = Keep THEN {u} ELSE Moved(u, c.page, c.position)
    BY DEF OnUpdateStrobe
  <1>2. v \in Strobes
    BY <1>1, SceneFields DEF Or
  <1> HIDE DEF v
  <1>3. r \in Scenes /\ SameRows(s, r)
    BY <1>2, WithStrobeIs
  <1> HIDE DEF r, strobe
  <1>4. GrownBy(s, r, {}, {}) /\ HasSets(r)
    BY <1>3, RowsKeepSets DEF HasSets, Scenes
  <1>5. GrownBy(r, u, {}, {})
    BY <1>4, StrobeKeepsSets
  <1>6. HasSets(u)
    BY <1>4, <1>5 DEF HasSets, GrownBy
  <1> HIDE DEF u
  <1>7. t = u \/ GrownBy(u, t, {}, {})
    BY <1>1, <1>6, MovedKeepsSets
  <1> QED
    BY <1>4, <1>5, <1>7, GrownTwice

LEMMA DispatchGrows ==
  ASSUME NEW s \in Scenes, NEW c, WellFormed(c), NEW t \in Dispatch(s, c)
  PROVE  GrownBy(s, t, Hides(c), Gives(c))
  <1>1. OnKnownPage(c) /\ HasSets(s)
    BY DEF Dispatch, HasSets, Scenes
  <1>2. ASSUME GrownBy(s, t, {}, {}) PROVE GrownBy(s, t, Hides(c), Gives(c))
    BY <1>2 DEF GrownBy
  <1>3. ASSUME NEW x, NEW p, t = RefreshSticky(x, p), GrownBy(s, x, Hides(c), Gives(c))
        PROVE  GrownBy(s, t, Hides(c), Gives(c))
    <2>1. HasSets(x)
      BY <1>1, <1>3 DEF GrownBy, HasSets
    <2> QED
      BY <1>3, <2>1, RefreshKeepsSets, GrownTwice
  <1>4. CASE c.kind = "display"
    <2>1. t = [s EXCEPT !.display = c.value]
      BY <1>1, <1>4 DEF Dispatch, OnUpdateWindowDisplay
    <2> QED
      BY <1>1, <1>2, <2>1 DEF GrownBy, HasSets
  <1>5. CASE c.kind = "reset"
    <2>1. t = Loaded
      BY <1>1, <1>5 DEF Dispatch, OnResetWindow
    <2>2. DOMAIN Loaded = DOMAIN s
      BY LoadedTyped DEF Scenes
    <2>3. Loaded.hidden = {} /\ Loaded.magnetic = {}
      BY DEF Loaded
    <2> QED
      BY <2>1, <2>2, <2>3 DEF GrownBy
  <1>6. CASE c.kind \notin {"display", "reset"}
    <2>1. c.page \in Pages
      BY <1>1, <1>6 DEF OnKnownPage
    <2>2. CASE c.kind = "page"
      <3>1. t = Activated(s, c.page)
        BY <1>1, <2>2 DEF Dispatch, OnActivatePage
      <3>2. t \in Scenes /\ SameRows(s, t)
        BY <2>1, <3>1, ActivatedIs
      <3> QED
        BY <1>2, <3>2, RowsKeepSets
    <2>3. CASE c.kind = "view"
      <3>1. t = [s EXCEPT !.static[c.page] = c.value]
        BY <1>1, <2>3 DEF Dispatch, OnSetPageView
      <3> QED
        BY <1>1, <1>2, <3>1 DEF GrownBy, HasSets
    <2>4. CASE c.kind = "strobe"
      BY <1>1, <1>2, <2>1, <2>4, UpdateStrobeKeepsSets DEF Dispatch
    <2>5. CASE c.kind = "upsert"
      <3>1. t \in OnUpsertDynamicReticle(s, c)
        BY <1>1, <2>5 DEF Dispatch
      <3>2. \E d, n : t = RefreshSticky([s EXCEPT !.dynamics = d, !.creation = n], c.page)
        BY <3>1 DEF OnUpsertDynamicReticle
      <3>3. PICK d, n : t = RefreshSticky([s EXCEPT !.dynamics = d, !.creation = n], c.page)
        BY <3>2
      <3>4. GrownBy(s, [s EXCEPT !.dynamics = d, !.creation = n], Hides(c), Gives(c))
        BY <1>1 DEF GrownBy, HasSets
      <3> QED
        BY <1>3, <3>3, <3>4
    <2>6. CASE c.kind = "remove"
      <3>1. t \in OnRemoveDynamicReticle(s, c)
        BY <1>1, <2>6 DEF Dispatch
      <3>2. \E d : t = RefreshSticky([s EXCEPT !.dynamics = d], c.page)
        BY <3>1 DEF OnRemoveDynamicReticle
      <3>3. PICK d : t = RefreshSticky([s EXCEPT !.dynamics = d], c.page)
        BY <3>2
      <3>4. GrownBy(s, [s EXCEPT !.dynamics = d], Hides(c), Gives(c))
        BY <1>1 DEF GrownBy, HasSets
      <3> QED
        BY <1>3, <3>3, <3>4
    <2>7. CASE c.kind = "visibility"
      <3> DEFINE set == Marked(s.hidden, <<c.page, c.template>>, ~c.on)
      <3>1. t = RefreshSticky([s EXCEPT !.hidden = set], c.page)
        BY <1>1, <2>7 DEF Dispatch, OnSetDynamicReticleSetVisibility
      <3>2. set \subseteq s.hidden \cup Hides(c)
        BY <2>7 DEF Marked, Hides
      <3> HIDE DEF set
      <3>3. GrownBy(s, [s EXCEPT !.hidden = set], Hides(c), Gives(c))
        BY <1>1, <3>2 DEF GrownBy, HasSets
      <3> QED
        BY <1>3, <3>1, <3>3
    <2>8. CASE c.kind = "magnet"
      <3> DEFINE set == Marked(s.magnetic, <<c.page, c.template>>, c.on)
      <3>1. t = RefreshSticky([s EXCEPT !.magnetic = set], c.page)
        BY <1>1, <2>8 DEF Dispatch, OnSetDynamicReticleSetStrobeMagnetEnabled
      <3>2. set \subseteq s.magnetic \cup Gives(c)
        BY <2>8 DEF Marked, Gives
      <3> HIDE DEF set
      <3>3. GrownBy(s, [s EXCEPT !.magnetic = set], Hides(c), Gives(c))
        BY <1>1, <3>2 DEF GrownBy, HasSets
      <3> QED
        BY <1>3, <3>1, <3>3
    <2>9. CASE c.kind = "widget"
      <3>1. t \in OnUpdateWidget(s, c)
        BY <1>1, <2>9 DEF Dispatch
      <3>2. \E w : t = [s EXCEPT !.widget[c.page] = w]
        BY <3>1 DEF OnUpdateWidget
      <3> QED
        BY <1>1, <1>2, <3>2 DEF GrownBy, HasSets
    <2> QED
      BY <1>6, <2>2, <2>3, <2>4, <2>5, <2>6, <2>7, <2>8, <2>9 DEF WellFormed, Fields
  <1> QED
    BY <1>4, <1>5, <1>6

-----------------------------------------------------------------------------
(* A batch of commands. *)

\* The pages a batch is expected to touch, of the scene it starts from.
Footprint(s, commands) == IF TouchesWholeScene(commands) THEN Pages ELSE TouchedPages(s, commands)

LEMMA FootprintCovers ==
  ASSUME NEW s \in Scenes, NEW commands, NEW i \in DOMAIN commands, NEW c, c = commands[i],
         NEW t \in Scenes, Elsewhere(s, t, Footprint(s, commands))
  PROVE  LET P == Footprint(s, commands)
         IN /\ c.kind \notin {"display", "reset"} /\ c.page \in Pages => c.page \in P
            /\ c.kind = "page" => t.active \in P
            /\ c.kind = "reset" => P = Pages
  <1>1. c.kind \in Kinds(commands)
    BY DEF Kinds
  <1>2. CASE TouchesWholeScene(commands)
    BY <1>2, SceneFields DEF Footprint
  <1>3. CASE ~ TouchesWholeScene(commands)
    <2>1. Footprint(s, commands) = TouchedPages(s, commands) /\ c.kind # "reset"
      BY <1>1, <1>3 DEF Footprint, TouchesWholeScene
    <2>2. ASSUME c.kind \notin {"display", "reset"}, c.page \in Pages
          PROVE  c.page \in TouchedPages(s, commands)
      BY <2>2 DEF TouchedPages
    <2>3. ASSUME c.kind = "page"
          PROVE  t.active \in TouchedPages(s, commands)
      <3>1. s.active \in TouchedPages(s, commands)
        BY <1>1, <2>3, SceneFields DEF TouchedPages
      <3> QED
        BY <2>1, <3>1 DEF Elsewhere
    <2> QED
      BY <2>1, <2>2, <2>3
  <1> QED
    BY <1>2, <1>3

\* The recursive function by which Outcomes is defined.
Following(g, s, commands) ==
    g = [n \in 0 .. Len(commands) |->
            IF n = 0 THEN {[scene |-> s, ok |-> TRUE]} ELSE Step(g[n - 1], commands[n])]

LEMMA FollowingExists ==
  ASSUME NEW s, NEW commands, Len(commands) \in Nat
  PROVE  \E g : Following(g, s, commands)
  <1> DEFINE last == Len(commands)
             At(g, n) == IF n = 0 THEN {[scene |-> s, ok |-> TRUE]} ELSE Step(g[n - 1], commands[n])
             UpTo(g, m) == g = [n \in 0 .. last |-> g[n]] /\ \A n \in 0 .. last : n < m => g[n] = At(g, n)
             Missing == {m \in Nat : ~ \E g : UpTo(g, m)}
  <1>1. Missing = {}
    <2>1. SUFFICES ASSUME Missing # {} PROVE FALSE
      OBVIOUS
    <2>2. PICK m \in Missing : \A k \in Missing : m <= k
      BY <2>1, LeastNatural
    <2>3. CASE m = 0
      <3> DEFINE none == [n \in 0 .. last |-> 0]
      <3>1. none = [n \in 0 .. last |-> none[n]] /\ \A n \in 0 .. last : ~ (n < 0)
        OBVIOUS
      <3> HIDE DEF none, At
      <3>2. UpTo(none, 0)
        BY <3>1
      <3> QED
        BY <2>2, <2>3, <3>2
    <2>4. CASE m # 0
      <3>1. m - 1 \in Nat /\ m - 1 \notin Missing
        <4>1. m \in Nat /\ m - 1 \in Nat
          BY <2>4
        <4> HIDE DEF Missing
        <4> QED
          BY <2>2, <4>1
      <3>2. PICK g : UpTo(g, m - 1)
        BY <3>1
      <3> DEFINE h == [n \in 0 .. last |-> IF n = m - 1 THEN At(g, n) ELSE g[n]]
      <3>3. ASSUME NEW n \in 0 .. last, n < m PROVE h[n] = At(h, n)
        <4>1. h[n] = At(g, n)
          <5>1. CASE n = m - 1
            BY <5>1
          <5>2. CASE n # m - 1
            <6>1. h[n] = g[n] /\ n < m - 1
              BY <3>3, <5>2
            <6> HIDE DEF At, h
            <6> QED
              BY <3>2, <6>1
          <5> QED
            BY <5>1, <5>2
        <4>2. ASSUME n # 0 PROVE h[n - 1] = g[n - 1]
          BY <3>3, <4>2
        <4> HIDE DEF h
        <4> QED
          BY <4>1, <4>2
      <3>4. UpTo(h, m)
        <4>1. h = [n \in 0 .. last |-> h[n]]
          OBVIOUS
        <4> HIDE DEF h, At
        <4> QED
          BY <3>3, <4>1
      <3> QED
        BY <2>2, <3>4
    <2> QED
      BY <2>3, <2>4
  <1>2. PICK g : UpTo(g, last + 1)
    <2>1. last + 1 \in Nat
      OBVIOUS
    <2> HIDE DEF UpTo
    <2> QED
      BY <1>1, <2>1
  <1>3. g = [n \in 0 .. last |-> At(g, n)]
    <2> HIDE DEF At
    <2>1. g = [n \in 0 .. last |-> g[n]] /\ \A n \in 0 .. last : g[n] = At(g, n)
      BY <1>2
    <2>2. [n \in 0 .. last |-> g[n]] = [n \in 0 .. last |-> At(g, n)]
      BY <2>1
    <2> QED
      BY <2>1, <2>2
  <1> QED
    BY <1>3 DEF Following

\* What holds of the first scene, and of a scene after a command if it held before it, holds
\* of every outcome.
LEMMA OutcomesStay ==
  ASSUME NEW s, NEW commands, Len(commands) \in Nat, NEW G,
         [scene |-> s, ok |-> TRUE] \in G,
         \A O \in SUBSET G : \A i \in 1 .. Len(commands) : Step(O, commands[i]) \subseteq G
  PROVE  Outcomes(s, commands) \subseteq G
  <1> DEFINE last == Len(commands)
             it == CHOOSE g : Following(g, s, commands)
             Wrong == {n \in Nat : n <= last /\ ~ (it[n] \subseteq G)}
  <1>1. Following(it, s, commands)
    BY FollowingExists
  <1>2. Outcomes(s, commands) = it[last]
    BY DEF Outcomes, Following
  <1> HIDE DEF it
  <1>3. \A n \in 0 .. last : it[n] = IF n = 0 THEN {[scene |-> s, ok |-> TRUE]} ELSE Step(it[n - 1], commands[n])
    BY <1>1 DEF Following
  <1>4. Wrong = {}
    <2>1. SUFFICES ASSUME Wrong # {} PROVE FALSE
      OBVIOUS
    <2>2. PICK n \in Wrong : \A k \in Wrong : n <= k
      BY <2>1, LeastNatural
    <2>3. n \in Nat /\ n <= last /\ ~ (it[n] \subseteq G)
      BY <2>2
    <2>4. n # 0
      <3>1. it[0] = {[scene |-> s, ok |-> TRUE]}
        BY <1>3
      <3>2. it[0] \subseteq G
        BY <3>1
      <3> QED
        BY <2>3, <3>2
    <2>5. n - 1 \in Nat /\ n - 1 <= last /\ n \in 1 .. last /\ n \in 0 .. last
      BY <2>3, <2>4
    <2>6. it[n - 1] \subseteq G
      BY <2>2, <2>5
    <2>7. it[n] = Step(it[n - 1], commands[n])
      BY <1>3, <2>4, <2>5
    <2> QED
      BY <2>3, <2>5, <2>6, <2>7
  <1>5. last \in Nat /\ last <= last
    OBVIOUS
  <1> HIDE DEF last
  <1> QED
    BY <1>2, <1>4, <1>5

-----------------------------------------------------------------------------
(* Rolling back. *)

\* A scene with no dynamic reticle on the pages P, and pressed only where it is shown elsewhere.
Cleared(n, P) ==
    /\ \A k \in DOMAIN n.dynamics : k[1] \notin P
    /\ \A p \in Pages \ P : n.widget[p].touched \/ n.widget[p].pending => p = n.active

LEMMA LoadedCleared == Cleared(Loaded, Pages)
  BY DEF Cleared, Loaded

LEMMA OfPagesIs ==
  ASSUME NEW d \in DynamicMaps, NEW Q
  PROVE  /\ OfPages(d, Q) \in DynamicMaps
         /\ DOMAIN OfPages(d, Q) = {k \in DOMAIN d : k[1] \in Q}
         /\ \A k \in DOMAIN OfPages(d, Q) : OfPages(d, Q)[k] = d[k]
  <1> DEFINE K == {k \in DOMAIN d : k[1] \in Q}
             e == [k \in K |-> d[k]]
  <1>1. OfPages(d, Q) = e
    BY DEF OfPages
  <1>2. K \in SUBSET Places /\ \A k \in K : d[k] \in Dynamic
    BY DynamicTyped
  <1>3. e \in DynamicMaps
    <2>1. e \in [K -> Dynamic]
      BY <1>2
    <2> HIDE DEF e, K
    <2> QED
      BY <1>2, <2>1 DEF DynamicMaps
  <1>4. DOMAIN e = K /\ \A k \in K : e[k] = d[k]
    OBVIOUS
  <1> HIDE DEF e
  <1> QED
    BY <1>1, <1>3, <1>4

LEMMA NeutralIs ==
  ASSUME NEW s \in Scenes, Coherent(s), NEW P \in SUBSET Pages
  PROVE  LET n == Neutral(s, P)
         IN /\ n \in Scenes /\ Elsewhere(s, n, P) /\ Cleared(n, P)
            /\ n.hidden = s.hidden /\ n.magnetic = s.magnetic
  <1> DEFINE d == OfPages(s.dynamics, Pages \ P)
             cleared == [s EXCEPT !.dynamics = d]
             m == IF s.active \in P THEN RefreshSticky(cleared, s.active) ELSE cleared
             wid == [p \in Pages |-> IF p \in P THEN Loaded.widget[p] ELSE s.widget[p]]
             n == [m EXCEPT !.widget = wid]
  <1>1. d \in DynamicMaps /\ DOMAIN d = {k \in DOMAIN s.dynamics : k[1] \in Pages \ P}
        /\ \A k \in DOMAIN d : d[k] = s.dynamics[k]
    BY SceneFields, OfPagesIs
  <1>3. wid \in [Pages -> Widget] /\ \A p \in Pages \ P : wid[p] = s.widget[p]
    BY SceneFields, LoadedTyped DEF Scenes
  <1> HIDE DEF d
  <1>4. cleared \in Scenes /\ cleared.active = s.active /\ cleared.dynamics = d
        /\ cleared.strobe = s.strobe /\ cleared.selected = s.selected /\ cleared.static = s.static
        /\ cleared.hidden = s.hidden /\ cleared.magnetic = s.magnetic /\ cleared.widget = s.widget
    BY <1>1 DEF Scenes
  <1>5. s.active \in Pages
    BY SceneFields
  <1> HIDE DEF cleared
  <1>6. /\ m \in Scenes /\ m.active = s.active /\ m.dynamics = d /\ m.selected = s.selected
        /\ m.static = s.static /\ m.hidden = s.hidden /\ m.magnetic = s.magnetic /\ m.widget = s.widget
        /\ \A k \in Pages \X Strobes : k[1] \notin P => m.strobe[k] = s.strobe[k]
    <2>1. CASE s.active \in P
      <3> DEFINE r == RefreshSticky(cleared, s.active)
      <3>1. /\ r \in Scenes /\ SameButStrobe(cleared, r)
            /\ \A k \in Pages \X Strobes : k # Selected(cleared, s.active) => r.strobe[k] = s.strobe[k]
        BY <1>4, <1>5, RefreshIs
      <3>2. m = r
        BY <2>1
      <3> HIDE DEF m, r
      <3>3. Selected(cleared, s.active)[1] \in P
        BY <2>1 DEF Selected
      <3> QED
        BY <1>4, <3>1, <3>2, <3>3 DEF SameButStrobe, SameRows
    <2>2. CASE s.active \notin P
      BY <1>4, <2>2
    <2> QED
      BY <2>1, <2>2
  <1>7. Neutral(s, P) = n
    <2>1. Neutral(s, P) = [m EXCEPT !.widget = [p \in Pages |-> IF p \in P THEN Loaded.widget[p] ELSE m.widget[p]]]
      BY DEF Neutral, cleared, d
    <2> HIDE DEF m
    <2> QED
      BY <1>6, <2>1
  <1> HIDE DEF m, wid
  <1>8. /\ n \in Scenes /\ n.active = s.active /\ n.dynamics = d /\ n.selected = s.selected
        /\ n.static = s.static /\ n.hidden = s.hidden /\ n.magnetic = s.magnetic /\ n.widget = wid
        /\ \A k \in Pages \X Strobes : k[1] \notin P => n.strobe[k] = s.strobe[k]
    BY <1>3, <1>6 DEF Scenes
  <1> HIDE DEF n
  <1>9. ElsewhereOnPages(s, n, P)
    BY <1>3, <1>8 DEF ElsewhereOnPages
  <1>10. ElsewhereInSets(s, n, P)
    BY <1>8 DEF ElsewhereInSets
  <1>11. ElsewhereInReticles(s, n, P)
    BY <1>1, <1>8 DEF ElsewhereInReticles, Places
  <1>12. Cleared(n, P)
    BY <1>1, <1>3, <1>8 DEF Cleared, Coherent, TouchedWhereShown
  <1> QED
    BY <1>7, <1>8, <1>9, <1>10, <1>11, <1>12 DEF Elsewhere

\* The overrides of old are all there again, next to those the pages P still had.
Widened(after, between, before, P) ==
    after = between \cup SetsOf(before, P) /\ before \subseteq after /\ after \subseteq Overrides

LEMMA WithRowsIs ==
  ASSUME NEW n \in Scenes, NEW old \in Scenes, NEW P \in SUBSET Pages,
         Elsewhere(old, n, P), Cleared(n, P)
  PROVE  LET u == WithRows(n, old, P)
         IN /\ u \in Scenes /\ u.active = n.active /\ u.selected = n.selected
            /\ u.display = old.display /\ u.static = old.static
            /\ Widened(u.hidden, n.hidden, old.hidden, P)
            /\ Widened(u.magnetic, n.magnetic, old.magnetic, P)
            /\ u.dynamics = old.dynamics /\ u.strobe = old.strobe
            /\ \A p \in Pages : u.widget[p] = IF p \in P THEN old.widget[p] ELSE n.widget[p]
  <1> DEFINE sta == [p \in Pages |-> IF p \in P THEN old.static[p] ELSE n.static[p]]
             hid == n.hidden \cup SetsOf(old.hidden, P)
             mag == n.magnetic \cup SetsOf(old.magnetic, P)
             wid == [p \in Pages |-> IF p \in P THEN old.widget[p] ELSE n.widget[p]]
             part == OfPages(old.dynamics, P)
             dyn == Over(part, n.dynamics)
             str == [k \in Pages \X Strobes |-> IF k[1] \in P THEN old.strobe[k] ELSE n.strobe[k]]
             u == [n EXCEPT !.display = old.display, !.static = sta, !.hidden = hid, !.magnetic = mag,
                            !.widget = wid, !.dynamics = dyn, !.strobe = str]
  <1>1. WithRows(n, old, P) = u
    BY DEF WithRows
  <1>2. sta = old.static
    <2>1. \A p \in Pages : sta[p] = old.static[p]
      BY DEF Elsewhere, ElsewhereOnPages
    <2>2. DOMAIN sta = Pages /\ sta = [p \in Pages |-> sta[p]] /\ old.static = [p \in Pages |-> old.static[p]]
      BY SceneFields
    <2> HIDE DEF sta
    <2> QED
      BY <2>1, <2>2
  <1>3. Widened(hid, n.hidden, old.hidden, P) /\ Widened(mag, n.magnetic, old.magnetic, P)
    <2>1. /\ n.hidden \in SUBSET Overrides /\ old.hidden \in SUBSET Overrides
          /\ n.magnetic \in SUBSET Overrides /\ old.magnetic \in SUBSET Overrides
      BY SceneFields
    <2>2. \A k \in Overrides : k[1] \notin P =>
            (k \in n.hidden <=> k \in old.hidden) /\ (k \in n.magnetic <=> k \in old.magnetic)
      BY DEF Elsewhere, ElsewhereInSets
    <2>4. Widened(hid, n.hidden, old.hidden, P)
      BY <2>1, <2>2 DEF SetsOf, Widened
    <2>5. Widened(mag, n.magnetic, old.magnetic, P)
      BY <2>1, <2>2 DEF SetsOf, Widened
    <2> QED
      BY <2>4, <2>5
  <1>4. dyn = old.dynamics
    <2>1. /\ DOMAIN part = {k \in DOMAIN old.dynamics : k[1] \in P}
          /\ \A k \in DOMAIN part : part[k] = old.dynamics[k]
      BY DEF OfPages
    <2>2. DOMAIN old.dynamics \subseteq Places /\ DOMAIN n.dynamics \subseteq Places
          /\ old.dynamics = [k \in DOMAIN old.dynamics |-> old.dynamics[k]]
      BY SceneFields, DynamicTyped DEF DynamicMaps
    <2>3. \A k \in Places : k[1] \notin P =>
            /\ k \in DOMAIN n.dynamics <=> k \in DOMAIN old.dynamics
            /\ k \in DOMAIN old.dynamics => n.dynamics[k] = old.dynamics[k]
      BY DEF Elsewhere, ElsewhereInReticles
    <2>4. \A k \in DOMAIN n.dynamics : k[1] \notin P
      BY DEF Cleared
    <2> HIDE DEF part
    <2>5. dyn = [k \in DOMAIN part \cup DOMAIN n.dynamics |-> IF k \in DOMAIN part THEN part[k] ELSE n.dynamics[k]]
      BY DEF Over
    <2>6. DOMAIN part \cup DOMAIN n.dynamics = DOMAIN old.dynamics
      BY <2>1, <2>2, <2>3, <2>4
    <2>7. \A k \in DOMAIN old.dynamics : dyn[k] = old.dynamics[k]
      BY <2>1, <2>2, <2>3, <2>5, <2>6
    <2> HIDE DEF dyn
    <2>8. dyn = [k \in DOMAIN old.dynamics |-> dyn[k]]
      BY <2>5, <2>6
    <2> QED
      BY <2>2, <2>7, <2>8
  <1>5. str = old.strobe
    <2>1. \A k \in Pages \X Strobes : str[k] = old.strobe[k]
      BY DEF Elsewhere, ElsewhereOnPages
    <2>2. str = [k \in Pages \X Strobes |-> str[k]] /\ old.strobe = [k \in Pages \X Strobes |-> old.strobe[k]]
      BY SceneFields
    <2> HIDE DEF str
    <2> QED
      BY <2>1, <2>2
  <1>6. wid \in [Pages -> Widget] /\ \A p \in Pages : wid[p] = IF p \in P THEN old.widget[p] ELSE n.widget[p]
    BY SceneFields
  <1>9. hid \in SUBSET Overrides /\ mag \in SUBSET Overrides
    BY <1>3 DEF Widened
  <1> HIDE DEF sta, hid, mag, dyn, str, wid
  <1>7. u \in Scenes
    BY <1>2, <1>4, <1>5, <1>6, <1>9 DEF Scenes
  <1>8. /\ u.active = n.active /\ u.selected = n.selected /\ u.display = old.display
        /\ u.static = sta /\ u.hidden = hid /\ u.magnetic = mag /\ u.dynamics = dyn
        /\ u.strobe = str /\ u.widget = wid
    BY DEF Scenes
  <1> HIDE DEF u
  <1> QED
    BY <1>1, <1>2, <1>3, <1>4, <1>5, <1>6, <1>7, <1>8

\* What the refresh makes of a strobe depends on what is active, selected, overridden and there.
LEMMA RefreshesAlike ==
  ASSUME NEW s \in Scenes, NEW t \in Scenes, NEW p \in Pages,
         t.active = s.active, t.dynamics = s.dynamics, t.magnetic = s.magnetic, t.hidden = s.hidden,
         t.selected[p] = s.selected[p], t.strobe[Selected(s, p)] = s.strobe[Selected(s, p)]
  PROVE  RefreshSticky(t, p).strobe[Selected(s, p)] = RefreshSticky(s, p).strobe[Selected(s, p)]
  <1>1. Selected(t, p) = Selected(s, p)
    BY DEF Selected
  <1>2. \A k : Attracts(t, k) <=> Attracts(s, k)
    BY AttractsAlike
  <1>3. StrobeAfter(t, p) = StrobeAfter(s, p)
    BY <1>1, <1>2 DEF StrobeAfter
  <1> QED
    BY <1>1, <1>3, RefreshedStrobe

\* old with the overrides of u, and with its sticky strobe refreshed then.
Overriding(old, u) == [old EXCEPT !.hidden = u.hidden, !.magnetic = u.magnetic]
Rewound(old, u) == RefreshSticky(Overriding(old, u), old.active)

LEMMA RewoundIs ==
  ASSUME NEW old \in Scenes, Coherent(old), NEW u \in Scenes
  PROVE  LET c == Rewound(old, u) z == Overriding(old, u)
             sel == Selected(old, old.active)
         IN /\ c \in Scenes /\ Coherent(c) /\ z \in Scenes
            /\ c.active = old.active /\ c.display = old.display /\ c.static = old.static
            /\ c.hidden = u.hidden /\ c.magnetic = u.magnetic /\ c.dynamics = old.dynamics
            /\ c.creation = old.creation /\ c.selected = old.selected /\ c.widget = old.widget
            /\ z.active = old.active /\ z.dynamics = old.dynamics /\ z.hidden = u.hidden
            /\ z.magnetic = u.magnetic /\ z.selected = old.selected /\ z.strobe = old.strobe
            /\ c = RefreshSticky(z, old.active)
            /\ \A k \in Pages \X Strobes : k # sel => c.strobe[k] = old.strobe[k]
            /\ c.strobe[sel].visible = old.strobe[sel].visible
  <1> DEFINE z == Overriding(old, u)
             c == Rewound(old, u)
  <1>1. /\ z \in Scenes /\ z.active = old.active /\ z.display = old.display /\ z.static = old.static
        /\ z.hidden = u.hidden /\ z.magnetic = u.magnetic /\ z.dynamics = old.dynamics
        /\ z.creation = old.creation /\ z.selected = old.selected /\ z.strobe = old.strobe
        /\ z.widget = old.widget
    BY DEF Scenes, Overriding
  <1>2. c = RefreshSticky(z, old.active) /\ old.active \in Pages
    BY SceneFields DEF Rewound
  <1> HIDE DEF z, c
  <1>3. Selected(z, old.active) = Selected(old, old.active)
    BY <1>1 DEF Selected
  <1>4. /\ c \in Scenes /\ SameButStrobe(z, c) /\ SitsOnLock(c)
        /\ \A k \in Pages \X Strobes : k # Selected(z, old.active) => c.strobe[k] = z.strobe[k]
        /\ c.strobe[Selected(z, old.active)].visible = z.strobe[Selected(z, old.active)].visible
    BY <1>1, <1>2, RefreshIs
  <1>5. InOrder(c) /\ TouchedWhereShown(c)
    BY <1>1, <1>4 DEF InOrder, TouchedWhereShown, SameButStrobe, SameRows, Coherent
  <1> QED
    BY <1>1, <1>2, <1>3, <1>4, <1>5 DEF SameButStrobe, SameRows, Coherent, z, c

\* u has the rows of old but for overrides; its strobes are those of old up to the one its active
\* page selects, and that one is refreshed if it is touched at all.
LEMMA SelectionsIs ==
  ASSUME NEW u \in Scenes, NEW old \in Scenes, Coherent(old), NEW P \in SUBSET Pages,
         u.active \in P \/ u.active = old.active,
         \A p \in Pages \ P : u.selected[p] = old.selected[p],
         u.dynamics = old.dynamics, u.strobe = old.strobe
  PROVE  LET v == WithSelections(u, old, P)
         IN /\ v \in Scenes /\ SameRows(u, v) /\ v.active = u.active /\ v.widget = u.widget
            /\ v.selected = old.selected
            /\ \A k \in Pages \X Strobes : k # Selected(old, u.active) => v.strobe[k] = old.strobe[k]
            /\ v.strobe[Selected(old, u.active)].visible = old.strobe[Selected(old, u.active)].visible
            /\ u.active = old.active =>
                  LET sel == Selected(old, old.active)
                  IN v.strobe[sel] \in {old.strobe[sel], Rewound(old, u).strobe[sel]}
  <1> DEFINE a == u.active
             sel == [p \in Pages |-> IF p \in P \ {a} THEN old.selected[p] ELSE u.selected[p]]
             x == [u EXCEPT !.selected = sel]
             v == WithSelections(u, old, P)
  <1>1. a \in Pages /\ old.selected \in [Pages -> Strobes] /\ u.selected \in [Pages -> Strobes]
    BY SceneFields
  <1>2. sel \in [Pages -> Strobes] /\ \A p \in Pages : p # a => sel[p] = old.selected[p]
    BY <1>1
  <1>3. a \notin P => sel = old.selected
    <2>1. ASSUME a \notin P PROVE \A p \in Pages : sel[p] = old.selected[p]
      BY <1>1, <2>1
    <2> HIDE DEF sel
    <2> QED
      BY <1>1, <1>2, <2>1
  <1>4. [sel EXCEPT ![a] = old.selected[a]] = old.selected
    <2> HIDE DEF sel
    <2> QED
      BY <1>1, <1>2
  <1> HIDE DEF sel
  <1>5. /\ x \in Scenes /\ SameRows(u, x) /\ x.active = a /\ x.widget = u.widget
        /\ x.selected = sel /\ x.strobe = old.strobe
    BY <1>2 DEF Scenes, SameRows
  <1>6. v = IF a \in P THEN WithStrobe(x, a, old.selected[a]) ELSE x
    BY DEF WithSelections, sel
  <1> HIDE DEF v
  <1>7. CASE a \notin P
    BY <1>3, <1>5, <1>6, <1>7 DEF v
  <1>8. CASE a \in P
    <2> DEFINE y == [x EXCEPT !.selected[a] = old.selected[a]]
    <2>1. old.selected[a] \in Strobes /\ Selected(old, a) = <<a, old.selected[a]>>
      BY <1>1 DEF Selected
    <2>2. /\ y \in Scenes /\ y.active = a /\ y.dynamics = old.dynamics /\ y.magnetic = u.magnetic
          /\ y.hidden = u.hidden /\ y.strobe = old.strobe /\ y.selected = old.selected
      BY <1>1, <1>4, <1>5 DEF Scenes, SameRows
    <2>3. v = x \/ v = RefreshSticky(y, a)
      BY <1>6, <1>8 DEF WithStrobe
    <2> HIDE DEF x
    <2>4. /\ v \in Scenes /\ SameRows(x, v) /\ v.active = a /\ v.widget = x.widget
          /\ v.selected = [x.selected EXCEPT ![a] = old.selected[a]]
          /\ \A k \in Pages \X Strobes : k # <<a, old.selected[a]>> => v.strobe[k] = x.strobe[k]
          /\ v.strobe[<<a, old.selected[a]>>].visible = x.strobe[<<a, old.selected[a]>>].visible
      <3> DEFINE b == old.selected[a]
      <3>1. v = WithStrobe(x, a, b) /\ b \in Strobes
        BY <1>6, <1>8, <2>1
      <3> HIDE DEF b
      <3>2. /\ v \in Scenes /\ SameRows(x, v) /\ v.active = x.active /\ v.widget = x.widget
            /\ v.selected = [x.selected EXCEPT ![a] = b]
            /\ \A k \in Pages \X Strobes : k # <<a, b>> => v.strobe[k] = x.strobe[k]
            /\ v.strobe[<<a, b>>].visible = x.strobe[<<a, b>>].visible
            /\ SitsOnLock(x) => SitsOnLock(v)
            /\ SitsOnLock([x EXCEPT !.selected[a] = b]) => v.strobe = x.strobe
        BY <1>1, <1>5, <3>1, WithStrobeIs
      <3> QED
        BY <1>5, <3>2 DEF b
    <2> HIDE DEF y
    <2>5. SameRows(u, v)
      BY <1>5, <2>4 DEF SameRows
    <2> DEFINE k == Selected(old, a)
               z == Overriding(old, u)
    <2>6. ASSUME a = old.active PROVE v.strobe[k] \in {old.strobe[k], Rewound(old, u).strobe[k]}
      <3>1. /\ z \in Scenes /\ z.active = a /\ z.dynamics = old.dynamics /\ z.hidden = u.hidden
            /\ z.magnetic = u.magnetic /\ z.selected = old.selected /\ z.strobe = old.strobe
            /\ Rewound(old, u) = RefreshSticky(z, a)
        BY <2>6, RewoundIs
      <3> HIDE DEF z
      <3>2. Selected(z, a) = k
        BY <3>1 DEF Selected
      <3>3. RefreshSticky(y, a).strobe[k] = RefreshSticky(z, a).strobe[k]
        BY <1>1, <2>2, <3>1, <3>2, RefreshesAlike
      <3> QED
        BY <1>5, <2>3, <3>1, <3>3
    <2> QED
      BY <1>4, <1>5, <2>1, <2>4, <2>5, <2>6 DEF v
  <1> QED
    BY <1>7, <1>8

LEMMA MaxOfOne ==
  ASSUME NEW n \in Nat \ {0}
  PROVE  Max({1, n}) = n
  <1>1. n \in {1, n} /\ \A m \in {1, n} : n >= m
    OBVIOUS
  <1>2. \A k \in {1, n} : (\A m \in {1, n} : k >= m) => k = n
    OBVIOUS
  <1> QED
    BY <1>1, <1>2 DEF Max

\* What a snapshot puts back: everything of old, but for widgets' interaction and for where the
\* strobe sits that the page shown before the rollback selects.
PutBack(old, w, a) ==
    /\ w \in Scenes /\ Coherent(w)
    /\ w.active = old.active /\ w.display = old.display /\ w.static = old.static
    /\ w.hidden = old.hidden /\ w.magnetic = old.magnetic /\ w.dynamics = old.dynamics
    /\ w.creation = old.creation /\ w.selected = old.selected
    /\ \A p \in Pages : Released(w.widget[p]) = Released(old.widget[p])
    /\ \A k \in Pages \X Strobes : k # Selected(old, a) => w.strobe[k] = old.strobe[k]
    /\ w.strobe[Selected(old, a)].visible = old.strobe[Selected(old, a)].visible
    /\ a = old.active => w.strobe = old.strobe

\* What a snapshot of old puts back into n: old, with the overrides that are there afterwards.
LEMMA AppliedIs ==
  ASSUME NEW n \in Scenes, NEW old \in Scenes, Coherent(old), NEW P \in SUBSET Pages,
         Elsewhere(old, n, P), Cleared(n, P)
  PROVE  LET w == Applied(n, old, P)
         IN /\ PutBack(Rewound(old, w), w, n.active)
            /\ Widened(w.hidden, n.hidden, old.hidden, P)
            /\ Widened(w.magnetic, n.magnetic, old.magnetic, P)
  <1> DEFINE u == WithRows(n, old, P)
             v == WithSelections(u, old, P)
             y == Turned(v, old.active)
             t == Activated(v, old.active)
             w == [t EXCEPT !.creation = old.creation]
             a == n.active
             c == Rewound(old, u)
             z == Overriding(old, u)
             sel == Selected(old, old.active)
  <1>1. old.active \in Pages /\ a \in Pages /\ old.creation \in Nat \ {0} /\ sel \in Pages \X Strobes
    BY SceneFields, SelectedIs
  <1>2. Applied(n, old, P) = w
    BY <1>1, MaxOfOne DEF Applied
  <1>3. /\ u \in Scenes /\ u.active = a /\ u.selected = n.selected
        /\ u.display = old.display /\ u.static = old.static
        /\ Widened(u.hidden, n.hidden, old.hidden, P)
        /\ Widened(u.magnetic, n.magnetic, old.magnetic, P)
        /\ u.dynamics = old.dynamics /\ u.strobe = old.strobe
        /\ \A p \in Pages : u.widget[p] = IF p \in P THEN old.widget[p] ELSE n.widget[p]
    BY WithRowsIs
  <1>4. /\ a \in P \/ a = old.active
        /\ \A p \in Pages \ P : n.selected[p] = old.selected[p] /\ Released(n.widget[p]) = Released(old.widget[p])
    BY DEF Elsewhere, ElsewhereOnPages
  <1> HIDE DEF u
  <1>5. /\ v \in Scenes /\ SameRows(u, v) /\ v.active = a /\ v.widget = u.widget
        /\ v.selected = old.selected
        /\ \A k \in Pages \X Strobes : k # Selected(old, a) => v.strobe[k] = old.strobe[k]
        /\ v.strobe[Selected(old, a)].visible = old.strobe[Selected(old, a)].visible
        /\ a = old.active => v.strobe[sel] \in {old.strobe[sel], c.strobe[sel]}
    <2>1. \A p \in Pages \ P : u.selected[p] = old.selected[p]
      BY <1>3, <1>4
    <2>2. u.active \in P \/ u.active = old.active
      BY <1>3, <1>4
    <2> HIDE DEF a, v, c, sel
    <2>3. /\ v \in Scenes /\ SameRows(u, v) /\ v.active = u.active /\ v.widget = u.widget
          /\ v.selected = old.selected
          /\ \A k \in Pages \X Strobes : k # Selected(old, u.active) => v.strobe[k] = old.strobe[k]
          /\ v.strobe[Selected(old, u.active)].visible = old.strobe[Selected(old, u.active)].visible
          /\ u.active = old.active => v.strobe[sel] \in {old.strobe[sel], c.strobe[sel]}
      BY <1>3, <2>1, <2>2, SelectionsIs DEF v, c, sel
    <2> QED
      BY <1>3, <2>3
  <1>6. /\ c \in Scenes /\ Coherent(c) /\ z \in Scenes
        /\ c.active = old.active /\ c.display = old.display /\ c.static = old.static
        /\ c.hidden = u.hidden /\ c.magnetic = u.magnetic /\ c.dynamics = old.dynamics
        /\ c.creation = old.creation /\ c.selected = old.selected /\ c.widget = old.widget
        /\ z.active = old.active /\ z.dynamics = old.dynamics /\ z.hidden = u.hidden
        /\ z.magnetic = u.magnetic /\ z.selected = old.selected /\ z.strobe = old.strobe
        /\ c = RefreshSticky(z, old.active)
        /\ \A k \in Pages \X Strobes : k # sel => c.strobe[k] = old.strobe[k]
        /\ c.strobe[sel].visible = old.strobe[sel].visible
    BY <1>3, RewoundIs
  <1> HIDE DEF v, c, z
  <1>7. /\ t = RefreshSticky(y, old.active) /\ y \in Scenes /\ y.strobe = v.strobe /\ SameRows(v, y)
        /\ y.active = old.active /\ y.selected = old.selected
    BY <1>1, <1>5, TurnedIs
  <1>8. Selected(v, old.active) = sel /\ Selected(y, old.active) = sel /\ Selected(c, old.active) = sel
        /\ Selected(z, old.active) = sel
    BY <1>5, <1>6, <1>7 DEF Selected
  <1>9. v.strobe[sel] \in {old.strobe[sel], c.strobe[sel]}
    <2>1. CASE a = old.active
      BY <1>5, <2>1
    <2>2. CASE a # old.active
      <3>1. sel # Selected(old, a)
        BY <2>2 DEF Selected
      <3> QED
        BY <1>1, <1>5, <3>1
    <2> QED
      BY <2>1, <2>2
  <1>10. /\ t \in Scenes /\ SameRows(v, t) /\ t.active = old.active /\ t.selected = v.selected
         /\ v.active = old.active => t.widget = v.widget
         /\ v.active # old.active => \A q \in Pages : t.widget[q] = Released(v.widget[q])
         /\ SitsOnLock(t) /\ \A k \in Pages \X Strobes : k # sel => t.strobe[k] = v.strobe[k]
    <2> HIDE DEF t, sel, y
    <2>1. /\ t \in Scenes /\ SameRows(v, t) /\ t.active = old.active /\ t.selected = v.selected
          /\ v.active = old.active => t.widget = v.widget
          /\ v.active # old.active => \A q \in Pages : t.widget[q] = Released(v.widget[q])
          /\ \A k \in Pages \X Strobes : k # Selected(v, old.active) => t.strobe[k] = v.strobe[k]
          /\ t.strobe[Selected(v, old.active)].visible = v.strobe[Selected(v, old.active)].visible
          /\ SitsOnLock(t)
          /\ SitsOnLock([v EXCEPT !.active = old.active]) => t.strobe = v.strobe
      BY <1>1, <1>5, ActivatedIs DEF t
    <2> QED
      BY <1>8, <2>1
  <1>11. t.strobe[sel] = c.strobe[sel]
    <2>1. /\ y.dynamics = old.dynamics /\ y.magnetic = u.magnetic /\ y.hidden = u.hidden
      BY <1>3, <1>5, <1>7 DEF SameRows
    <2> HIDE DEF t, y, sel
    <2>2. CASE v.strobe[sel] = old.strobe[sel]
      <3>1. RefreshSticky(y, old.active).strobe[sel] = RefreshSticky(z, old.active).strobe[sel]
        BY <1>1, <1>6, <1>7, <1>8, <2>1, <2>2, RefreshesAlike
      <3> QED
        BY <1>6, <1>7, <3>1
    <2>3. CASE v.strobe[sel] = c.strobe[sel]
      <3>1. RefreshSticky(y, old.active).strobe[sel] = RefreshSticky(c, old.active).strobe[sel]
        BY <1>1, <1>6, <1>7, <1>8, <2>1, <2>3, RefreshesAlike
      <3>2. RefreshSticky(c, old.active) = c
        BY <1>1, <1>6, RefreshIs DEF Coherent
      <3> QED
        BY <1>7, <3>1, <3>2
    <2> QED
      BY <1>9, <2>2, <2>3
  <1> HIDE DEF t, y, sel
  <1>12. /\ w \in Scenes /\ w.active = old.active /\ w.selected = old.selected /\ w.widget = t.widget
         /\ w.strobe = t.strobe /\ w.creation = old.creation /\ w.display = old.display
         /\ w.static = old.static /\ w.hidden = u.hidden /\ w.magnetic = u.magnetic
         /\ w.dynamics = old.dynamics
    BY <1>1, <1>3, <1>5, <1>10 DEF Scenes, SameRows
  <1> HIDE DEF w
  <1>13. Rewound(old, w) = c
    BY <1>12 DEF Rewound, Overriding, c
  <1>14. SitsOnLock(w)
    <2>1. /\ t.dynamics = w.dynamics /\ t.magnetic = w.magnetic /\ t.hidden = w.hidden
          /\ t.selected = w.selected /\ t.strobe = w.strobe /\ t.active = w.active
      BY <1>3, <1>5, <1>10, <1>12 DEF SameRows
    <2> QED
      BY <1>10, <2>1, SitsAlike
  <1>15. InOrder(w)
    BY <1>12 DEF InOrder, Coherent
  <1>16. \A p \in Pages : Released(u.widget[p]) = Released(old.widget[p]) /\ u.widget[p] \in Widget
    BY <1>3, <1>4, SceneFields
  <1>17. \A p \in Pages : Released(w.widget[p]) = Released(old.widget[p])
    <2>1. CASE a = old.active
      BY <1>5, <1>10, <1>12, <1>16, <2>1
    <2>2. CASE a # old.active
      <3>1. \A p \in Pages : w.widget[p] = Released(u.widget[p])
        BY <1>5, <1>10, <1>12, <2>2
      <3> QED
        BY <1>16, <3>1, ReleasedTyped
    <2> QED
      BY <2>1, <2>2
  <1>18. TouchedWhereShown(w)
    <2>1. CASE a = old.active
      <3>1. \A p \in Pages : w.widget[p] = IF p \in P THEN old.widget[p] ELSE n.widget[p]
        BY <1>3, <1>5, <1>10, <1>12, <2>1
      <3> QED
        BY <1>12, <2>1, <3>1 DEF TouchedWhereShown, Coherent, Cleared
    <2>2. CASE a # old.active
      <3>1. \A p \in Pages : w.widget[p] = Released(u.widget[p])
        BY <1>5, <1>10, <1>12, <2>2
      <3> QED
        BY <1>16, <3>1, ReleasedTyped DEF TouchedWhereShown
    <2> QED
      BY <2>1, <2>2
  <1>19. Coherent(w)
    BY <1>14, <1>15, <1>18 DEF Coherent
  <1>20. \A k \in Pages \X Strobes : k # Selected(old, a) => w.strobe[k] = c.strobe[k]
    BY <1>5, <1>6, <1>10, <1>11, <1>12
  <1>21. Selected(c, a) = Selected(old, a) /\ Selected(old, a) \in Pages \X Strobes
    BY <1>1, <1>6, SelectedIs DEF Selected
  <1>22. w.strobe[Selected(old, a)].visible = c.strobe[Selected(old, a)].visible
    BY <1>5, <1>6, <1>10, <1>11, <1>12, <1>21
  <1>23. ASSUME a = old.active PROVE w.strobe = c.strobe
    <2>1. \A k \in Pages \X Strobes : w.strobe[k] = c.strobe[k]
      BY <1>11, <1>12, <1>20, <1>23 DEF sel
    <2>2. w.strobe \in [Pages \X Strobes -> Strobe] /\ c.strobe \in [Pages \X Strobes -> Strobe]
      BY <1>6, <1>12, SceneFields
    <2> QED
      BY <2>1, <2>2
  <1>24. PutBack(c, w, a)
    BY <1>6, <1>12, <1>17, <1>19, <1>20, <1>21, <1>22, <1>23 DEF PutBack
  <1> QED
    BY <1>2, <1>3, <1>12, <1>13, <1>24

\* What was put back is all that commands decide.
LEMMA PutBackExact ==
  ASSUME NEW old \in Scenes, NEW w, NEW a \in Pages, PutBack(old, w, a)
  PROVE  Commanded(w) = Commanded(old)
  <1> DEFINE wid(s) == [p \in Pages |-> Released(s.widget[p])]
             str(s) == [k \in Pages \X Strobes |->
                           IF Shown(s, k) THEN s.strobe[k]
                           ELSE [s.strobe[k] EXCEPT !.position = 0, !.lock = NoReticle]]
  <1>1. \A s : Commanded(s) = [s EXCEPT !.feedback = <<>>, !.widget = wid(s), !.strobe = str(s)]
    BY DEF Commanded
  <1>2. w \in Scenes
    BY DEF PutBack
  <1>3. ASSUME NEW s \in Scenes PROVE wid(s) \in [Pages -> Widget] /\ str(s) \in [Pages \X Strobes -> Strobe]
    <2>1. wid(s) \in [Pages -> Widget]
      BY SceneFields, ReleasedTyped
    <2>2. 0 \in Positions
      BY SceneAssumption
    <2>3. s.strobe \in [Pages \X Strobes -> Strobe]
      BY SceneFields
    <2>4. \A k \in Pages \X Strobes : [s.strobe[k] EXCEPT !.position = 0, !.lock = NoReticle] \in Strobe
      BY <2>2, <2>3 DEF Strobe
    <2> QED
      BY <2>1, <2>3, <2>4
  <1>4. wid(w) = wid(old)
    BY DEF PutBack
  <1>5. str(w) = str(old)
    <2>1. ASSUME NEW k \in Pages \X Strobes PROVE str(w)[k] = str(old)[k]
      <3>1. k[1] \in Pages /\ w.selected = old.selected /\ w.active = old.active
        BY DEF PutBack
      <3>2. Shown(w, k) <=> Shown(old, k)
        BY <3>1 DEF Shown, Selected
      <3>3. w.strobe[k] \in Strobe /\ old.strobe[k] \in Strobe
        BY <1>2, SceneFields
      <3>4. CASE k # Selected(old, a)
        BY <3>2, <3>4 DEF PutBack
      <3>5. CASE k = Selected(old, a) /\ a = old.active
        BY <3>2, <3>5 DEF PutBack
      <3>6. CASE k = Selected(old, a) /\ a # old.active
        <4>1. ~ Shown(old, k) /\ ~ Shown(w, k)
          BY <3>2, <3>6 DEF Shown, Selected
        <4>2. w.strobe[k].visible = old.strobe[k].visible
          BY <3>6 DEF PutBack
        <4>3. [w.strobe[k] EXCEPT !.position = 0, !.lock = NoReticle]
               = [old.strobe[k] EXCEPT !.position = 0, !.lock = NoReticle]
          BY <3>3, <4>2 DEF Strobe
        <4> QED
          BY <4>1, <4>3
      <3> QED
        BY <3>4, <3>5, <3>6
    <2> HIDE DEF str
    <2>2. str(w) = [k \in Pages \X Strobes |-> str(w)[k]] /\ str(old) = [k \in Pages \X Strobes |-> str(old)[k]]
      BY DEF str
    <2> QED
      BY <2>1, <2>2
  <1> HIDE DEF wid, str
  <1>6. ASSUME NEW s \in Scenes
        PROVE  LET c == [s EXCEPT !.feedback = <<>>, !.widget = wid(s), !.strobe = str(s)]
               IN /\ c \in Scenes /\ c.feedback = <<>> /\ c.widget = wid(s) /\ c.strobe = str(s)
                  /\ c.active = s.active /\ c.display = s.display /\ c.static = s.static
                  /\ c.hidden = s.hidden /\ c.magnetic = s.magnetic /\ c.dynamics = s.dynamics
                  /\ c.creation = s.creation /\ c.selected = s.selected
    <2>1. <<>> \in Feedbacks
      BY SceneAssumption DEF Feedbacks
    <2> QED
      BY <1>3, <2>1 DEF Scenes
  <1> DEFINE cw == [w EXCEPT !.feedback = <<>>, !.widget = wid(w), !.strobe = str(w)]
             co == [old EXCEPT !.feedback = <<>>, !.widget = wid(old), !.strobe = str(old)]
  <1>7. Commanded(w) = cw /\ Commanded(old) = co
    BY <1>1
  <1>8. cw \in Scenes /\ co \in Scenes /\ SameButStrobe(cw, co) /\ cw.strobe = co.strobe
    <2>1. /\ cw \in Scenes /\ cw.feedback = <<>> /\ cw.widget = wid(w) /\ cw.strobe = str(w)
          /\ cw.active = w.active /\ cw.display = w.display /\ cw.static = w.static
          /\ cw.hidden = w.hidden /\ cw.magnetic = w.magnetic /\ cw.dynamics = w.dynamics
          /\ cw.creation = w.creation /\ cw.selected = w.selected
      BY <1>2, <1>6
    <2>2. /\ co \in Scenes /\ co.feedback = <<>> /\ co.widget = wid(old) /\ co.strobe = str(old)
          /\ co.active = old.active /\ co.display = old.display /\ co.static = old.static
          /\ co.hidden = old.hidden /\ co.magnetic = old.magnetic /\ co.dynamics = old.dynamics
          /\ co.creation = old.creation /\ co.selected = old.selected
      BY <1>6
    <2> HIDE DEF cw, co
    <2> QED
      BY <1>4, <1>5, <2>1, <2>2 DEF PutBack, SameButStrobe, SameRows
  <1> HIDE DEF cw, co
  <1> QED
    BY <1>7, <1>8, SameScene

\* The rollback of a batch from a scene it can have led to.
LEMMA RestoredIs ==
  ASSUME NEW old \in Scenes, Coherent(old), NEW commands, NEW t,
         Handled(old, t, Footprint(old, commands))
  PROVE  LET w == Restored(t, old, commands)
             whole == TouchesWholeScene(commands)
         IN /\ \E a \in Pages : PutBack(Rewound(old, w), w, a)
            /\ LeavesBehind(w.hidden, old.hidden, IF whole THEN {} ELSE t.hidden)
            /\ LeavesBehind(w.magnetic, old.magnetic, IF whole THEN {} ELSE t.magnetic)
  <1>1. t \in Scenes /\ Coherent(t) /\ Elsewhere(old, t, Footprint(old, commands))
    BY DEF Handled
  <1>2. CASE TouchesWholeScene(commands)
    <2> DEFINE w == Applied(Loaded, old, Pages)
    <2>1. Restored(t, old, commands) = w
      BY <1>2 DEF Restored
    <2>2. Loaded \in Scenes /\ Cleared(Loaded, Pages) /\ Elsewhere(old, Loaded, Pages)
      BY LoadedTyped, LoadedCleared, ElsewhereNowhere
    <2>3. /\ PutBack(Rewound(old, w), w, Loaded.active)
          /\ Widened(w.hidden, Loaded.hidden, old.hidden, Pages)
          /\ Widened(w.magnetic, Loaded.magnetic, old.magnetic, Pages)
      BY <2>2, AppliedIs
    <2>4. Loaded.hidden = {} /\ Loaded.magnetic = {} /\ Loaded.active \in Pages
      BY <2>2, SceneFields DEF Loaded
    <2> HIDE DEF w
    <2>5. LeavesBehind(w.hidden, old.hidden, {}) /\ LeavesBehind(w.magnetic, old.magnetic, {})
      BY <2>3, <2>4 DEF Widened, SetsOf, LeavesBehind
    <2> QED
      BY <1>2, <2>1, <2>3, <2>4, <2>5
  <1>3. CASE ~ TouchesWholeScene(commands)
    <2> DEFINE P == TouchedPages(old, commands)
               n == Neutral(t, P)
               w == Applied(n, old, P)
    <2>1. Restored(t, old, commands) = w /\ Footprint(old, commands) = P
      BY <1>3 DEF Restored, Footprint
    <2>2. P \in SUBSET Pages
      <3>1. old.active \in Pages
        BY SceneFields
      <3> QED
        BY <3>1 DEF TouchedPages
    <2> HIDE DEF P
    <2>3. /\ n \in Scenes /\ Elsewhere(t, n, P) /\ Cleared(n, P)
          /\ n.hidden = t.hidden /\ n.magnetic = t.magnetic
      BY <1>1, <2>2, NeutralIs
    <2> HIDE DEF n
    <2>4. Elsewhere(old, n, P)
      BY <1>1, <2>1, <2>3, ElsewhereTrans
    <2>5. /\ PutBack(Rewound(old, w), w, n.active)
          /\ Widened(w.hidden, n.hidden, old.hidden, P)
          /\ Widened(w.magnetic, n.magnetic, old.magnetic, P)
      BY <2>2, <2>3, <2>4, AppliedIs
    <2>6. n.active \in Pages
      BY <2>3, SceneFields
    <2> HIDE DEF w
    <2>7. LeavesBehind(w.hidden, old.hidden, t.hidden) /\ LeavesBehind(w.magnetic, old.magnetic, t.magnetic)
      BY <2>3, <2>5 DEF Widened, SetsOf, LeavesBehind
    <2> QED
      BY <1>3, <2>1, <2>5, <2>6, <2>7
  <1> QED
    BY <1>2, <1>3

-----------------------------------------------------------------------------
(* What a batch leaves. *)

\* Whatever was run of a batch, it touched no more than the footprint.
LEMMA OutcomesHandled ==
  ASSUME NEW s \in Scenes, Coherent(s), NEW commands \in Batches, NEW o \in Outcomes(s, commands)
  PROVE  /\ o \in [scene : Scenes, ok : BOOLEAN] /\ Handled(s, o.scene, Footprint(s, commands))
         /\ GrownBy(s, o.scene, HiddenBy(commands), MagneticBy(commands))
  <1> DEFINE P == Footprint(s, commands)
             H == HiddenBy(commands)
             M == MagneticBy(commands)
             G == {x \in [scene : Scenes, ok : BOOLEAN] : Handled(s, x.scene, P) /\ GrownBy(s, x.scene, H, M)}
  <1>1. /\ Len(commands) \in Nat /\ DOMAIN commands = 1 .. Len(commands)
        /\ \A i \in DOMAIN commands : WellFormed(commands[i])
    BY SceneAssumption
  <1>2. [scene |-> s, ok |-> TRUE] \in G
    BY ElsewhereSelf DEF Handled, GrownBy
  <1>3. ASSUME NEW x \in G, NEW i \in DOMAIN commands, NEW t \in Dispatch(x.scene, commands[i])
        PROVE  [scene |-> t, ok |-> TRUE] \in G
    <2> DEFINE c == commands[i]
    <2>1. x.scene \in Scenes /\ Handled(s, x.scene, P) /\ Coherent(x.scene) /\ Elsewhere(s, x.scene, P)
      BY DEF Handled
    <2>2. /\ c.kind \notin {"display", "reset"} /\ c.page \in Pages => c.page \in P
          /\ c.kind = "page" => x.scene.active \in P
          /\ c.kind = "reset" => P = Pages
      BY <2>1, FootprintCovers
    <2>3. WellFormed(c) /\ t \in Dispatch(x.scene, c) /\ c \in Range(commands)
      BY <1>1 DEF Range
    <2>6. Hides(c) \subseteq H /\ Gives(c) \subseteq M
      <3> HIDE DEF c
      <3> QED
        BY <2>3 DEF Hides, Gives, HiddenBy, MagneticBy
    <2> HIDE DEF P, c, H, M
    <2>7. GrownBy(s, x.scene, H, M) /\ GrownBy(x.scene, t, Hides(c), Gives(c))
      BY <2>1, <2>3, DispatchGrows
    <2>8. GrownBy(s, t, H, M)
      BY <2>6, <2>7 DEF GrownBy
    <2>4. Handled(x.scene, t, P)
      BY <2>1, <2>2, <2>3, DispatchHandled
    <2>5. Handled(s, t, P) /\ t \in Scenes
      BY <2>1, <2>4, HandledTrans DEF Handled
    <2> QED
      BY <2>5, <2>8
  <1>4. ASSUME NEW x \in G PROVE [x EXCEPT !.ok = FALSE] \in G
    <2> HIDE DEF P, H, M
    <2>1. [x EXCEPT !.ok = FALSE] \in [scene : Scenes, ok : BOOLEAN] /\ [x EXCEPT !.ok = FALSE].scene = x.scene
      OBVIOUS
    <2> QED
      BY <2>1
  <1> HIDE DEF G
  <1>5. ASSUME NEW O \in SUBSET G, NEW i \in 1 .. Len(commands), NEW y \in Step(O, commands[i])
        PROVE  y \in G
    <2>1. i \in DOMAIN commands
      BY <1>1
    <2>2. PICK x \in O : y \in IF x.ok /\ Dispatch(x.scene, commands[i]) # {}
                               THEN {[scene |-> t, ok |-> TRUE] : t \in Dispatch(x.scene, commands[i])}
                               ELSE {[x EXCEPT !.ok = FALSE]}
      BY DEF Step
    <2>3. x \in G
      BY <2>2
    <2>4. CASE \E t \in Dispatch(x.scene, commands[i]) : y = [scene |-> t, ok |-> TRUE]
      BY <1>3, <2>1, <2>3, <2>4
    <2>5. CASE y = [x EXCEPT !.ok = FALSE]
      BY <1>4, <2>3, <2>5
    <2> QED
      BY <2>2, <2>4, <2>5
  <1>6. Outcomes(s, commands) \subseteq G
    BY <1>1, <1>2, <1>5, OutcomesStay
  <1> QED
    BY <1>6 DEF G

LEMMA SubmittedHandled ==
  ASSUME NEW s \in Scenes, Coherent(s), NEW commands \in Batches, NEW mode \in BOOLEAN,
         NEW o \in Submitted(s, commands, mode)
  PROVE  /\ o.scene \in Scenes /\ Coherent(o.scene)
         /\ mode /\ ~o.ok /\ Len(commands) > 1 => RolledBack(s, o.scene, commands)
  <1>1. Len(commands) \in Nat
    BY SceneAssumption
  <1>2. PICK x \in Outcomes(s, commands) :
           o = IF x.ok \/ ~mode \/ Len(commands) <= 1 THEN x
               ELSE [x EXCEPT !.scene = Restored(@, s, commands)]
    BY DEF Submitted
  <1>3. /\ x \in [scene : Scenes, ok : BOOLEAN] /\ Handled(s, x.scene, Footprint(s, commands))
        /\ GrownBy(s, x.scene, HiddenBy(commands), MagneticBy(commands))
    BY OutcomesHandled
  <1>4. CASE x.ok \/ ~mode \/ Len(commands) <= 1
    BY <1>1, <1>2, <1>3, <1>4 DEF Handled
  <1>5. CASE ~ (x.ok \/ ~mode \/ Len(commands) <= 1)
    <2> DEFINE r == Restored(x.scene, s, commands)
               whole == TouchesWholeScene(commands)
    <2>1. /\ \E a \in Pages : PutBack(Rewound(s, r), r, a)
          /\ LeavesBehind(r.hidden, s.hidden, IF whole THEN {} ELSE x.scene.hidden)
          /\ LeavesBehind(r.magnetic, s.magnetic, IF whole THEN {} ELSE x.scene.magnetic)
      BY <1>3, RestoredIs
    <2> HIDE DEF r, whole
    <2>2. o.scene = r
      BY <1>2, <1>3, <1>5 DEF r
    <2>3. PICK a \in Pages : PutBack(Rewound(s, r), r, a)
      BY <2>1
    <2>4. r \in Scenes /\ Coherent(r)
      BY <2>3 DEF PutBack
    <2>5. Commanded(r) = Commanded(Rewound(s, r))
      BY <2>3, <2>4, RewoundIs, PutBackExact
    <2>6. /\ LeavesBehind(r.hidden, s.hidden, IF whole THEN {} ELSE HiddenBy(commands))
          /\ LeavesBehind(r.magnetic, s.magnetic, IF whole THEN {} ELSE MagneticBy(commands))
      BY <1>3, <2>1 DEF LeavesBehind, GrownBy
    <2>7. Rewound(s, r) = RefreshSticky(Overriding(s, r), Overriding(s, r).active)
      BY <2>4, RewoundIs
    <2>8. RolledBack(s, r, commands)
      BY <2>5, <2>6, <2>7 DEF RolledBack, Overriding, whole
    <2> QED
      BY <2>2, <2>4, <2>8
  <1> QED
    BY <1>4, <1>5

-----------------------------------------------------------------------------
(* The inductive invariant. *)

SceneInv == scene \in Scenes /\ Coherent(scene) /\ request \in 0 .. MaxRequests

LEMMA InitScene == Init => SceneInv
  <1>1. MaxRequests \in Nat
    BY SceneAssumption
  <1> QED
    BY <1>1, LoadedTyped, LoadedCoherent DEF Init, SceneInv

LEMMA SubmitBatchScene ==
  ASSUME SceneInv, NEW commands \in Batches, SubmitBatch(commands)
  PROVE  SceneInv'
  <1>1. PICK o \in Submitted(scene, commands, Transactional) : scene' = o.scene
    BY DEF SubmitBatch
  <1>2. Transactional \in BOOLEAN
    BY SceneAssumption
  <1>3. o.scene \in Scenes /\ Coherent(o.scene)
    BY <1>2, SubmittedHandled DEF SceneInv
  <1>4. scene' \in Scenes /\ Coherent(scene')
    BY <1>1, <1>3
  <1>5. Coherent(scene)'
    BY <1>4 DEF Coherent, SitsOnLock, InOrder, TouchedWhereShown, Attracts, Selected
  <1> QED
    BY <1>4, <1>5 DEF SceneInv, SubmitBatch, Scenes, Feedbacks, DynamicMaps, Places, Dynamic, Strobe, Widget, Overrides, Templates

LEMMA QueuedTyped ==
  ASSUME NEW q \in Feedbacks, NEW id \in Nat
  PROVE  Queued(q, id) \in Feedbacks
  <1>1. MaxFeedback \in Nat \ {0}
    BY SceneAssumption
  <1>2. Append(q, id) \in Seq(Nat) /\ Len(Append(q, id)) = Len(q) + 1 /\ Len(q) \in Nat
    BY DEF Feedbacks
  <1>3. CASE Len(Append(q, id)) > MaxFeedback
    <2>1. Tail(Append(q, id)) \in Seq(Nat) /\ Len(Tail(Append(q, id))) = Len(q)
      BY <1>2, Append(q, id) # <<>>
    <2> QED
      BY <1>3, <2>1 DEF Queued, Feedbacks
  <1>4. CASE ~ (Len(Append(q, id)) > MaxFeedback)
    BY <1>1, <1>2, <1>4 DEF Queued, Feedbacks
  <1> QED
    BY <1>3, <1>4

\* Only the widget of the active page takes the pointer, and feedback stays in its queue.
LEMMA UpdateWidgetInputScene ==
  ASSUME SceneInv, NEW touched \in BOOLEAN, NEW pending \in BOOLEAN, NEW fresh \in BOOLEAN,
         NEW report \in BOOLEAN, UpdateWidgetInput(touched, pending, fresh, report)
  PROVE  SceneInv'
  <1> DEFINE a == scene.active
             w == scene.widget[a]
             id == IF fresh THEN request + 1 ELSE w.request
             new == [w EXCEPT !.touched = touched, !.pending = pending, !.request = id]
             queue == IF report THEN Queued(scene.feedback, id) ELSE scene.feedback
             wid == [scene.widget EXCEPT ![a] = new]
  <1>1. MaxRequests \in Nat /\ scene \in Scenes /\ Coherent(scene) /\ request \in 0 .. MaxRequests
    BY SceneAssumption DEF SceneInv
  <1>2. a \in Pages /\ scene.widget \in [Pages -> Widget] /\ scene.feedback \in Feedbacks
    BY <1>1, SceneFields
  <1>3. id \in Nat
    BY <1>1, <1>2 DEF Widget
  <1>4. new \in Widget
    BY <1>2, <1>3 DEF Widget
  <1>5. queue \in Feedbacks
    BY <1>2, <1>3, QueuedTyped
  <1>6. scene' = [scene EXCEPT !.widget = wid, !.feedback = queue]
    BY DEF UpdateWidgetInput
  <1>7. request' \in 0 .. MaxRequests
    BY <1>1 DEF UpdateWidgetInput
  <1> HIDE DEF a, id, queue, new
  <1>8. wid \in [Pages -> Widget] /\ \A p \in Pages : p # a => wid[p] = scene.widget[p]
    BY <1>2, <1>4
  <1> HIDE DEF wid
  <1>9. /\ scene' \in Scenes /\ scene'.active = a /\ scene'.dynamics = scene.dynamics
        /\ scene'.magnetic = scene.magnetic /\ scene'.hidden = scene.hidden
        /\ scene'.selected = scene.selected /\ scene'.strobe = scene.strobe
        /\ scene'.creation = scene.creation /\ scene'.widget = wid
    BY <1>1, <1>5, <1>6, <1>8 DEF Scenes, a
  <1>10. SitsOnLock(scene')
    BY <1>1, <1>9, SitsAlike DEF Coherent, a
  <1>11. InOrder(scene')
    BY <1>1, <1>9 DEF Coherent, InOrder
  <1>12. TouchedWhereShown(scene')
    BY <1>1, <1>8, <1>9 DEF Coherent, TouchedWhereShown, a
  <1>13. Coherent(scene')
    BY <1>10, <1>11, <1>12 DEF Coherent
  <1> QED
    BY <1>7, <1>9, <1>13 DEF SceneInv

LEMMA TakeWidgetFeedbackScene ==
  ASSUME SceneInv, TakeWidgetFeedback
  PROVE  SceneInv'
  <1>1. scene \in Scenes /\ Coherent(scene) /\ request' = request /\ request \in 0 .. MaxRequests
    BY DEF SceneInv, TakeWidgetFeedback
  <1>2. <<>> \in Feedbacks
    BY SceneAssumption DEF Feedbacks
  <1>3. scene' = [scene EXCEPT !.feedback = <<>>]
    BY DEF TakeWidgetFeedback
  <1>4. /\ scene' \in Scenes /\ scene'.active = scene.active /\ scene'.dynamics = scene.dynamics
        /\ scene'.magnetic = scene.magnetic /\ scene'.hidden = scene.hidden
        /\ scene'.selected = scene.selected /\ scene'.strobe = scene.strobe
        /\ scene'.creation = scene.creation /\ scene'.widget = scene.widget
    BY <1>1, <1>2, <1>3 DEF Scenes
  <1>5. SitsOnLock(scene')
    BY <1>1, <1>4, SitsAlike DEF Coherent
  <1>6. InOrder(scene') /\ TouchedWhereShown(scene')
    BY <1>1, <1>4 DEF Coherent, InOrder, TouchedWhereShown
  <1>7. Coherent(scene')
    BY <1>5, <1>6 DEF Coherent
  <1> QED
    BY <1>1, <1>4, <1>7 DEF SceneInv

LEMMA SceneInvariant == Spec => []SceneInv
  <1>1. Init => SceneInv
    BY InitScene
  <1>2. SceneInv /\ [Next]_vars => SceneInv'
    <2> SUFFICES ASSUME SceneInv, [Next]_vars PROVE SceneInv'
      OBVIOUS
    <2>1. CASE \E commands \in Batches : SubmitBatch(commands)
      BY <2>1, SubmitBatchScene
    <2>2. CASE \E touched, pending, fresh, report \in BOOLEAN : UpdateWidgetInput(touched, pending, fresh, report)
      BY <2>2, UpdateWidgetInputScene
    <2>3. CASE TakeWidgetFeedback
      BY <2>3, TakeWidgetFeedbackScene
    <2>4. CASE UNCHANGED vars
      <3>1. scene' = scene /\ request' = request
        BY <2>4 DEF vars
      <3>2. Coherent(scene')
        BY <3>1 DEF SceneInv
      <3> QED
        BY <3>1, <3>2 DEF SceneInv
    <2> QED
      BY <2>1, <2>2, <2>3, <2>4 DEF Next
  <1> QED
    BY <1>1, <1>2, PTL DEF Spec

-----------------------------------------------------------------------------
(* Scenes that differ in strobes let go. *)

\* LetGo, field by field: s is t, but for strobes of K that are not locked any more.
StrobeAlike(K, s, t, k) ==
    \/ s.strobe[k] = t.strobe[k]
    \/ k \in K /\ s.strobe[k].lock = NoReticle /\ s.strobe[k].visible = t.strobe[k].visible
Follows(K, s, t) == SameButStrobe(t, s) /\ \A k \in Pages \X Strobes : StrobeAlike(K, s, t, k)

\* Only strobes of K are locked.
Within(K, s) == \A k \in Pages \X Strobes : s.strobe[k].lock # NoReticle => k \in K

LEMMA AlikeSelf ==
  ASSUME NEW K, NEW s
  PROVE  Follows(K, s, s)
  BY DEF Follows, StrobeAlike, SameButStrobe, SameRows

LEMMA AlikeTrans ==
  ASSUME NEW K, NEW s, NEW t, NEW u, Follows(K, s, t), Follows(K, t, u)
  PROVE  Follows(K, s, u)
  <1>1. SameButStrobe(u, s)
    BY DEF Follows, SameButStrobe, SameRows
  <1>2. ASSUME NEW k \in Pages \X Strobes PROVE StrobeAlike(K, s, u, k)
    <2>1. StrobeAlike(K, s, t, k) /\ StrobeAlike(K, t, u, k)
      BY DEF Follows
    <2> QED
      BY <2>1 DEF StrobeAlike
  <1> QED
    BY <1>1, <1>2 DEF Follows

LEMMA AlikeIsLetGo ==
  ASSUME NEW K, NEW s \in Scenes, NEW t \in Scenes, Follows(K, s, t)
  PROVE  LetGo(s, t, K)
  <1>1. SameButStrobe(t, s)
    BY DEF Follows
  <1>2. s.strobe \in [Pages \X Strobes -> Strobe]
    BY SceneFields
  <1> DEFINE u == [t EXCEPT !.strobe = s.strobe]
  <1>3. u \in Scenes /\ SameButStrobe(t, u) /\ u.strobe = s.strobe
    BY <1>2 DEF Scenes, SameButStrobe, SameRows
  <1> HIDE DEF u
  <1>4. SameButStrobe(u, s)
    BY <1>1, <1>3 DEF SameButStrobe, SameRows
  <1>5. s = u
    BY <1>3, <1>4, SameScene
  <1> QED
    BY <1>5 DEF LetGo, Follows, StrobeAlike, u

\* Scenes that are alike have the same reticles and selections.
LEMMA AlikeRows ==
  ASSUME NEW K, NEW s, NEW t, Follows(K, s, t)
  PROVE  /\ s.active = t.active /\ s.dynamics = t.dynamics /\ s.hidden = t.hidden
         /\ s.magnetic = t.magnetic /\ s.selected = t.selected /\ s.creation = t.creation
         /\ s.widget = t.widget /\ s.static = t.static /\ s.display = t.display /\ s.feedback = t.feedback
         /\ \A p : Selected(s, p) = Selected(t, p)
         /\ \A k : Attracts(s, k) <=> Attracts(t, k)
  BY DEF Follows, SameButStrobe, SameRows, Selected, Attracts

\* What is followed depends on the reticle and the lock only.
LEMMA FollowedAlike ==
  ASSUME NEW x \in Strobe, NEW y \in Strobe, x.lock = y.lock, x.visible = y.visible, NEW n
  PROVE  [x EXCEPT !.position = n] = [y EXCEPT !.position = n]
  BY DEF Strobe

LEMMA RefreshAlike ==
  ASSUME NEW K, NEW s \in Scenes, NEW t \in Scenes, Follows(K, s, t), NEW p \in Pages
  PROVE  Follows(K, RefreshSticky(s, p), RefreshSticky(t, p))
  <1> DEFINE x == RefreshSticky(s, p)
             y == RefreshSticky(t, p)
             sel == Selected(s, p)
  <1>1. /\ s.active = t.active /\ s.dynamics = t.dynamics /\ Selected(t, p) = sel
        /\ \A k : Attracts(s, k) <=> Attracts(t, k)
    BY AlikeRows
  <1>2. sel \in Pages \X Strobes /\ s.strobe[sel] \in Strobe /\ t.strobe[sel] \in Strobe
    BY <1>1, SelectedIs
  <1>9. x.strobe[sel] = StrobeAfter(s, p) /\ y.strobe[sel] = StrobeAfter(t, p)
    BY <1>1, RefreshedStrobe
  <1>3. /\ SameButStrobe(s, x) /\ SameButStrobe(t, y) /\ x \in Scenes /\ y \in Scenes
        /\ \A k \in Pages \X Strobes : k # sel => x.strobe[k] = s.strobe[k] /\ y.strobe[k] = t.strobe[k]
        /\ x.strobe[sel].visible = s.strobe[sel].visible /\ y.strobe[sel].visible = t.strobe[sel].visible
    BY <1>1, RefreshIs
  <1>4. SameButStrobe(y, x)
    BY <1>3 DEF Follows, SameButStrobe, SameRows
  <1>5. StrobeAlike(K, x, y, sel)
    <2>1. StrobeAlike(K, s, t, sel)
      BY <1>2 DEF Follows
    <2> HIDE DEF x, y, sel
    <2>2. CASE s.strobe[sel] = t.strobe[sel]
      <3>1. StrobeAfter(s, p) = StrobeAfter(t, p)
        BY <1>1, <2>2 DEF StrobeAfter, sel
      <3> QED
        BY <1>9, <3>1 DEF StrobeAlike
    <2>3. CASE s.strobe[sel] # t.strobe[sel]
      <3>1. sel \in K /\ s.strobe[sel].lock = NoReticle /\ s.strobe[sel].visible = t.strobe[sel].visible
        BY <2>1, <2>3 DEF StrobeAlike
      <3>2. x.strobe[sel] = s.strobe[sel]
        BY <1>9, <3>1 DEF StrobeAfter, sel
      <3> QED
        BY <1>3, <3>1, <3>2 DEF StrobeAlike
    <2> QED
      BY <2>2, <2>3
  <1>6. ASSUME NEW k \in Pages \X Strobes, k # sel PROVE StrobeAlike(K, x, y, k)
    <2>1. StrobeAlike(K, s, t, k) /\ x.strobe[k] = s.strobe[k] /\ y.strobe[k] = t.strobe[k]
      BY <1>3, <1>6 DEF Follows
    <2> QED
      BY <2>1 DEF StrobeAlike
  <1> QED
    BY <1>4, <1>5, <1>6 DEF Follows

\* A change that is followed by another one before the strobe is looked at again can only keep a
\* strobe that both together would have let go.
LEMMA RefreshTwice ==
  ASSUME NEW K, NEW a \in Scenes, NEW b \in Scenes, NEW z \in Scenes, NEW p \in Pages, Within(K, a),
         SameButStrobe(b, z), z.active = a.active, z.selected = a.selected, z.strobe = a.strobe,
         b.strobe = RefreshSticky(a, p).strobe
  PROVE  Follows(K, RefreshSticky(b, p), RefreshSticky(z, p))
  <1> DEFINE x == RefreshSticky(b, p)
             y == RefreshSticky(z, p)
             r == RefreshSticky(a, p)
             sel == Selected(a, p)
             lock == a.strobe[sel].lock
  <1>1. /\ b.active = a.active /\ z.active = a.active /\ b.dynamics = z.dynamics
        /\ Selected(b, p) = sel /\ Selected(z, p) = sel
        /\ \A k : Attracts(b, k) <=> Attracts(z, k)
    BY DEF SameButStrobe, SameRows, Selected, Attracts
  <1>2. /\ sel \in Pages \X Strobes /\ a.strobe[sel] \in Strobe /\ b.strobe[sel] \in Strobe
        /\ z.strobe[sel] \in Strobe
    BY <1>1, SelectedIs
  <1>3. /\ SameButStrobe(b, x) /\ SameButStrobe(z, y)
        /\ \A k \in Pages \X Strobes : k # sel => x.strobe[k] = b.strobe[k] /\ y.strobe[k] = z.strobe[k]
        /\ x.strobe[sel].visible = b.strobe[sel].visible /\ y.strobe[sel].visible = z.strobe[sel].visible
    BY <1>1, RefreshIs
  <1>4. /\ \A k \in Pages \X Strobes : k # sel => b.strobe[k] = a.strobe[k]
        /\ b.strobe[sel].visible = a.strobe[sel].visible
    BY RefreshIs
  <1>5. SameButStrobe(y, x)
    BY <1>3 DEF SameButStrobe, SameRows
  <1>9. /\ x.strobe[sel] = StrobeAfter(b, p) /\ y.strobe[sel] = StrobeAfter(z, p)
        /\ b.strobe[sel] = StrobeAfter(a, p) /\ z.strobe[sel] = a.strobe[sel]
    BY <1>1, RefreshedStrobe
  <1>10. /\ StrobeAfter(b, p) = IF p # b.active \/ b.strobe[sel].lock = NoReticle THEN b.strobe[sel]
              ELSE IF Attracts(b, <<p, b.strobe[sel].lock>>)
              THEN [b.strobe[sel] EXCEPT !.position = b.dynamics[<<p, b.strobe[sel].lock>>].position]
              ELSE [b.strobe[sel] EXCEPT !.lock = NoReticle]
    BY <1>1 DEF StrobeAfter
  <1>6. ASSUME NEW k \in Pages \X Strobes, k # sel PROVE x.strobe[k] = y.strobe[k]
    BY <1>3, <1>4, <1>6
  <1>7. StrobeAlike(K, x, y, sel)
    <2> HIDE DEF x, y, r, sel
    <2>0. /\ b.strobe[sel] = StrobeAfter(a, p) /\ y.strobe[sel] = StrobeAfter(z, p)
          /\ sel = Selected(a, p) /\ sel = Selected(z, p)
      BY <1>1, <1>9 DEF sel
    <2>1. CASE p # a.active \/ lock = NoReticle
      <3>1. b.strobe[sel] = a.strobe[sel]
        BY <2>0, <2>1 DEF StrobeAfter
      <3>2. x.strobe[sel] = b.strobe[sel] /\ y.strobe[sel] = z.strobe[sel]
        BY <1>1, <1>9, <1>10, <2>0, <2>1, <3>1 DEF StrobeAfter
      <3> QED
        BY <1>9, <3>1, <3>2 DEF StrobeAlike
    <2>2. CASE p = a.active /\ lock # NoReticle /\ ~ Attracts(a, <<p, lock>>)
      <3>1. b.strobe[sel] = [a.strobe[sel] EXCEPT !.lock = NoReticle]
        BY <2>0, <2>2 DEF StrobeAfter
      <3>2. b.strobe[sel].lock = NoReticle
        BY <1>2, <3>1 DEF Strobe
      <3>3. x.strobe[sel] = b.strobe[sel]
        BY <1>9, <1>10, <3>2
      <3>4. sel \in K
        BY <1>2, <2>2 DEF Within
      <3>5. y.strobe[sel].visible = b.strobe[sel].visible
        BY <1>3, <1>4, <1>9
      <3> QED
        BY <3>2, <3>3, <3>4, <3>5 DEF StrobeAlike
    <2>3. CASE p = a.active /\ lock # NoReticle /\ Attracts(a, <<p, lock>>)
      <3>1. b.strobe[sel] = [a.strobe[sel] EXCEPT !.position = a.dynamics[<<p, lock>>].position]
        BY <2>0, <2>3 DEF StrobeAfter
      <3>2. b.strobe[sel].lock = lock
        BY <1>2, <3>1 DEF Strobe
      <3>3. CASE Attracts(z, <<p, lock>>)
        <4>1. x.strobe[sel] = [b.strobe[sel] EXCEPT !.position = b.dynamics[<<p, lock>>].position]
          BY <1>1, <1>9, <1>10, <2>3, <3>2, <3>3
        <4>2. y.strobe[sel] = [a.strobe[sel] EXCEPT !.position = z.dynamics[<<p, lock>>].position]
          BY <1>1, <1>9, <2>0, <2>3, <3>3 DEF StrobeAfter
        <4>3. x.strobe[sel] = y.strobe[sel]
          <5> DEFINE n == z.dynamics[<<p, lock>>].position
          <5>1. b.dynamics[<<p, lock>>].position = n /\ b.strobe[sel].visible = a.strobe[sel].visible
            BY <1>1, <1>4 DEF sel
          <5>2. [b.strobe[sel] EXCEPT !.position = n] = [a.strobe[sel] EXCEPT !.position = n]
            <6> HIDE DEF n
            <6> QED
              BY <1>2, <3>2, <5>1, FollowedAlike
          <5> QED
            BY <4>1, <4>2, <5>1, <5>2
        <4> QED
          BY <4>3 DEF StrobeAlike
      <3>4. CASE ~ Attracts(z, <<p, lock>>)
        <4>1. x.strobe[sel] = [b.strobe[sel] EXCEPT !.lock = NoReticle]
          BY <1>1, <1>9, <1>10, <2>3, <3>2, <3>4
        <4>2. x.strobe[sel].lock = NoReticle /\ sel \in K
          BY <1>2, <2>3, <4>1 DEF Strobe, Within
        <4>3. x.strobe[sel].visible = y.strobe[sel].visible
          BY <1>3, <1>4, <1>9
        <4> QED
          BY <4>2, <4>3 DEF StrobeAlike
      <3> QED
        BY <3>3, <3>4
    <2> QED
      BY <2>1, <2>2, <2>3
  <1> QED
    BY <1>5, <1>6, <1>7 DEF Follows, StrobeAlike

\* Changes of the rows keep scenes alike.
LEMMA AlikeChanged ==
  ASSUME NEW K, NEW s, NEW t, Follows(K, s, t), NEW x, NEW y,
         x.strobe = s.strobe, y.strobe = t.strobe, SameButStrobe(y, x)
  PROVE  Follows(K, x, y)
  BY DEF Follows, StrobeAlike

LEMMA WithinSame ==
  ASSUME NEW K, NEW s, Within(K, s), NEW x, x.strobe = s.strobe
  PROVE  Within(K, x)
  BY DEF Within

LEMMA RefreshWithin ==
  ASSUME NEW K, NEW s \in Scenes, Within(K, s), NEW p \in Pages
  PROVE  Within(K, RefreshSticky(s, p))
  <1> DEFINE x == RefreshSticky(s, p)
             sel == Selected(s, p)
  <1>1. sel \in Pages \X Strobes /\ s.strobe[sel] \in Strobe
    BY SelectedIs
  <1>2. \A k \in Pages \X Strobes : k # sel => x.strobe[k] = s.strobe[k]
    BY RefreshIs
  <1>3. x.strobe[sel] = StrobeAfter(s, p)
    BY RefreshedStrobe
  <1> HIDE DEF x, sel
  <1>4. x.strobe[sel].lock \in {NoReticle, s.strobe[sel].lock}
    BY <1>1, <1>3 DEF StrobeAfter, Strobe, sel
  <1>5. Within(K, x)
    BY <1>1, <1>2, <1>4 DEF Within
  <1> QED
    BY <1>5 DEF x

LEMMA ActivateAlike ==
  ASSUME NEW K, NEW s \in Scenes, NEW t \in Scenes, Follows(K, s, t), NEW p \in Pages
  PROVE  Follows(K, Activated(s, p), Activated(t, p))
  <1> DEFINE x == Turned(s, p)
             y == Turned(t, p)
             Rows(u, z) == /\ z \in Scenes /\ z.strobe = u.strobe /\ SameRows(u, z) /\ z.active = p
                           /\ z.selected = u.selected
                           /\ z.widget = IF u.active = p THEN u.widget ELSE [q \in Pages |-> Released(u.widget[q])]
  <1>1. s.active = t.active /\ s.widget = t.widget
    BY AlikeRows
  <1>2. Rows(s, x) /\ Activated(s, p) = RefreshSticky(x, p)
    BY TurnedIs
  <1>3. Rows(t, y) /\ Activated(t, p) = RefreshSticky(y, p)
    BY TurnedIs
  <1> HIDE DEF x, y
  <1>4. SameButStrobe(y, x)
    BY <1>1, <1>2, <1>3 DEF SameButStrobe, SameRows, Follows
  <1>5. Follows(K, x, y)
    BY <1>2, <1>3, <1>4, AlikeChanged
  <1> QED
    BY <1>2, <1>3, <1>5, RefreshAlike

LEMMA ActivateWithin ==
  ASSUME NEW K, NEW s \in Scenes, Within(K, s), NEW p \in Pages
  PROVE  Within(K, Activated(s, p))
  <1> DEFINE x == Turned(s, p)
  <1>1. x \in Scenes /\ x.strobe = s.strobe /\ Activated(s, p) = RefreshSticky(x, p)
    BY TurnedIs
  <1> HIDE DEF x
  <1> QED
    BY <1>1, WithinSame, RefreshWithin

\* Selecting a strobe.
LEMMA SelectedAnother ==
  ASSUME NEW s \in Scenes, NEW p \in Pages, NEW v \in Strobes
  PROVE  LET x == [s EXCEPT !.selected[p] = v]
         IN x \in Scenes /\ SameRows(s, x) /\ x.strobe = s.strobe /\ x.widget = s.widget
            /\ x.active = s.active /\ x.selected = [s.selected EXCEPT ![p] = v]
  BY DEF Scenes, SameRows

LEMMA SelectAlike ==
  ASSUME NEW K, NEW s \in Scenes, NEW t \in Scenes, Follows(K, s, t), NEW p \in Pages, NEW v \in Strobes
  PROVE  Follows(K, WithStrobe(s, p, v), WithStrobe(t, p, v))
  <1> DEFINE x == [s EXCEPT !.selected[p] = v]
             y == [t EXCEPT !.selected[p] = v]
  <1>1. s.selected = t.selected
    BY AlikeRows
  <1>2. CASE s.selected[p] = v
    BY <1>1, <1>2 DEF WithStrobe
  <1>3. CASE s.selected[p] # v
    <2>1. WithStrobe(s, p, v) = RefreshSticky(x, p) /\ WithStrobe(t, p, v) = RefreshSticky(y, p)
      BY <1>1, <1>3 DEF WithStrobe
    <2>2. x \in Scenes /\ SameRows(s, x) /\ x.strobe = s.strobe /\ x.widget = s.widget
          /\ x.active = s.active /\ x.selected = [s.selected EXCEPT ![p] = v]
      BY SelectedAnother
    <2>3. y \in Scenes /\ SameRows(t, y) /\ y.strobe = t.strobe /\ y.widget = t.widget
          /\ y.active = t.active /\ y.selected = [t.selected EXCEPT ![p] = v]
      BY SelectedAnother
    <2> HIDE DEF x, y
    <2>4. SameButStrobe(y, x)
      BY <1>1, <2>2, <2>3 DEF SameButStrobe, SameRows, Follows
    <2>5. Follows(K, x, y)
      BY <2>2, <2>3, <2>4, AlikeChanged
    <2> QED
      BY <2>1, <2>2, <2>3, <2>5, RefreshAlike
  <1> QED
    BY <1>2, <1>3

LEMMA SelectWithin ==
  ASSUME NEW K, NEW s \in Scenes, Within(K, s), NEW p \in Pages, NEW v \in Strobes
  PROVE  Within(K, WithStrobe(s, p, v))
  <1> DEFINE x == [s EXCEPT !.selected[p] = v]
  <1>1. x \in Scenes /\ x.strobe = s.strobe
    BY SelectedAnother
  <1> HIDE DEF x
  <1>2. Within(K, RefreshSticky(x, p))
    BY <1>1, WithinSame, RefreshWithin
  <1> QED
    BY <1>2 DEF WithStrobe, x

\* One strobe is overwritten in both scenes.
LEMMA StrobeSetAlike ==
  ASSUME NEW K, NEW s \in Scenes, NEW t \in Scenes, Follows(K, s, t), NEW k \in Pages \X Strobes,
         NEW x \in Strobe, NEW y \in Strobe,
         x = y \/ (k \in K /\ x.lock = NoReticle /\ x.visible = y.visible)
  PROVE  Follows(K, [s EXCEPT !.strobe[k] = x], [t EXCEPT !.strobe[k] = y])
  <1> DEFINE a == [s EXCEPT !.strobe[k] = x]
             b == [t EXCEPT !.strobe[k] = y]
  <1>1. SameButStrobe(s, a) /\ a.strobe = [s.strobe EXCEPT ![k] = x]
    BY StrobeSet
  <1>2. SameButStrobe(t, b) /\ b.strobe = [t.strobe EXCEPT ![k] = y]
    BY StrobeSet
  <1>3. s.strobe \in [Pages \X Strobes -> Strobe] /\ t.strobe \in [Pages \X Strobes -> Strobe]
    BY SceneFields
  <1> HIDE DEF a, b
  <1>4. SameButStrobe(b, a)
    BY <1>1, <1>2 DEF Follows, SameButStrobe, SameRows
  <1>5. ASSUME NEW j \in Pages \X Strobes PROVE StrobeAlike(K, a, b, j)
    <2>1. StrobeAlike(K, s, t, j)
      BY DEF Follows
    <2>2. CASE j = k
      <3>1. a.strobe[j] = x /\ b.strobe[j] = y
        BY <1>1, <1>2, <1>3, <2>2
      <3> QED
        BY <2>2, <3>1 DEF StrobeAlike
    <2>3. CASE j # k
      <3>1. a.strobe[j] = s.strobe[j] /\ b.strobe[j] = t.strobe[j]
        BY <1>1, <1>2, <1>3, <2>3
      <3> QED
        BY <2>1, <3>1 DEF StrobeAlike
    <2> QED
      BY <2>2, <2>3
  <1> QED
    BY <1>4, <1>5 DEF Follows, a, b

LEMMA StrobeSetWithin ==
  ASSUME NEW K, NEW s \in Scenes, Within(K, s), NEW k \in Pages \X Strobes,
         NEW x \in Strobe, x.lock # NoReticle => k \in K
  PROVE  Within(K, [s EXCEPT !.strobe[k] = x])
  <1> DEFINE a == [s EXCEPT !.strobe[k] = x]
  <1>1. a.strobe = [s.strobe EXCEPT ![k] = x]
    BY StrobeSet
  <1>2. s.strobe \in [Pages \X Strobes -> Strobe]
    BY SceneFields
  <1> HIDE DEF a
  <1>3. Within(K, a)
    BY <1>1, <1>2 DEF Within
  <1> QED
    BY <1>3 DEF a

\* A strobe of a scene is overwritten.
StrobeIs(s, k, new) == [s EXCEPT !.strobe[k] = new]
StrobeAt(spot, vis) == [position |-> spot[1], lock |-> spot[2], visible |-> vis]

\* Where a strobe moved to x can come to rest, and where an update leaves it.
Spots(s, p, x) ==
    IF Nearest(s, p, x) = {} THEN {<<x, NoReticle>>}
    ELSE {<<s.dynamics[k].position, k[2]>> : k \in Nearest(s, p, x)}
Rests(s, k, x) == IF x = Keep THEN {<<s.strobe[k].position, s.strobe[k].lock>>} ELSE Spots(s, k[1], x)

Overwritten(s, k, new, t) ==
    /\ t \in Scenes /\ SameButStrobe(s, t)
    /\ t.strobe = [s.strobe EXCEPT ![k] = new] /\ t.strobe[k] = new

LEMMA StrobeIsFields ==
  ASSUME NEW s \in Scenes, NEW k \in Pages \X Strobes, NEW new \in Strobe
  PROVE  Overwritten(s, k, new, StrobeIs(s, k, new))
  <1>1. s.strobe \in [Pages \X Strobes -> Strobe]
    BY SceneFields
  <1> QED
    BY <1>1, StrobeSet DEF StrobeIs, Overwritten

LEMMA StrobeIsTwice ==
  ASSUME NEW s \in Scenes, NEW k \in Pages \X Strobes, NEW x \in Strobe, NEW y \in Strobe
  PROVE  StrobeIs(StrobeIs(s, k, x), k, y) = StrobeIs(s, k, y)
  <1> DEFINE a == StrobeIs(s, k, x)
             b == StrobeIs(a, k, y)
             z == StrobeIs(s, k, y)
  <1>1. a \in Scenes /\ SameButStrobe(s, a) /\ a.strobe = [s.strobe EXCEPT ![k] = x]
    BY StrobeIsFields DEF Overwritten
  <1>2. z \in Scenes /\ SameButStrobe(s, z) /\ z.strobe = [s.strobe EXCEPT ![k] = y]
    BY StrobeIsFields DEF Overwritten
  <1> HIDE DEF a, z
  <1>3. b \in Scenes /\ SameButStrobe(a, b) /\ b.strobe = [a.strobe EXCEPT ![k] = y]
    BY <1>1, StrobeIsFields DEF Overwritten
  <1> HIDE DEF b
  <1>4. s.strobe \in [Pages \X Strobes -> Strobe]
    BY SceneFields
  <1>5. b.strobe = z.strobe
    BY <1>1, <1>2, <1>3, <1>4
  <1>6. SameButStrobe(z, b)
    BY <1>1, <1>2, <1>3 DEF SameButStrobe, SameRows
  <1>7. b = z
    BY <1>2, <1>3, <1>5, <1>6, SameScene
  <1> QED
    BY <1>7 DEF a, b, z

LEMMA SpotsAlike ==
  ASSUME NEW s, NEW t, t.active = s.active, t.dynamics = s.dynamics, t.hidden = s.hidden,
         t.magnetic = s.magnetic, NEW p, NEW x
  PROVE  Spots(s, p, x) = Spots(t, p, x)
  <1>1. \A k : Attracts(t, k) <=> Attracts(s, k)
    BY AttractsAlike
  <1>2. Nearest(s, p, x) = Nearest(t, p, x)
    BY <1>1 DEF Nearest
  <1> QED
    BY <1>2 DEF Spots

LEMMA SpotTyped ==
  ASSUME NEW s \in Scenes, NEW p \in Pages, NEW x \in Positions, NEW spot \in Spots(s, p, x)
  PROVE  spot[1] \in Positions /\ spot[2] \in Reticles \cup {NoReticle} /\ spot = <<spot[1], spot[2]>>
  <1>1. CASE Nearest(s, p, x) = {}
    BY <1>1 DEF Spots
  <1>2. CASE Nearest(s, p, x) # {}
    <2>1. PICK k \in Nearest(s, p, x) : spot = <<s.dynamics[k].position, k[2]>>
      BY <1>2 DEF Spots
    <2>2. k \in DOMAIN s.dynamics
      BY <2>1 DEF Nearest
    <2>3. k \in Places /\ s.dynamics[k] \in Dynamic
      BY <2>2, SceneFields, DynamicTyped
    <2> QED
      BY <2>1, <2>3 DEF Places, Dynamic
  <1> QED
    BY <1>1, <1>2

LEMMA RestTyped ==
  ASSUME NEW s \in Scenes, NEW k \in Pages \X Strobes, NEW x \in Positions \cup {Keep}, NEW spot \in Rests(s, k, x),
         NEW vis \in BOOLEAN
  PROVE  StrobeAt(spot, vis) \in Strobe /\ spot = <<spot[1], spot[2]>>
  <1>1. CASE x = Keep
    <2>1. s.strobe[k].position \in Positions /\ s.strobe[k].lock \in Reticles \cup {NoReticle}
      BY SceneFields DEF Strobe
    <2>2. spot = <<s.strobe[k].position, s.strobe[k].lock>>
      BY <1>1 DEF Rests
    <2> QED
      BY <2>1, <2>2 DEF StrobeAt, Strobe
  <1>2. CASE x # Keep
    <2>1. k[1] \in Pages /\ spot \in Spots(s, k[1], x)
      BY <1>2 DEF Rests
    <2> QED
      BY <1>2, <2>1, SpotTyped DEF StrobeAt, Strobe
  <1> QED
    BY <1>1, <1>2

\* The strobe a move leaves.
LEMMA SameStrobe ==
  ASSUME NEW x \in Strobe, NEW y \in Strobe, x.position = y.position, x.lock = y.lock, x.visible = y.visible
  PROVE  x = y
  BY DEF Strobe

LEMMA PlacedIs ==
  ASSUME NEW s, NEW k, s.strobe[k] \in Strobe, NEW y \in Positions, NEW lock \in Reticles \cup {NoReticle}
  PROVE  Placed(s, k, y, lock) = StrobeIs(s, k, StrobeAt(<<y, lock>>, s.strobe[k].visible))
  <1> DEFINE a == [s.strobe[k] EXCEPT !.position = y, !.lock = lock]
             b == StrobeAt(<<y, lock>>, s.strobe[k].visible)
  <1>1. a \in Strobe /\ a.position = y /\ a.lock = lock /\ a.visible = s.strobe[k].visible
    BY DEF Strobe
  <1>2. b \in Strobe /\ b.position = y /\ b.lock = lock /\ b.visible = s.strobe[k].visible
    BY DEF Strobe, StrobeAt
  <1>3. a = b
    <2> HIDE DEF a, b
    <2> QED
      BY <1>1, <1>2, SameStrobe
  <1> QED
    BY <1>3 DEF Placed, StrobeIs

LEMMA MovedIs ==
  ASSUME NEW s \in Scenes, NEW p \in Pages, NEW x \in Positions
  PROVE  LET sel == Selected(s, p) vis == s.strobe[sel].visible
         IN Moved(s, p, x) = {StrobeIs(s, sel, StrobeAt(spot, vis)) : spot \in Spots(s, p, x)}
  <1> DEFINE sel == Selected(s, p)
             vis == s.strobe[sel].visible
  <1>1. s.strobe[sel] \in Strobe
    BY SelectedIs
  <1> HIDE DEF sel
  <1>2. \A y \in Positions, lock \in Reticles \cup {NoReticle} :
            Placed(s, sel, y, lock) = StrobeIs(s, sel, StrobeAt(<<y, lock>>, vis))
    BY <1>1, PlacedIs
  <1>5. \A k \in Nearest(s, p, x) : s.dynamics[k].position \in Positions /\ k[2] \in Reticles \cup {NoReticle}
    <2>1. \A k \in Nearest(s, p, x) : k \in Places /\ s.dynamics[k] \in Dynamic
      BY SceneFields, DynamicTyped DEF Nearest
    <2> QED
      BY <2>1 DEF Places, Dynamic
  <1>3. CASE Nearest(s, p, x) = {}
    <2>1. Moved(s, p, x) = {Placed(s, sel, x, NoReticle)}
      BY <1>3 DEF Moved, sel
    <2>2. Spots(s, p, x) = {<<x, NoReticle>>}
      BY <1>3 DEF Spots
    <2> QED
      BY <1>2, <2>1, <2>2 DEF sel
  <1>4. CASE Nearest(s, p, x) # {}
    <2>1. Moved(s, p, x) = {Placed(s, sel, s.dynamics[k].position, k[2]) : k \in Nearest(s, p, x)}
      BY <1>4 DEF Moved, sel
    <2>2. Spots(s, p, x) = {<<s.dynamics[k].position, k[2]>> : k \in Nearest(s, p, x)}
      BY <1>4 DEF Spots
    <2>3. Moved(s, p, x) = {StrobeIs(s, sel, StrobeAt(<<s.dynamics[k].position, k[2]>>, vis)) : k \in Nearest(s, p, x)}
      BY <1>2, <1>5, <2>1
    <2> QED
      BY <2>2, <2>3 DEF sel
  <1> QED
    BY <1>3, <1>4

\* An update of a strobe, as a choice of where it comes to rest.
Updates(s, c) ==
    LET k == <<c.page, Or(c.strobe, s.selected[c.page])>>
        r == WithStrobe(s, k[1], k[2])
    IN {StrobeIs(r, k, StrobeAt(spot, Or(c.visible, r.strobe[k].visible))) : spot \in Rests(r, k, c.position)}

LEMMA UpdateStrobeIs ==
  ASSUME NEW s \in Scenes, NEW c, WellFormed(c), c.kind = "strobe", c.page \in Pages,
         c.strobe \in Strobes \cup {Keep}
  PROVE  OnUpdateStrobe(s, c) = Updates(s, c)
  <1> DEFINE p == c.page
             v == Or(c.strobe, s.selected[p])
             k == <<p, v>>
             r == WithStrobe(s, p, v)
             vis == Or(c.visible, r.strobe[k].visible)
             new == [r.strobe[k] EXCEPT !.visible = vis]
             u == StrobeIs(r, k, new)
  <1>1. v \in Strobes
    BY SceneFields DEF Or
  <1>2. k \in Pages \X Strobes /\ k[1] = p /\ k[2] = v
    BY <1>1
  <1>3. r \in Scenes /\ r.selected = [s.selected EXCEPT ![p] = v]
    BY <1>1, WithStrobeIs
  <1> HIDE DEF r
  <1>4. Selected(r, p) = k
    BY <1>1, <1>3, SceneFields DEF Selected
  <1>5. r.strobe[k] \in Strobe
    BY <1>2, <1>3, SceneFields
  <1>6. c.visible \in BOOLEAN \cup {Keep} /\ c.position \in Positions \cup {Keep}
    BY DEF WellFormed
  <1>7. vis \in BOOLEAN
    BY <1>5, <1>6 DEF Or, Strobe
  <1>8. new \in Strobe /\ new = StrobeAt(<<r.strobe[k].position, r.strobe[k].lock>>, vis) /\ new.visible = vis
    <2> HIDE DEF vis
    <2>1. new = [position |-> r.strobe[k].position, lock |-> r.strobe[k].lock, visible |-> vis]
      BY <1>5 DEF Strobe
    <2>2. r.strobe[k].position \in Positions /\ r.strobe[k].lock \in Reticles \cup {NoReticle}
      BY <1>5 DEF Strobe
    <2> HIDE DEF new
    <2> QED
      BY <1>7, <2>1, <2>2 DEF Strobe, StrobeAt
  <1>9. u = [r EXCEPT !.strobe[Selected(r, p)].visible = Or(c.visible, @)]
    BY <1>4 DEF StrobeIs
  <1>10. OnUpdateStrobe(s, c) = IF c.position = Keep THEN {u} ELSE Moved(u, p, c.position)
    BY <1>9 DEF OnUpdateStrobe, r
  <1> HIDE DEF new, vis, k
  <1>11. /\ u \in Scenes /\ SameButStrobe(r, u) /\ u.strobe[k] = new
    <2>1. k \in Pages \X Strobes /\ r \in Scenes /\ new \in Strobe
      BY <1>2, <1>3, <1>8
    <2>2. Overwritten(r, k, new, u)
      BY <2>1, StrobeIsFields
    <2> QED
      BY <2>2 DEF Overwritten
  <1>12. Selected(u, p) = k
    BY <1>4, <1>11 DEF Selected, SameButStrobe
  <1>13. Updates(s, c) = {StrobeIs(r, k, StrobeAt(spot, vis)) : spot \in Rests(r, k, c.position)}
    BY <1>2 DEF Updates, r, k, vis
  <1>14. CASE c.position = Keep
    <2>1. Rests(r, k, c.position) = {<<r.strobe[k].position, r.strobe[k].lock>>}
      BY <1>14 DEF Rests
    <2>2. u = StrobeIs(r, k, StrobeAt(<<r.strobe[k].position, r.strobe[k].lock>>, vis))
      BY <1>8
    <2> QED
      BY <1>10, <1>13, <1>14, <2>1, <2>2
  <1>15. CASE c.position # Keep
    <2>1. Rests(r, k, c.position) = Spots(r, p, c.position)
      BY <1>2, <1>15 DEF Rests
    <2>2. Spots(u, p, c.position) = Spots(r, p, c.position)
      BY <1>11, SpotsAlike DEF SameButStrobe, SameRows
    <2>3. Moved(u, p, c.position) = {StrobeIs(u, k, StrobeAt(spot, vis)) : spot \in Spots(r, p, c.position)}
      <3> HIDE DEF u
      <3> QED
        BY <1>6, <1>8, <1>11, <1>12, <1>15, <2>2, MovedIs
    <2>4. \A spot \in Spots(r, p, c.position) : StrobeIs(u, k, StrobeAt(spot, vis)) = StrobeIs(r, k, StrobeAt(spot, vis))
      <3>1. \A spot \in Spots(r, p, c.position) : StrobeAt(spot, vis) \in Strobe
        BY <1>2, <1>3, <1>6, <1>7, <2>1, RestTyped
      <3> QED
        BY <1>2, <1>3, <1>8, <3>1, StrobeIsTwice
    <2> QED
      BY <1>10, <1>13, <1>15, <2>1, <2>3, <2>4
  <1> QED
    BY <1>14, <1>15

\* An update of a strobe where no strobe of that name exists fails in every scene.
LEMMA UpdateStrobeFollows ==
  ASSUME NEW K, NEW s \in Scenes, NEW t \in Scenes, Follows(K, s, t),
         NEW c, WellFormed(c), c.kind = "strobe", c.page \in Pages, NEW x \in OnUpdateStrobe(s, c)
  PROVE  \E y \in OnUpdateStrobe(t, c) : Follows(K, x, y)
  <1> DEFINE v == Or(c.strobe, s.selected[c.page])
             k == <<c.page, v>>
             a == WithStrobe(s, c.page, v)
             b == WithStrobe(t, c.page, v)
  <1>1. c.strobe \in Strobes \cup {Keep}
    BY DEF OnUpdateStrobe
  <1>2. s.selected = t.selected /\ v \in Strobes
    BY <1>1, SceneFields, AlikeRows DEF Or
  <1>3. k \in Pages \X Strobes /\ k[1] = c.page /\ k[2] = v
    BY <1>2
  <1> HIDE DEF v
  <1>4. a \in Scenes /\ b \in Scenes /\ Follows(K, a, b)
    BY <1>2, WithStrobeIs, SelectAlike
  <1> HIDE DEF a, b
  <1>5. /\ OnUpdateStrobe(s, c) = {StrobeIs(a, k, StrobeAt(spot, Or(c.visible, a.strobe[k].visible))) : spot \in Rests(a, k, c.position)}
        /\ OnUpdateStrobe(t, c) = {StrobeIs(b, k, StrobeAt(spot, Or(c.visible, b.strobe[k].visible))) : spot \in Rests(b, k, c.position)}
    BY <1>1, <1>2, <1>3, UpdateStrobeIs DEF Updates, a, b, v
  <1> HIDE DEF k
  <1>6. PICK spot \in Rests(a, k, c.position) : x = StrobeIs(a, k, StrobeAt(spot, Or(c.visible, a.strobe[k].visible)))
    BY <1>5
  <1>7. c.visible \in BOOLEAN \cup {Keep} /\ c.position \in Positions \cup {Keep}
    BY DEF WellFormed
  <1>8. a.strobe[k] \in Strobe /\ b.strobe[k] \in Strobe /\ StrobeAlike(K, a, b, k)
    BY <1>3, <1>4, SceneFields DEF Follows
  <1> DEFINE va == Or(c.visible, a.strobe[k].visible)
             vb == Or(c.visible, b.strobe[k].visible)
  <1>9. va \in BOOLEAN /\ vb \in BOOLEAN /\ va = vb
    BY <1>7, <1>8 DEF Or, Strobe, StrobeAlike
  <1>10. \E other \in Rests(b, k, c.position) :
            \/ other = spot
            \/ k \in K /\ spot[2] = NoReticle
    <2>1. CASE c.position = Keep
      <3> DEFINE other == <<b.strobe[k].position, b.strobe[k].lock>>
      <3>1. other \in Rests(b, k, c.position)
        BY <2>1 DEF Rests
      <3>2. spot = <<a.strobe[k].position, a.strobe[k].lock>>
        BY <1>6, <2>1 DEF Rests
      <3>3. other = spot \/ (k \in K /\ spot[2] = NoReticle)
        BY <1>8, <3>2 DEF StrobeAlike
      <3> HIDE DEF other
      <3> QED
        BY <3>1, <3>3
    <2>2. CASE c.position # Keep
      <3>1. Rests(a, k, c.position) = Rests(b, k, c.position)
        <4>1. Spots(a, k[1], c.position) = Spots(b, k[1], c.position)
          <5>1. b.active = a.active /\ b.dynamics = a.dynamics /\ b.hidden = a.hidden /\ b.magnetic = a.magnetic
            BY <1>4, AlikeRows
          <5> QED
            BY <5>1, SpotsAlike
        <4> QED
          BY <2>2, <4>1 DEF Rests
      <3> QED
        BY <1>6, <3>1
    <2> QED
      BY <2>1, <2>2
  <1>11. PICK other \in Rests(b, k, c.position) : other = spot \/ (k \in K /\ spot[2] = NoReticle)
    BY <1>10
  <1> DEFINE new == StrobeAt(spot, va)
             nex == StrobeAt(other, vb)
  <1> HIDE DEF va, vb
  <1>12. new \in Strobe /\ nex \in Strobe
    BY <1>3, <1>4, <1>6, <1>7, <1>9, <1>11, RestTyped
  <1>13. new = nex \/ (k \in K /\ new.lock = NoReticle /\ new.visible = nex.visible)
    BY <1>9, <1>11 DEF StrobeAt
  <1> HIDE DEF new, nex
  <1>14. Follows(K, StrobeIs(a, k, new), StrobeIs(b, k, nex))
    BY <1>3, <1>4, <1>12, <1>13, StrobeSetAlike DEF StrobeIs
  <1>15. StrobeIs(b, k, nex) \in OnUpdateStrobe(t, c)
    BY <1>5, <1>11 DEF nex, vb
  <1> QED
    BY <1>6, <1>14, <1>15 DEF new, va

LEMMA UpdateStrobeWithin ==
  ASSUME NEW K, NEW s \in Scenes, Within(K, s),
         NEW c, WellFormed(c), c.kind = "strobe", c.page \in Pages, NEW x \in OnUpdateStrobe(s, c),
         c.position # Keep => \A v \in Strobes : <<c.page, v>> \in K
  PROVE  Within(K, x)
  <1> DEFINE v == Or(c.strobe, s.selected[c.page])
             k == <<c.page, v>>
             a == WithStrobe(s, c.page, v)
  <1>1. c.strobe \in Strobes \cup {Keep}
    BY DEF OnUpdateStrobe
  <1>2. v \in Strobes
    BY <1>1, SceneFields DEF Or
  <1>3. k \in Pages \X Strobes /\ k[1] = c.page /\ k[2] = v
    BY <1>2
  <1> HIDE DEF v
  <1>4. a \in Scenes /\ Within(K, a)
    BY <1>2, WithStrobeIs, SelectWithin
  <1> HIDE DEF a
  <1>5. OnUpdateStrobe(s, c) = {StrobeIs(a, k, StrobeAt(spot, Or(c.visible, a.strobe[k].visible))) : spot \in Rests(a, k, c.position)}
    BY <1>1, <1>2, <1>3, UpdateStrobeIs DEF Updates, a, v
  <1>0. c.position # Keep => k \in K
    BY <1>2
  <1> HIDE DEF k
  <1>6. PICK spot \in Rests(a, k, c.position) : x = StrobeIs(a, k, StrobeAt(spot, Or(c.visible, a.strobe[k].visible)))
    BY <1>5
  <1>7. c.visible \in BOOLEAN \cup {Keep} /\ c.position \in Positions \cup {Keep}
    BY DEF WellFormed
  <1>8. a.strobe[k] \in Strobe
    BY <1>3, <1>4, SceneFields
  <1> DEFINE va == Or(c.visible, a.strobe[k].visible)
             new == StrobeAt(spot, va)
  <1>9. va \in BOOLEAN
    BY <1>7, <1>8 DEF Or, Strobe
  <1> HIDE DEF va
  <1>10. new \in Strobe /\ new.lock = spot[2]
    BY <1>3, <1>4, <1>6, <1>7, <1>9, RestTyped DEF StrobeAt
  <1>11. spot[2] # NoReticle => k \in K
    <2>1. CASE c.position = Keep
      <3>1. spot = <<a.strobe[k].position, a.strobe[k].lock>>
        BY <1>6, <2>1 DEF Rests
      <3> QED
        BY <1>3, <1>4, <3>1 DEF Within
    <2> QED
      BY <1>0, <2>1
  <1> HIDE DEF new
  <1>12. Within(K, StrobeIs(a, k, new))
    BY <1>3, <1>4, <1>10, <1>11, StrobeSetWithin DEF StrobeIs
  <1> QED
    BY <1>6, <1>12 DEF new, va

LEMMA RowsFollow ==
  ASSUME NEW K, NEW s, NEW t, Follows(K, s, t), NEW p \in Pages, NEW x \in Scenes, NEW y \in Scenes,
         x.strobe = s.strobe, y.strobe = t.strobe, SameButStrobe(y, x)
  PROVE  Follows(K, RefreshSticky(x, p), RefreshSticky(y, p))
  <1>1. Follows(K, x, y)
    BY AlikeChanged
  <1> QED
    BY <1>1, RefreshAlike

\* The reticle an upsert leaves, and the scene before its strobe is refreshed.
Before(s, c) ==
    LET k == <<c.page, c.reticle>>
    IN IF k \in DOMAIN s.dynamics THEN s.dynamics[k]
       ELSE [template |-> c.template, position |-> 0, visible |-> TRUE, creation |-> s.creation]
After(s, c) == [Before(s, c) EXCEPT !.position = Or(c.position, @), !.visible = Or(c.visible, @)]
Upserted(s, c) ==
    LET k == <<c.page, c.reticle>>
    IN [s EXCEPT !.dynamics = Over([j \in {k} |-> After(s, c)], @),
                 !.creation = IF k \in DOMAIN s.dynamics THEN @ ELSE @ + 1]
Upsertable(s, c) == c.template \in Bound[c.page] /\ Before(s, c).template = c.template

LEMMA UpsertIs ==
  ASSUME NEW s, NEW c
  PROVE  OnUpsertDynamicReticle(s, c) =
            IF Upsertable(s, c) THEN {RefreshSticky(Upserted(s, c), c.page)} ELSE {}
  BY DEF OnUpsertDynamicReticle, Upsertable, Upserted, Before, After

LEMMA AfterTyped ==
  ASSUME NEW s \in Scenes, NEW c, WellFormed(c), c.kind = "upsert", c.page \in Pages, Upsertable(s, c)
  PROVE  Before(s, c) \in Dynamic /\ After(s, c) \in Dynamic /\ <<c.page, c.reticle>> \in Places
         /\ After(s, c).template = c.template
  <1> DEFINE k == <<c.page, c.reticle>>
             fresh == [template |-> c.template, position |-> 0, visible |-> TRUE, creation |-> s.creation]
             old == Before(s, c)
  <1>1. c.template \in Bound[c.page] /\ old.template = c.template
    BY DEF Upsertable
  <1>2. DOMAIN s.dynamics \subseteq Places /\ (\A i \in DOMAIN s.dynamics : s.dynamics[i] \in Dynamic)
        /\ s.creation \in Nat \ {0}
    BY SceneFields, DynamicTyped
  <1>3. /\ c.reticle \in Reticles /\ c.position \in Positions \cup {Keep}
        /\ c.visible \in BOOLEAN \cup {Keep} /\ 0 \in Positions
    BY SceneAssumption DEF WellFormed
  <1>4. k \in Places
    BY <1>3 DEF Places
  <1>5. fresh \in Dynamic
    BY <1>1, <1>2, <1>3 DEF Dynamic, Templates
  <1>6. old \in Dynamic
    BY <1>2, <1>5 DEF Before
  <1> HIDE DEF old
  <1>7. [old EXCEPT !.position = Or(c.position, @), !.visible = Or(c.visible, @)] \in Dynamic
        /\ [old EXCEPT !.position = Or(c.position, @), !.visible = Or(c.visible, @)].template = old.template
    BY <1>3, <1>6 DEF Dynamic, Or
  <1> QED
    BY <1>1, <1>4, <1>6, <1>7 DEF After, old

LEMMA UpsertedIs ==
  ASSUME NEW s \in Scenes, NEW c, WellFormed(c), c.kind = "upsert", c.page \in Pages, Upsertable(s, c)
  PROVE  LET k == <<c.page, c.reticle>> x == Upserted(s, c)
         IN /\ x \in Scenes /\ x.strobe = s.strobe /\ x.active = s.active /\ x.selected = s.selected
            /\ x.widget = s.widget /\ x.display = s.display /\ x.static = s.static /\ x.hidden = s.hidden
            /\ x.magnetic = s.magnetic /\ x.feedback = s.feedback
            /\ x.dynamics = Over([j \in {k} |-> After(s, c)], s.dynamics)
            /\ x.creation = IF k \in DOMAIN s.dynamics THEN s.creation ELSE s.creation + 1
  <1> DEFINE k == <<c.page, c.reticle>>
             one == [j \in {k} |-> After(s, c)]
             d == Over(one, s.dynamics)
             n == IF k \in DOMAIN s.dynamics THEN s.creation ELSE s.creation + 1
  <1>1. After(s, c) \in Dynamic /\ k \in Places
    BY AfterTyped
  <1>2. d \in DynamicMaps
    <2>1. DOMAIN one \subseteq Places /\ \A i \in DOMAIN one : one[i] \in Dynamic
      BY <1>1
    <2> HIDE DEF one
    <2> QED
      BY <2>1, SceneFields, OverTyped
  <1>3. n \in Nat \ {0}
    BY SceneFields
  <1>4. Upserted(s, c) = [s EXCEPT !.dynamics = d, !.creation = n]
    BY DEF Upserted
  <1> HIDE DEF d, n
  <1>5. LET x == [s EXCEPT !.dynamics = d, !.creation = n]
        IN /\ x \in Scenes /\ x.strobe = s.strobe /\ x.active = s.active /\ x.selected = s.selected
           /\ x.widget = s.widget /\ x.display = s.display /\ x.static = s.static /\ x.hidden = s.hidden
           /\ x.magnetic = s.magnetic /\ x.feedback = s.feedback
           /\ x.dynamics = d /\ x.creation = n
    BY <1>2, <1>3 DEF Scenes
  <1> QED
    BY <1>4, <1>5 DEF d, n

LEMMA UpsertFollows ==
  ASSUME NEW K, NEW s \in Scenes, NEW t \in Scenes, Follows(K, s, t),
         NEW c, WellFormed(c), c.kind = "upsert", c.page \in Pages, NEW x \in OnUpsertDynamicReticle(s, c)
  PROVE  \E y \in OnUpsertDynamicReticle(t, c) : Follows(K, x, y)
  <1> DEFINE a == Upserted(s, c)
             b == Upserted(t, c)
  <1>1. Upsertable(s, c) /\ x = RefreshSticky(a, c.page)
    BY UpsertIs
  <1>2. s.dynamics = t.dynamics /\ s.creation = t.creation /\ SameButStrobe(t, s)
    BY AlikeRows DEF Follows
  <1>3. Before(s, c) = Before(t, c)
    BY <1>2 DEF Before
  <1>4. Upsertable(t, c) /\ After(s, c) = After(t, c)
    BY <1>1, <1>3 DEF Upsertable, After
  <1> DEFINE k == <<c.page, c.reticle>>
             d == Over([j \in {k} |-> After(s, c)], s.dynamics)
             n == IF k \in DOMAIN s.dynamics THEN s.creation ELSE s.creation + 1
             Rows(u, z) ==
               /\ z \in Scenes /\ z.strobe = u.strobe /\ z.active = u.active /\ z.selected = u.selected
               /\ z.widget = u.widget /\ z.display = u.display /\ z.static = u.static /\ z.hidden = u.hidden
               /\ z.magnetic = u.magnetic /\ z.feedback = u.feedback /\ z.dynamics = d /\ z.creation = n
  <1>5. Rows(s, a)
    BY <1>1, UpsertedIs
  <1>6. Rows(t, b)
    BY <1>2, <1>4, UpsertedIs
  <1>7. b \in OnUpsertDynamicReticle(t, c) \/ RefreshSticky(b, c.page) \in OnUpsertDynamicReticle(t, c)
    BY <1>4, UpsertIs
  <1>8. RefreshSticky(b, c.page) \in OnUpsertDynamicReticle(t, c)
    BY <1>4, UpsertIs
  <1> HIDE DEF a, b, d, n
  <1>9. SameButStrobe(b, a)
    BY <1>2, <1>5, <1>6 DEF SameButStrobe, SameRows
  <1>10. Follows(K, RefreshSticky(a, c.page), RefreshSticky(b, c.page))
    BY <1>5, <1>6, <1>9, RowsFollow
  <1> QED
    BY <1>1, <1>8, <1>10

LEMMA UpsertWithin ==
  ASSUME NEW K, NEW s \in Scenes, Within(K, s),
         NEW c, WellFormed(c), c.kind = "upsert", c.page \in Pages, NEW x \in OnUpsertDynamicReticle(s, c)
  PROVE  Within(K, x)
  <1> DEFINE a == Upserted(s, c)
  <1>1. Upsertable(s, c) /\ x = RefreshSticky(a, c.page)
    BY UpsertIs
  <1>2. a \in Scenes /\ a.strobe = s.strobe
    BY <1>1, UpsertedIs
  <1> HIDE DEF a
  <1> QED
    BY <1>1, <1>2, WithinSame, RefreshWithin

\* Reticles that are removed, hidden or lose their magnet.
Without(s, k) == [s EXCEPT !.dynamics = [i \in DOMAIN @ \ {k} |-> @[i]]]
Hiding(s, set) == [s EXCEPT !.hidden = set]
Drawing(s, set) == [s EXCEPT !.magnetic = set]

LEMMA WithoutIs ==
  ASSUME NEW s \in Scenes, NEW k
  PROVE  LET x == Without(s, k)
         IN /\ x \in Scenes /\ x.strobe = s.strobe /\ x.active = s.active /\ x.selected = s.selected
            /\ x.widget = s.widget /\ x.display = s.display /\ x.static = s.static /\ x.hidden = s.hidden
            /\ x.magnetic = s.magnetic /\ x.feedback = s.feedback /\ x.creation = s.creation
            /\ x.dynamics = [i \in DOMAIN s.dynamics \ {k} |-> s.dynamics[i]]
  <1> DEFINE d == [i \in DOMAIN s.dynamics \ {k} |-> s.dynamics[i]]
  <1>1. DOMAIN s.dynamics \subseteq Places /\ \A i \in DOMAIN s.dynamics : s.dynamics[i] \in Dynamic
    BY SceneFields, DynamicTyped
  <1>2. d \in [DOMAIN s.dynamics \ {k} -> Dynamic] /\ DOMAIN s.dynamics \ {k} \in SUBSET Places
    BY <1>1
  <1>3. Without(s, k) = [s EXCEPT !.dynamics = d]
    BY DEF Without
  <1> HIDE DEF d
  <1>4. d \in DynamicMaps
    BY <1>2 DEF DynamicMaps
  <1>5. LET x == [s EXCEPT !.dynamics = d]
        IN /\ x \in Scenes /\ x.strobe = s.strobe /\ x.active = s.active /\ x.selected = s.selected
           /\ x.widget = s.widget /\ x.display = s.display /\ x.static = s.static /\ x.hidden = s.hidden
           /\ x.magnetic = s.magnetic /\ x.feedback = s.feedback /\ x.creation = s.creation
           /\ x.dynamics = d
    BY <1>4 DEF Scenes
  <1> QED
    BY <1>3, <1>5 DEF d

LEMMA HidingIs ==
  ASSUME NEW s \in Scenes, NEW set \in SUBSET Overrides
  PROVE  LET x == Hiding(s, set)
         IN /\ x \in Scenes /\ x.strobe = s.strobe /\ x.active = s.active /\ x.selected = s.selected
            /\ x.widget = s.widget /\ x.display = s.display /\ x.static = s.static /\ x.hidden = set
            /\ x.magnetic = s.magnetic /\ x.feedback = s.feedback /\ x.creation = s.creation
            /\ x.dynamics = s.dynamics
  BY DEF Scenes, Hiding

LEMMA DrawingIs ==
  ASSUME NEW s \in Scenes, NEW set \in SUBSET Overrides
  PROVE  LET x == Drawing(s, set)
         IN /\ x \in Scenes /\ x.strobe = s.strobe /\ x.active = s.active /\ x.selected = s.selected
            /\ x.widget = s.widget /\ x.display = s.display /\ x.static = s.static /\ x.hidden = s.hidden
            /\ x.magnetic = set /\ x.feedback = s.feedback /\ x.creation = s.creation
            /\ x.dynamics = s.dynamics
  BY DEF Scenes, Drawing

LEMMA RemoveFollows ==
  ASSUME NEW K, NEW s \in Scenes, NEW t \in Scenes, Follows(K, s, t),
         NEW c, c.page \in Pages, NEW x \in OnRemoveDynamicReticle(s, c)
  PROVE  \E y \in OnRemoveDynamicReticle(t, c) : Follows(K, x, y)
  <1> DEFINE k == <<c.page, c.reticle>>
             a == Without(s, k)
             b == Without(t, k)
  <1>1. k \in DOMAIN s.dynamics /\ x = RefreshSticky(a, c.page)
    BY DEF OnRemoveDynamicReticle, Without
  <1>2. s.dynamics = t.dynamics /\ SameButStrobe(t, s)
    BY AlikeRows DEF Follows
  <1>3. RefreshSticky(b, c.page) \in OnRemoveDynamicReticle(t, c)
    <2>1. k \in DOMAIN t.dynamics \cap {k}
      BY <1>1, <1>2
    <2>2. OnRemoveDynamicReticle(t, c) = {RefreshSticky(b, c.page) : j \in DOMAIN t.dynamics \cap {k}}
      BY DEF OnRemoveDynamicReticle, Without
    <2> HIDE DEF b, k
    <2> QED
      BY <2>1, <2>2
  <1> HIDE DEF k
  <1>4. /\ a \in Scenes /\ b \in Scenes /\ a.strobe = s.strobe /\ b.strobe = t.strobe
        /\ SameButStrobe(b, a)
    <2> DEFINE Less(u, z) ==
                 /\ z \in Scenes /\ z.strobe = u.strobe /\ z.active = u.active /\ z.selected = u.selected
                 /\ z.widget = u.widget /\ z.display = u.display /\ z.static = u.static /\ z.hidden = u.hidden
                 /\ z.magnetic = u.magnetic /\ z.feedback = u.feedback /\ z.creation = u.creation
                 /\ z.dynamics = [i \in DOMAIN u.dynamics \ {k} |-> u.dynamics[i]]
    <2>1. Less(s, a)
      BY WithoutIs
    <2>2. Less(t, b)
      BY WithoutIs
    <2> HIDE DEF a, b
    <2> QED
      BY <1>2, <2>1, <2>2 DEF SameButStrobe, SameRows
  <1> HIDE DEF a, b
  <1>5. Follows(K, RefreshSticky(a, c.page), RefreshSticky(b, c.page))
    BY <1>4, RowsFollow
  <1> QED
    BY <1>1, <1>3, <1>5

LEMMA RemoveWithin ==
  ASSUME NEW K, NEW s \in Scenes, Within(K, s), NEW c, c.page \in Pages, NEW x \in OnRemoveDynamicReticle(s, c)
  PROVE  Within(K, x)
  <1> DEFINE k == <<c.page, c.reticle>>
             a == Without(s, k)
  <1>1. x = RefreshSticky(a, c.page)
    BY DEF OnRemoveDynamicReticle, Without
  <1>2. a \in Scenes /\ a.strobe = s.strobe
    BY WithoutIs
  <1> HIDE DEF a
  <1> QED
    BY <1>1, <1>2, WithinSame, RefreshWithin

\* The overrides a command sets.
Overridden(set, c, in) == Marked(set, <<c.page, c.template>>, in)

LEMMA OverriddenTyped ==
  ASSUME NEW set \in SUBSET Overrides, NEW c, c.page \in Pages, c.template \in Bound[c.page], NEW in
  PROVE  Overridden(set, c, in) \in SUBSET Overrides
  <1>1. <<c.page, c.template>> \in Overrides
    BY DEF Overrides, Templates
  <1> QED
    BY <1>1, MarkedTyped DEF Overridden

LEMMA VisibilityIs ==
  ASSUME NEW s, NEW c
  PROVE  OnSetDynamicReticleSetVisibility(s, c) =
            IF c.template \in Bound[c.page]
            THEN {RefreshSticky(Hiding(s, Overridden(s.hidden, c, ~c.on)), c.page)} ELSE {}
  BY DEF OnSetDynamicReticleSetVisibility, Hiding, Overridden

LEMMA MagnetIs ==
  ASSUME NEW s, NEW c
  PROVE  OnSetDynamicReticleSetStrobeMagnetEnabled(s, c) =
            IF c.template \in Bound[c.page]
            THEN {RefreshSticky(Drawing(s, Overridden(s.magnetic, c, c.on)), c.page)} ELSE {}
  BY DEF OnSetDynamicReticleSetStrobeMagnetEnabled, Drawing, Overridden

LEMMA VisibilityFollows ==
  ASSUME NEW K, NEW s \in Scenes, NEW t \in Scenes, Follows(K, s, t),
         NEW c, c.page \in Pages, NEW x \in OnSetDynamicReticleSetVisibility(s, c)
  PROVE  \E y \in OnSetDynamicReticleSetVisibility(t, c) : Follows(K, x, y)
  <1> DEFINE set == Overridden(s.hidden, c, ~c.on)
             a == Hiding(s, set)
             b == Hiding(t, set)
  <1>1. c.template \in Bound[c.page] /\ x = RefreshSticky(a, c.page)
    BY VisibilityIs
  <1>2. s.hidden = t.hidden /\ SameButStrobe(t, s)
    BY AlikeRows DEF Follows
  <1>3. RefreshSticky(b, c.page) \in OnSetDynamicReticleSetVisibility(t, c)
    BY <1>1, <1>2, VisibilityIs
  <1>4. set \in SUBSET Overrides
    BY <1>1, SceneFields, OverriddenTyped
  <1> HIDE DEF set
  <1>5. /\ a \in Scenes /\ b \in Scenes /\ a.strobe = s.strobe /\ b.strobe = t.strobe
        /\ SameButStrobe(b, a)
    BY <1>2, <1>4, HidingIs DEF SameButStrobe, SameRows
  <1> HIDE DEF a, b
  <1>6. Follows(K, RefreshSticky(a, c.page), RefreshSticky(b, c.page))
    BY <1>5, RowsFollow
  <1> QED
    BY <1>1, <1>3, <1>6

LEMMA VisibilityWithin ==
  ASSUME NEW K, NEW s \in Scenes, Within(K, s), NEW c, c.page \in Pages,
         NEW x \in OnSetDynamicReticleSetVisibility(s, c)
  PROVE  Within(K, x)
  <1> DEFINE set == Overridden(s.hidden, c, ~c.on)
             a == Hiding(s, set)
  <1>1. c.template \in Bound[c.page] /\ x = RefreshSticky(a, c.page)
    BY VisibilityIs
  <1>2. set \in SUBSET Overrides
    BY <1>1, SceneFields, OverriddenTyped
  <1> HIDE DEF set
  <1>3. a \in Scenes /\ a.strobe = s.strobe
    BY <1>2, HidingIs
  <1> HIDE DEF a
  <1> QED
    BY <1>1, <1>3, WithinSame, RefreshWithin

LEMMA MagnetFollows ==
  ASSUME NEW K, NEW s \in Scenes, NEW t \in Scenes, Follows(K, s, t),
         NEW c, c.page \in Pages, NEW x \in OnSetDynamicReticleSetStrobeMagnetEnabled(s, c)
  PROVE  \E y \in OnSetDynamicReticleSetStrobeMagnetEnabled(t, c) : Follows(K, x, y)
  <1> DEFINE set == Overridden(s.magnetic, c, c.on)
             a == Drawing(s, set)
             b == Drawing(t, set)
  <1>1. c.template \in Bound[c.page] /\ x = RefreshSticky(a, c.page)
    BY MagnetIs
  <1>2. s.magnetic = t.magnetic /\ SameButStrobe(t, s)
    BY AlikeRows DEF Follows
  <1>3. RefreshSticky(b, c.page) \in OnSetDynamicReticleSetStrobeMagnetEnabled(t, c)
    BY <1>1, <1>2, MagnetIs
  <1>4. set \in SUBSET Overrides
    BY <1>1, SceneFields, OverriddenTyped
  <1> HIDE DEF set
  <1>5. /\ a \in Scenes /\ b \in Scenes /\ a.strobe = s.strobe /\ b.strobe = t.strobe
        /\ SameButStrobe(b, a)
    BY <1>2, <1>4, DrawingIs DEF SameButStrobe, SameRows
  <1> HIDE DEF a, b
  <1>6. Follows(K, RefreshSticky(a, c.page), RefreshSticky(b, c.page))
    BY <1>5, RowsFollow
  <1> QED
    BY <1>1, <1>3, <1>6

LEMMA MagnetWithin ==
  ASSUME NEW K, NEW s \in Scenes, Within(K, s), NEW c, c.page \in Pages,
         NEW x \in OnSetDynamicReticleSetStrobeMagnetEnabled(s, c)
  PROVE  Within(K, x)
  <1> DEFINE set == Overridden(s.magnetic, c, c.on)
             a == Drawing(s, set)
  <1>1. c.template \in Bound[c.page] /\ x = RefreshSticky(a, c.page)
    BY MagnetIs
  <1>2. set \in SUBSET Overrides
    BY <1>1, SceneFields, OverriddenTyped
  <1> HIDE DEF set
  <1>3. a \in Scenes /\ a.strobe = s.strobe
    BY <1>2, DrawingIs
  <1> HIDE DEF a
  <1> QED
    BY <1>1, <1>3, WithinSame, RefreshWithin

\* Views, displays and widgets do not look at the strobes.
LEMMA ViewFollows ==
  ASSUME NEW K, NEW s \in Scenes, NEW t \in Scenes, Follows(K, s, t),
         NEW p, NEW value
  PROVE  Follows(K, [s EXCEPT !.static[p] = value], [t EXCEPT !.static[p] = value])
  <1> DEFINE a == [s EXCEPT !.static[p] = value]
             b == [t EXCEPT !.static[p] = value]
  <1>1. SameButStrobe(t, s)
    BY DEF Follows
  <1>2. a.strobe = s.strobe /\ b.strobe = t.strobe /\ SameButStrobe(b, a)
    BY <1>1 DEF SameButStrobe, SameRows, Scenes
  <1> HIDE DEF a, b
  <1>3. Follows(K, a, b)
    BY <1>2, AlikeChanged
  <1> QED
    BY <1>3 DEF a, b

LEMMA DisplayFollows ==
  ASSUME NEW K, NEW s \in Scenes, NEW t \in Scenes, Follows(K, s, t), NEW value
  PROVE  Follows(K, [s EXCEPT !.display = value], [t EXCEPT !.display = value])
  <1> DEFINE a == [s EXCEPT !.display = value]
             b == [t EXCEPT !.display = value]
  <1>1. SameButStrobe(t, s)
    BY DEF Follows
  <1>2. a.strobe = s.strobe /\ b.strobe = t.strobe /\ SameButStrobe(b, a)
    BY <1>1 DEF SameButStrobe, SameRows, Scenes
  <1> HIDE DEF a, b
  <1>3. Follows(K, a, b)
    BY <1>2, AlikeChanged
  <1> QED
    BY <1>3 DEF a, b

LEMMA WidgetSetFollows ==
  ASSUME NEW K, NEW s \in Scenes, NEW t \in Scenes, Follows(K, s, t), NEW p, NEW new
  PROVE  Follows(K, [s EXCEPT !.widget[p] = new], [t EXCEPT !.widget[p] = new])
  <1> DEFINE a == [s EXCEPT !.widget[p] = new]
             b == [t EXCEPT !.widget[p] = new]
  <1>1. SameButStrobe(t, s)
    BY DEF Follows
  <1>2. a.strobe = s.strobe /\ b.strobe = t.strobe /\ SameButStrobe(b, a)
    BY <1>1 DEF SameButStrobe, SameRows, Scenes
  <1> HIDE DEF a, b
  <1>3. Follows(K, a, b)
    BY <1>2, AlikeChanged
  <1> QED
    BY <1>3 DEF a, b

LEMMA WidgetFollows ==
  ASSUME NEW K, NEW s \in Scenes, NEW t \in Scenes, Follows(K, s, t), NEW c, NEW x \in OnUpdateWidget(s, c)
  PROVE  \E y \in OnUpdateWidget(t, c) : Follows(K, x, y)
  <1> DEFINE w == s.widget[c.page]
             told == [w EXCEPT !.value = Or(c.value, @), !.available = Or(c.available, @),
                               !.pending = @ /\ c.request = Keep]
             new == IF told.available THEN told ELSE Released(told)
  <1>1. s.widget = t.widget
    BY AlikeRows
  <1>2. x = [s EXCEPT !.widget[c.page] = new]
    BY DEF OnUpdateWidget
  <1>3. [t EXCEPT !.widget[c.page] = new] \in OnUpdateWidget(t, c)
    BY <1>1 DEF OnUpdateWidget
  <1> HIDE DEF new
  <1> QED
    BY <1>2, <1>3, WidgetSetFollows

LEMMA WidgetStrobes ==
  ASSUME NEW s \in Scenes, NEW c, NEW x \in OnUpdateWidget(s, c)
  PROVE  x.strobe = s.strobe
  <1>1. PICK new : x = [s EXCEPT !.widget[c.page] = new]
    BY DEF OnUpdateWidget
  <1> QED
    BY <1>1 DEF Scenes

LEMMA LoadedWithin ==
  ASSUME NEW K
  PROVE  Within(K, Loaded)
  <1>1. \A k \in Pages \X Strobes : Loaded.strobe[k].lock = NoReticle
    BY DEF Loaded
  <1> QED
    BY <1>1 DEF Within

\* A scene that follows another follows it through every command.
LEMMA DispatchFollows ==
  ASSUME NEW K, NEW s \in Scenes, NEW t \in Scenes, Follows(K, s, t),
         NEW c, WellFormed(c), NEW x \in Dispatch(s, c)
  PROVE  \E y \in Dispatch(t, c) : Follows(K, x, y)
  <1>1. OnKnownPage(c)
    BY DEF Dispatch
  <1>2. c.kind \notin {"display", "reset"} => c.page \in Pages
    BY <1>1 DEF OnKnownPage
  <1>3. CASE c.kind = "page"
    <2>1. x = Activated(s, c.page) /\ Dispatch(t, c) = {Activated(t, c.page)}
      BY <1>1, <1>3 DEF Dispatch, OnActivatePage
    <2> QED
      BY <1>2, <1>3, <2>1, ActivateAlike
  <1>4. CASE c.kind = "view"
    <2>1. x = [s EXCEPT !.static[c.page] = c.value] /\ Dispatch(t, c) = {[t EXCEPT !.static[c.page] = c.value]}
      BY <1>1, <1>4 DEF Dispatch, OnSetPageView
    <2> QED
      BY <2>1, ViewFollows
  <1>5. CASE c.kind = "display"
    <2>1. x = [s EXCEPT !.display = c.value] /\ Dispatch(t, c) = {[t EXCEPT !.display = c.value]}
      BY <1>1, <1>5 DEF Dispatch, OnUpdateWindowDisplay
    <2> QED
      BY <2>1, DisplayFollows
  <1>6. CASE c.kind = "strobe"
    BY <1>1, <1>2, <1>6, UpdateStrobeFollows DEF Dispatch
  <1>7. CASE c.kind = "upsert"
    BY <1>1, <1>2, <1>7, UpsertFollows DEF Dispatch
  <1>8. CASE c.kind = "remove"
    BY <1>1, <1>2, <1>8, RemoveFollows DEF Dispatch
  <1>9. CASE c.kind = "visibility"
    BY <1>1, <1>2, <1>9, VisibilityFollows DEF Dispatch
  <1>10. CASE c.kind = "magnet"
    BY <1>1, <1>2, <1>10, MagnetFollows DEF Dispatch
  <1>11. CASE c.kind = "widget"
    BY <1>1, <1>11, WidgetFollows DEF Dispatch
  <1>12. CASE c.kind = "reset"
    BY <1>1, <1>12, AlikeSelf DEF Dispatch, OnResetWindow
  <1> QED
    BY <1>3, <1>4, <1>5, <1>6, <1>7, <1>8, <1>9, <1>10, <1>11, <1>12 DEF WellFormed, Fields

\* K has every strobe a command can lock.
Covers(K, c) ==
    c.kind = "strobe" /\ c.position # Keep => \A v \in Strobes : c.page \in Pages => <<c.page, v>> \in K

LEMMA DispatchWithin ==
  ASSUME NEW K, NEW s \in Scenes, Within(K, s), NEW c, WellFormed(c), Covers(K, c), NEW x \in Dispatch(s, c)
  PROVE  Within(K, x)
  <1>1. OnKnownPage(c)
    BY DEF Dispatch
  <1>2. c.kind \notin {"display", "reset"} => c.page \in Pages
    BY <1>1 DEF OnKnownPage
  <1>3. CASE c.kind = "page"
    BY <1>1, <1>2, <1>3, ActivateWithin DEF Dispatch, OnActivatePage
  <1>4. CASE c.kind \in {"view", "display", "widget"}
    <2>1. x.strobe = s.strobe
      <3>1. CASE c.kind = "view"
        BY <1>1, <3>1 DEF Dispatch, OnSetPageView, Scenes
      <3>2. CASE c.kind = "display"
        BY <1>1, <3>2 DEF Dispatch, OnUpdateWindowDisplay, Scenes
      <3>3. CASE c.kind = "widget"
        BY <1>1, <3>3, WidgetStrobes DEF Dispatch
      <3> QED
        BY <1>4, <3>1, <3>2, <3>3
    <2> QED
      BY <2>1, WithinSame
  <1>6. CASE c.kind = "strobe"
    <2>1. x \in OnUpdateStrobe(s, c)
      BY <1>1, <1>6 DEF Dispatch
    <2>2. c.position # Keep => \A v \in Strobes : <<c.page, v>> \in K
      BY <1>2, <1>6 DEF Covers
    <2> QED
      BY <1>2, <1>6, <2>1, <2>2, UpdateStrobeWithin
  <1>7. CASE c.kind = "upsert"
    BY <1>1, <1>2, <1>7, UpsertWithin DEF Dispatch
  <1>8. CASE c.kind = "remove"
    BY <1>1, <1>2, <1>8, RemoveWithin DEF Dispatch
  <1>9. CASE c.kind = "visibility"
    BY <1>1, <1>2, <1>9, VisibilityWithin DEF Dispatch
  <1>10. CASE c.kind = "magnet"
    BY <1>1, <1>2, <1>10, MagnetWithin DEF Dispatch
  <1>12. CASE c.kind = "reset"
    BY <1>1, <1>12, LoadedWithin DEF Dispatch, OnResetWindow
  <1> QED
    BY <1>3, <1>4, <1>6, <1>7, <1>8, <1>9, <1>10, <1>12 DEF WellFormed, Fields

\* The command that two neighbours are merged to.
LEMMA MergedIs ==
  ASSUME NEW c, WellFormed(c), NEW d, WellFormed(d), SameKey(c, d), NEW m, m = Merged(c, d)
  PROVE  /\ m.kind = c.kind /\ d.kind = c.kind
         /\ c.kind \in {"view", "display", "strobe", "upsert", "visibility", "magnet"}
         /\ DOMAIN m = DOMAIN c /\ DOMAIN d = DOMAIN c
         /\ \A field \in DOMAIN c : m[field] = IF d[field] = Keep THEN c[field] ELSE d[field]
         /\ c.kind # "display" => m.page = c.page /\ d.page = c.page
         /\ c.kind = "strobe" => m.strobe = c.strobe /\ d.strobe = c.strobe
         /\ c.kind = "upsert" => m.reticle = c.reticle /\ d.reticle = c.reticle
         /\ c.kind \in {"upsert", "visibility", "magnet"} => m.template = c.template /\ d.template = c.template
  <1>1. d.kind = c.kind /\ c.kind \in DOMAIN Fields /\ c.kind \notin {"page", "remove", "widget", "reset"}
    BY DEF SameKey, WellFormed
  <1>2. c.kind \in {"view", "display", "strobe", "upsert", "visibility", "magnet"}
    BY <1>1 DEF Fields
  <1>3. /\ DOMAIN c = {"kind"} \cup Fields[c.kind] /\ DOMAIN d = {"kind"} \cup Fields[c.kind]
    BY <1>1 DEF WellFormed
  <1>4. DOMAIN m = DOMAIN c /\ \A field \in DOMAIN c : m[field] = IF d[field] = Keep THEN c[field] ELSE d[field]
    BY DEF Merged
  <1>5. \A field \in {"kind", "page", "strobe", "reticle", "template"} \cap DOMAIN c :
            d[field] = c[field] /\ m[field] = c[field]
    BY <1>1, <1>4 DEF SameKey
  <1>6. /\ "kind" \in DOMAIN c
        /\ c.kind # "display" => "page" \in DOMAIN c
        /\ c.kind = "strobe" => "strobe" \in DOMAIN c
        /\ c.kind = "upsert" => "reticle" \in DOMAIN c
        /\ c.kind \in {"upsert", "visibility", "magnet"} => "template" \in DOMAIN c
    BY <1>2, <1>3 DEF Fields
  <1> QED
    BY <1>1, <1>2, <1>3, <1>4, <1>5, <1>6

LEMMA MergedValues ==
  ASSUME NEW c, WellFormed(c), NEW d, WellFormed(d), SameKey(c, d), NEW m, m = Merged(c, d)
  PROVE  /\ c.kind \in {"view", "display"} => m.value = d.value /\ d.value \in Values
         /\ c.kind \in {"visibility", "magnet"} => m.on = d.on /\ d.on \in BOOLEAN
         /\ c.kind \in {"strobe", "upsert"} =>
               /\ m.visible = Or(d.visible, c.visible) /\ m.position = Or(d.position, c.position)
               /\ {c.visible, d.visible, m.visible} \subseteq BOOLEAN \cup {Keep}
               /\ {c.position, d.position, m.position} \subseteq Positions \cup {Keep}
  <1>1. /\ d.kind = c.kind /\ DOMAIN c = {"kind"} \cup Fields[c.kind]
        /\ \A field \in DOMAIN c : m[field] = IF d[field] = Keep THEN c[field] ELSE d[field]
    BY MergedIs DEF WellFormed
  <1>2. Keep \notin Values /\ Keep \notin BOOLEAN
    BY SceneAssumption
  <1>3. c.kind \in {"view", "display"} => m.value = d.value /\ d.value \in Values
    <2>1. SUFFICES ASSUME c.kind \in {"view", "display"} PROVE m.value = d.value /\ d.value \in Values
      OBVIOUS
    <2>2. "value" \in DOMAIN c
      BY <1>1, <2>1 DEF Fields
    <2>3. d.value \in Values
      BY <1>1, <2>1 DEF WellFormed
    <2> QED
      BY <1>1, <1>2, <2>2, <2>3
  <1>4. c.kind \in {"visibility", "magnet"} => m.on = d.on /\ d.on \in BOOLEAN
    <2>1. SUFFICES ASSUME c.kind \in {"visibility", "magnet"} PROVE m.on = d.on /\ d.on \in BOOLEAN
      OBVIOUS
    <2>2. "on" \in DOMAIN c
      BY <1>1, <2>1 DEF Fields
    <2>3. d.on \in BOOLEAN
      BY <1>1, <2>1 DEF WellFormed
    <2>4. d.on # Keep
      BY <1>2, <2>3
    <2> QED
      BY <1>1, <2>2, <2>3, <2>4
  <1>5. ASSUME c.kind \in {"strobe", "upsert"}
        PROVE  /\ m.visible = Or(d.visible, c.visible) /\ m.position = Or(d.position, c.position)
               /\ {c.visible, d.visible, m.visible} \subseteq BOOLEAN \cup {Keep}
               /\ {c.position, d.position, m.position} \subseteq Positions \cup {Keep}
    <2>2. "visible" \in DOMAIN c /\ "position" \in DOMAIN c
      BY <1>1, <1>5 DEF Fields
    <2>3. m.visible = Or(d.visible, c.visible) /\ m.position = Or(d.position, c.position)
      BY <1>1, <2>2 DEF Or
    <2>4. {c.visible, d.visible} \subseteq BOOLEAN \cup {Keep}
          /\ {c.position, d.position} \subseteq Positions \cup {Keep}
      BY <1>1, <1>5 DEF WellFormed
    <2> QED
      BY <2>3, <2>4 DEF Or
  <1> QED
    BY <1>3, <1>4, <1>5

LEMMA MergedWellFormed ==
  ASSUME NEW c, WellFormed(c), NEW d, WellFormed(d), SameKey(c, d)
  PROVE  WellFormed(Merged(c, d))
  <1> DEFINE m == Merged(c, d)
  <1>1. /\ m.kind = c.kind /\ DOMAIN m = DOMAIN c
        /\ c.kind \in {"view", "display", "strobe", "upsert", "visibility", "magnet"}
        /\ c.kind = "upsert" => m.reticle = c.reticle
    BY MergedIs
  <1>2. /\ c.kind \in {"view", "display"} => m.value \in Values
        /\ c.kind \in {"visibility", "magnet"} => m.on \in BOOLEAN
        /\ c.kind \in {"strobe", "upsert"} =>
              /\ m.visible \in BOOLEAN \cup {Keep}
              /\ m.position \in Positions \cup {Keep}
    <2> HIDE DEF m
    <2>1. m = Merged(c, d)
      BY DEF m
    <2>2. /\ c.kind \in {"view", "display"} => m.value = d.value /\ d.value \in Values
          /\ c.kind \in {"visibility", "magnet"} => m.on = d.on /\ d.on \in BOOLEAN
          /\ c.kind \in {"strobe", "upsert"} =>
               /\ m.visible \in BOOLEAN \cup {Keep} /\ m.position \in Positions \cup {Keep}
      BY <2>1, MergedValues
    <2> QED
      BY <2>2
  <1>3. c.kind \in DOMAIN Fields /\ DOMAIN c = {"kind"} \cup Fields[c.kind]
        /\ (c.kind = "upsert" => c.reticle \in Reticles)
    BY DEF WellFormed
  <1> HIDE DEF m
  <1>4. WellFormed(m)
    BY <1>1, <1>2, <1>3 DEF WellFormed
  <1> QED
    BY <1>4 DEF m

LEMMA MergedCovered ==
  ASSUME NEW K, NEW c, WellFormed(c), Covers(K, c), NEW d, WellFormed(d), Covers(K, d), SameKey(c, d)
  PROVE  Covers(K, Merged(c, d))
  <1> DEFINE m == Merged(c, d)
  <1>1. m.kind = c.kind /\ d.kind = c.kind /\ (c.kind # "display" => m.page = c.page /\ d.page = c.page)
    BY MergedIs
  <1>2. c.kind = "strobe" => m.position = Or(d.position, c.position)
    <2> HIDE DEF m
    <2>1. m = Merged(c, d)
      BY DEF m
    <2> QED
      BY <2>1, MergedValues
  <1> HIDE DEF m
  <1>3. Covers(K, m)
    BY <1>1, <1>2 DEF Covers, Or
  <1> QED
    BY <1>3 DEF m

\* Setting a mark twice.
LEMMA OverriddenTwice ==
  ASSUME NEW set, NEW c, NEW d, NEW m, c.page = d.page, c.template = d.template,
         m.page = d.page, m.template = d.template, NEW i, NEW j
  PROVE  Overridden(Overridden(set, c, i), d, j) = Overridden(set, m, j)
  BY DEF Overridden, Marked

\* A map with one value overwritten or added.
With(g, k, x) == Over([j \in {k} |-> x], g)

LEMMA WithTwice ==
  ASSUME NEW k, NEW x, NEW y, NEW g
  PROVE  With(With(g, k, x), k, y) = With(g, k, y)
  <1> DEFINE a == Over([j \in {k} |-> x], g)
             f == [j \in {k} |-> y]
  <1>1. /\ DOMAIN a = {k} \cup DOMAIN g /\ a[k] = x
        /\ \A i \in DOMAIN g : i # k => a[i] = g[i]
    BY DEF Over
  <1>2. DOMAIN f = {k} /\ f[k] = y
    OBVIOUS
  <1> HIDE DEF a, f
  <1>3. [i \in DOMAIN f \cup DOMAIN a |-> IF i \in DOMAIN f THEN f[i] ELSE a[i]]
        = [i \in DOMAIN f \cup DOMAIN g |-> IF i \in DOMAIN f THEN f[i] ELSE g[i]]
    BY <1>1, <1>2
  <1> QED
    BY <1>3 DEF With, Over, a, f

LEMMA SameDynamic ==
  ASSUME NEW x \in Dynamic, NEW y \in Dynamic, x.template = y.template, x.position = y.position,
         x.visible = y.visible, x.creation = y.creation
  PROVE  x = y
  BY DEF Dynamic

-----------------------------------------------------------------------------
(* Two neighbours one after the other, and merged. *)

LEMMA MergeVisibility ==
  ASSUME NEW K, NEW s \in Scenes, Within(K, s), NEW c, c.page \in Pages, c.on \in BOOLEAN,
         NEW d, NEW m, c.page = d.page, c.template = d.template,
         m.page = d.page, m.template = d.template, m.on = d.on, d.on \in BOOLEAN,
         NEW u \in OnSetDynamicReticleSetVisibility(s, c), NEW w \in OnSetDynamicReticleSetVisibility(u, d)
  PROVE  \E y \in OnSetDynamicReticleSetVisibility(s, m) : Follows(K, w, y)
  <1> DEFINE p == c.page
             one == Overridden(s.hidden, c, ~c.on)
             two == Overridden(s.hidden, m, ~m.on)
             a == Hiding(s, one)
             b == Hiding(u, two)
             z == Hiding(s, two)
  <1>1. c.template \in Bound[p] /\ u = RefreshSticky(a, p)
    BY VisibilityIs
  <1>2. one \in SUBSET Overrides /\ two \in SUBSET Overrides
    BY <1>1, SceneFields, OverriddenTyped
  <1>3. Overridden(one, d, ~d.on) = two
    <2> DEFINE shown == ~c.on
               hides == ~d.on
    <2>1. Overridden(s.hidden, m, ~m.on) = Overridden(s.hidden, m, hides)
      OBVIOUS
    <2> HIDE DEF shown, hides
    <2>2. Overridden(Overridden(s.hidden, c, shown), d, hides) = Overridden(s.hidden, m, hides)
      BY OverriddenTwice
    <2> QED
      BY <2>1, <2>2 DEF shown, hides
  <1>4. w = RefreshSticky(Hiding(u, Overridden(u.hidden, d, ~d.on)), p)
    BY VisibilityIs
  <1>5. RefreshSticky(z, p) \in OnSetDynamicReticleSetVisibility(s, m)
    <2>1. m.page = p /\ m.template \in Bound[m.page]
      BY <1>1
    <2> QED
      BY <2>1, VisibilityIs
  <1> HIDE DEF one, two
  <1> DEFINE Hid(x, set, y) ==
               /\ y \in Scenes /\ y.strobe = x.strobe /\ y.active = x.active /\ y.selected = x.selected
               /\ y.widget = x.widget /\ y.display = x.display /\ y.static = x.static /\ y.hidden = set
               /\ y.magnetic = x.magnetic /\ y.feedback = x.feedback /\ y.creation = x.creation
               /\ y.dynamics = x.dynamics
  <1>6. Hid(s, one, a)
    BY <1>2, HidingIs
  <1>7. Hid(s, two, z)
    BY <1>2, HidingIs
  <1>8. u \in Scenes /\ SameButStrobe(a, u)
    <2> HIDE DEF a
    <2> QED
      BY <1>1, <1>6, RefreshIs
  <1>9. Hid(u, two, b)
    BY <1>2, <1>8, HidingIs
  <1>10. u.hidden = one
    BY <1>6, <1>8 DEF SameButStrobe, SameRows
  <1>11. w = RefreshSticky(b, p)
    BY <1>3, <1>4, <1>10
  <1> HIDE DEF a, b, z
  <1>12. SameButStrobe(b, z) /\ z.active = a.active /\ z.selected = a.selected /\ z.strobe = a.strobe
         /\ b.strobe = RefreshSticky(a, p).strobe
    BY <1>1, <1>6, <1>7, <1>8, <1>9 DEF SameButStrobe, SameRows
  <1>13. Within(K, a)
    BY <1>6, WithinSame
  <1>14. Follows(K, RefreshSticky(b, p), RefreshSticky(z, p))
    BY <1>6, <1>7, <1>9, <1>12, <1>13, RefreshTwice
  <1> QED
    BY <1>5, <1>11, <1>14

LEMMA MergeMagnet ==
  ASSUME NEW K, NEW s \in Scenes, Within(K, s), NEW c, c.page \in Pages, c.on \in BOOLEAN,
         NEW d, NEW m, c.page = d.page, c.template = d.template,
         m.page = d.page, m.template = d.template, m.on = d.on, d.on \in BOOLEAN,
         NEW u \in OnSetDynamicReticleSetStrobeMagnetEnabled(s, c),
         NEW w \in OnSetDynamicReticleSetStrobeMagnetEnabled(u, d)
  PROVE  \E y \in OnSetDynamicReticleSetStrobeMagnetEnabled(s, m) : Follows(K, w, y)
  <1> DEFINE p == c.page
             one == Overridden(s.magnetic, c, c.on)
             two == Overridden(s.magnetic, m, m.on)
             a == Drawing(s, one)
             b == Drawing(u, two)
             z == Drawing(s, two)
  <1>1. c.template \in Bound[p] /\ u = RefreshSticky(a, p)
    BY MagnetIs
  <1>2. one \in SUBSET Overrides /\ two \in SUBSET Overrides
    BY <1>1, SceneFields, OverriddenTyped
  <1>3. Overridden(one, d, d.on) = two
    BY OverriddenTwice
  <1>4. w = RefreshSticky(Drawing(u, Overridden(u.magnetic, d, d.on)), p)
    BY MagnetIs
  <1>5. RefreshSticky(z, p) \in OnSetDynamicReticleSetStrobeMagnetEnabled(s, m)
    <2>1. m.page = p /\ m.template \in Bound[m.page]
      BY <1>1
    <2> QED
      BY <2>1, MagnetIs
  <1> HIDE DEF one, two
  <1> DEFINE Drawn(x, set, y) ==
               /\ y \in Scenes /\ y.strobe = x.strobe /\ y.active = x.active /\ y.selected = x.selected
               /\ y.widget = x.widget /\ y.display = x.display /\ y.static = x.static /\ y.hidden = x.hidden
               /\ y.magnetic = set /\ y.feedback = x.feedback /\ y.creation = x.creation
               /\ y.dynamics = x.dynamics
  <1>6. Drawn(s, one, a)
    BY <1>2, DrawingIs
  <1>7. Drawn(s, two, z)
    BY <1>2, DrawingIs
  <1>8. u \in Scenes /\ SameButStrobe(a, u)
    <2> HIDE DEF a
    <2> QED
      BY <1>1, <1>6, RefreshIs
  <1>9. Drawn(u, two, b)
    BY <1>2, <1>8, DrawingIs
  <1>10. u.magnetic = one
    BY <1>6, <1>8 DEF SameButStrobe, SameRows
  <1>11. w = RefreshSticky(b, p)
    BY <1>3, <1>4, <1>10
  <1> HIDE DEF a, b, z
  <1>12. SameButStrobe(b, z) /\ z.active = a.active /\ z.selected = a.selected /\ z.strobe = a.strobe
         /\ b.strobe = RefreshSticky(a, p).strobe
    BY <1>1, <1>6, <1>7, <1>8, <1>9 DEF SameButStrobe, SameRows
  <1>13. Within(K, a)
    BY <1>6, WithinSame
  <1>14. Follows(K, RefreshSticky(b, p), RefreshSticky(z, p))
    BY <1>6, <1>7, <1>9, <1>12, <1>13, RefreshTwice
  <1> QED
    BY <1>5, <1>11, <1>14

\* Two updates of a reticle leave what their merge does.
LEMMA AfterMerged ==
  ASSUME NEW s \in Scenes, NEW u \in Scenes, NEW c, WellFormed(c), c.kind = "upsert", c.page \in Pages,
         NEW d, WellFormed(d), d.kind = "upsert", NEW m, WellFormed(m), m.kind = "upsert",
         d.page = c.page, m.page = c.page, d.reticle = c.reticle, m.reticle = c.reticle,
         d.template = c.template, m.template = c.template,
         m.visible = Or(d.visible, c.visible), m.position = Or(d.position, c.position),
         Upsertable(s, c), u.dynamics = Upserted(s, c).dynamics, u.creation = Upserted(s, c).creation
  PROVE  /\ Upsertable(s, m) /\ Upsertable(u, d) /\ <<c.page, c.reticle>> \in DOMAIN u.dynamics
         /\ Before(s, m) = Before(s, c) /\ Before(u, d) = After(s, c)
         /\ After(u, d) = After(s, m)
  <1> DEFINE k == <<c.page, c.reticle>>
             old == Before(s, c)
             one == After(s, c)
             two == After(u, d)
             new == After(s, m)
  <1>1. old \in Dynamic /\ one \in Dynamic /\ one.template = c.template
    BY AfterTyped
  <1>2. u.dynamics = Over([j \in {k} |-> one], s.dynamics)
    BY UpsertedIs
  <1>3. k \in DOMAIN u.dynamics /\ u.dynamics[k] = one
    <2> HIDE DEF k, one
    <2> QED
      BY <1>2 DEF Over
  <1>4. Before(u, d) = one
    BY <1>3 DEF Before
  <1>5. Before(s, m) = old
    BY DEF Before
  <1>6. Upsertable(s, m) /\ Upsertable(u, d)
    BY <1>1, <1>4, <1>5 DEF Upsertable
  <1>7. two \in Dynamic /\ new \in Dynamic
    BY <1>6, AfterTyped
  <1> DEFINE Patched(x, y, e) ==
               /\ y.template = x.template /\ y.creation = x.creation
               /\ y.position = Or(e.position, x.position) /\ y.visible = Or(e.visible, x.visible)
  <1>8. /\ one = [old EXCEPT !.position = Or(c.position, @), !.visible = Or(c.visible, @)]
        /\ two = [one EXCEPT !.position = Or(d.position, @), !.visible = Or(d.visible, @)]
        /\ new = [old EXCEPT !.position = Or(m.position, @), !.visible = Or(m.visible, @)]
    BY <1>4, <1>5 DEF After
  <1> HIDE DEF old, one, two, new
  <1>9. ASSUME NEW x \in Dynamic, NEW y, NEW e,
               y = [x EXCEPT !.position = Or(e.position, @), !.visible = Or(e.visible, @)]
        PROVE  Patched(x, y, e)
    BY <1>9 DEF Dynamic
  <1>10. Patched(old, one, c) /\ Patched(one, two, d) /\ Patched(old, new, m)
    <2> HIDE DEF Patched
    <2> QED
      BY <1>1, <1>8, <1>9
  <1>11. two.position = new.position
    BY <1>10 DEF Or
  <1>12. two.visible = new.visible
    BY <1>10 DEF Or
  <1>13. two.template = new.template /\ two.creation = new.creation
    BY <1>10
  <1>14. two = new
    BY <1>7, <1>11, <1>12, <1>13, SameDynamic
  <1> QED
    BY <1>3, <1>4, <1>5, <1>6, <1>14 DEF old, one, two, new

LEMMA MergeUpsert ==
  ASSUME NEW K, NEW s \in Scenes, Within(K, s), NEW c, WellFormed(c), c.kind = "upsert", c.page \in Pages,
         NEW d, WellFormed(d), d.kind = "upsert", NEW m, WellFormed(m), m.kind = "upsert",
         d.page = c.page, m.page = c.page, d.reticle = c.reticle, m.reticle = c.reticle,
         d.template = c.template, m.template = c.template,
         m.visible = Or(d.visible, c.visible), m.position = Or(d.position, c.position),
         NEW u \in OnUpsertDynamicReticle(s, c), NEW w \in OnUpsertDynamicReticle(u, d)
  PROVE  \E y \in OnUpsertDynamicReticle(s, m) : Follows(K, w, y)
  <1> DEFINE p == c.page
             k == <<p, c.reticle>>
             a == Upserted(s, c)
             b == Upserted(u, d)
             z == Upserted(s, m)
             fresh(x) == IF k \in DOMAIN x.dynamics THEN x.creation ELSE x.creation + 1
             Rows(x, new, y) ==
               /\ y \in Scenes /\ y.strobe = x.strobe /\ y.active = x.active /\ y.selected = x.selected
               /\ y.widget = x.widget /\ y.display = x.display /\ y.static = x.static /\ y.hidden = x.hidden
               /\ y.magnetic = x.magnetic /\ y.feedback = x.feedback
               /\ y.dynamics = Over([j \in {k} |-> new], x.dynamics)
               /\ y.creation = fresh(x)
  <1>1. Upsertable(s, c) /\ u = RefreshSticky(a, p)
    BY UpsertIs
  <1>2. Rows(s, After(s, c), a)
    BY <1>1, UpsertedIs
  <1>3. u \in Scenes /\ SameButStrobe(a, u)
    <2> HIDE DEF a
    <2> QED
      BY <1>1, <1>2, RefreshIs
  <1>4. u.dynamics = a.dynamics /\ u.creation = a.creation
    BY <1>3 DEF SameButStrobe, SameRows
  <1>5. /\ Upsertable(s, m) /\ Upsertable(u, d) /\ k \in DOMAIN u.dynamics
        /\ After(u, d) = After(s, m)
    BY <1>1, <1>3, <1>4, AfterMerged
  <1>6. Rows(u, After(u, d), b)
    BY <1>3, <1>5, UpsertedIs
  <1>7. Rows(s, After(s, m), z)
    BY <1>5, UpsertedIs
  <1>8. w = RefreshSticky(b, p)
    BY UpsertIs
  <1>9. RefreshSticky(z, p) \in OnUpsertDynamicReticle(s, m)
    BY <1>5, UpsertIs
  <1> HIDE DEF a, b, z
  <1>10. b.dynamics = z.dynamics
    <2> DEFINE new == After(s, m)
               old == After(s, c)
    <2>1. /\ a.dynamics = With(s.dynamics, k, old)
          /\ b.dynamics = With(a.dynamics, k, new)
          /\ z.dynamics = With(s.dynamics, k, new)
      BY <1>2, <1>4, <1>5, <1>6, <1>7 DEF With
    <2> HIDE DEF new, old, k
    <2> QED
      BY <2>1, WithTwice
  <1>11. b.creation = z.creation
    BY <1>2, <1>4, <1>5, <1>6, <1>7
  <1>12. /\ b.widget = z.widget /\ b.display = z.display /\ b.static = z.static /\ b.hidden = z.hidden
         /\ b.magnetic = z.magnetic /\ b.feedback = z.feedback /\ b.active = z.active /\ b.selected = z.selected
    BY <1>2, <1>3, <1>6, <1>7 DEF SameButStrobe, SameRows
  <1>13. SameButStrobe(b, z)
    BY <1>10, <1>11, <1>12 DEF SameButStrobe, SameRows
  <1>14. z.active = a.active /\ z.selected = a.selected /\ z.strobe = a.strobe
         /\ b.strobe = RefreshSticky(a, p).strobe /\ a \in Scenes /\ b \in Scenes /\ z \in Scenes
    BY <1>1, <1>2, <1>6, <1>7
  <1>15. Within(K, a)
    BY <1>2, WithinSame
  <1>16. Follows(K, RefreshSticky(b, p), RefreshSticky(z, p))
    BY <1>13, <1>14, <1>15, RefreshTwice
  <1> QED
    BY <1>8, <1>9, <1>16

\* Two updates of a strobe come to rest where their merge can.
LEMMA MergeStrobe ==
  ASSUME NEW s \in Scenes, NEW c, WellFormed(c), c.kind = "strobe", c.page \in Pages,
         NEW d, WellFormed(d), d.kind = "strobe", NEW m, WellFormed(m), m.kind = "strobe",
         d.page = c.page, m.page = c.page, d.strobe = c.strobe, m.strobe = c.strobe,
         m.visible = Or(d.visible, c.visible), m.position = Or(d.position, c.position),
         NEW u \in OnUpdateStrobe(s, c), NEW w \in OnUpdateStrobe(u, d)
  PROVE  w \in OnUpdateStrobe(s, m)
  <1> DEFINE p == c.page
             v == Or(c.strobe, s.selected[p])
             k == <<p, v>>
             r == WithStrobe(s, p, v)
             At(x, e) == {StrobeIs(x, k, StrobeAt(spot, Or(e.visible, x.strobe[k].visible))) :
                             spot \in Rests(x, k, e.position)}
  <1>1. c.strobe \in Strobes \cup {Keep}
    BY DEF OnUpdateStrobe
  <1>2. v \in Strobes
    BY <1>1, SceneFields DEF Or
  <1>3. k \in Pages \X Strobes /\ k[1] = p /\ k[2] = v
    BY <1>2
  <1>4. r \in Scenes /\ r.selected = [s.selected EXCEPT ![p] = v]
    BY <1>2, WithStrobeIs
  <1>5. r.selected[p] = v
    BY <1>4, SceneFields
  <1>6. OnUpdateStrobe(s, c) = At(r, c) /\ OnUpdateStrobe(s, m) = At(r, m)
    <2>1. OnUpdateStrobe(s, c) = Updates(s, c) /\ OnUpdateStrobe(s, m) = Updates(s, m)
      BY <1>1, UpdateStrobeIs
    <2>2. Or(m.strobe, s.selected[m.page]) = v
      OBVIOUS
    <2> HIDE DEF v
    <2>3. Updates(s, m) = At(r, m)
      BY <1>3, <2>2 DEF Updates
    <2>4. Updates(s, c) = At(r, c)
      BY <1>3 DEF Updates, v
    <2> QED
      BY <2>1, <2>3, <2>4
  <1> HIDE DEF r
  <1>7. PICK first \in Rests(r, k, c.position) :
          u = StrobeIs(r, k, StrobeAt(first, Or(c.visible, r.strobe[k].visible)))
    BY <1>6
  <1> DEFINE vis == Or(c.visible, r.strobe[k].visible)
             one == StrobeAt(first, vis)
  <1>8. /\ c.visible \in BOOLEAN \cup {Keep} /\ c.position \in Positions \cup {Keep}
        /\ d.visible \in BOOLEAN \cup {Keep} /\ d.position \in Positions \cup {Keep}
    BY DEF WellFormed
  <1>9. r.strobe[k] \in Strobe
    BY <1>3, <1>4, SceneFields
  <1>10. vis \in BOOLEAN
    BY <1>8, <1>9 DEF Or, Strobe
  <1> HIDE DEF k, vis
  <1>11. one \in Strobe /\ first = <<first[1], first[2]>>
    BY <1>3, <1>4, <1>7, <1>8, <1>10, RestTyped
  <1>12. Overwritten(r, k, one, u)
    <2> HIDE DEF one
    <2>1. u = StrobeIs(r, k, one)
      BY <1>7 DEF one, vis
    <2> QED
      BY <1>3, <1>4, <1>11, <2>1, StrobeIsFields
  <1>13. /\ u \in Scenes /\ u.selected = r.selected /\ u.strobe[k] = one
         /\ u.active = r.active /\ u.dynamics = r.dynamics /\ u.hidden = r.hidden /\ u.magnetic = r.magnetic
    BY <1>12 DEF Overwritten, SameButStrobe, SameRows
  <1>14. one.visible = vis /\ one.position = first[1] /\ one.lock = first[2]
    BY DEF StrobeAt
  <1>15. Or(d.strobe, u.selected[p]) = v /\ WithStrobe(u, p, v) = u
    BY <1>5, <1>13 DEF Or, WithStrobe
  <1>16. OnUpdateStrobe(u, d) = At(u, d)
    <2>1. OnUpdateStrobe(u, d) = Updates(u, d)
      BY <1>1, <1>13, UpdateStrobeIs
    <2>2. Updates(u, d) = At(u, d)
      <3> HIDE DEF v
      <3> QED
        BY <1>15 DEF Updates, k
    <2> QED
      BY <2>1, <2>2
  <1>17. PICK last \in Rests(u, k, d.position) : w = StrobeIs(u, k, StrobeAt(last, Or(d.visible, vis)))
    BY <1>13, <1>14, <1>16
  <1> DEFINE vis2 == Or(d.visible, vis)
             two == StrobeAt(last, vis2)
  <1>18. vis2 \in BOOLEAN
    BY <1>8, <1>10 DEF Or
  <1>19. vis2 = Or(m.visible, r.strobe[k].visible)
    BY DEF Or, vis
  <1> HIDE DEF vis2, one
  <1>20. two \in Strobe
    BY <1>3, <1>8, <1>13, <1>17, <1>18, RestTyped
  <1>21. w = StrobeIs(r, k, two)
    <2> HIDE DEF two
    <2>1. u = StrobeIs(r, k, one) /\ w = StrobeIs(u, k, two)
      BY <1>7, <1>17 DEF one, vis, two, vis2
    <2> QED
      BY <1>3, <1>4, <1>11, <1>20, <2>1, StrobeIsTwice
  <1>22. last \in Rests(r, k, m.position)
    <2>1. CASE d.position = Keep
      <3>1. last = <<first[1], first[2]>>
        BY <1>13, <1>14, <1>17, <2>1 DEF Rests
      <3>2. m.position = c.position
        BY <2>1 DEF Or
      <3> QED
        BY <1>7, <1>11, <3>1, <3>2
    <2>2. CASE d.position # Keep
      <3>1. m.position = d.position
        BY <2>2 DEF Or
      <3>2. Rests(u, k, d.position) = Rests(r, k, d.position)
        BY <1>13, <2>2, SpotsAlike DEF Rests
      <3> QED
        BY <1>17, <3>1, <3>2
    <2> QED
      BY <2>1, <2>2
  <1>23. w \in At(r, m)
    BY <1>19, <1>21, <1>22
  <1> QED
    BY <1>6, <1>23

\* Two commands that may be merged lead where their merge leads, but for strobes let go in between.
LEMMA MergeFollows ==
  ASSUME NEW K, NEW s \in Scenes, Within(K, s), NEW c, WellFormed(c), NEW d, WellFormed(d), SameKey(c, d),
         NEW u \in Dispatch(s, c), NEW w \in Dispatch(u, d)
  PROVE  \E y \in Dispatch(s, Merged(c, d)) : Follows(K, w, y)
  <1> PICK m : m = Merged(c, d)
    OBVIOUS
  <1>1. /\ m.kind = c.kind /\ d.kind = c.kind
        /\ c.kind \in {"view", "display", "strobe", "upsert", "visibility", "magnet"}
        /\ c.kind # "display" => m.page = c.page /\ d.page = c.page
        /\ c.kind = "strobe" => m.strobe = c.strobe /\ d.strobe = c.strobe
        /\ c.kind = "upsert" => m.reticle = c.reticle /\ d.reticle = c.reticle
        /\ c.kind \in {"upsert", "visibility", "magnet"} => m.template = c.template /\ d.template = c.template
    BY MergedIs
  <1>2. /\ c.kind \in {"view", "display"} => m.value = d.value /\ d.value \in Values
        /\ c.kind \in {"visibility", "magnet"} => m.on = d.on /\ d.on \in BOOLEAN
        /\ c.kind \in {"strobe", "upsert"} =>
               /\ m.visible = Or(d.visible, c.visible) /\ m.position = Or(d.position, c.position)
    BY MergedValues
  <1>3. WellFormed(m)
    BY MergedWellFormed
  <1>4. OnKnownPage(c) /\ OnKnownPage(d)
    BY DEF Dispatch
  <1>5. OnKnownPage(m) /\ (c.kind # "display" => c.page \in Pages)
    BY <1>1, <1>4 DEF OnKnownPage
  <1>6. CASE c.kind = "view"
    <2>1. /\ u = [s EXCEPT !.static[c.page] = c.value] /\ w = [u EXCEPT !.static[c.page] = d.value]
          /\ Dispatch(s, m) = {[s EXCEPT !.static[c.page] = d.value]}
      BY <1>1, <1>2, <1>4, <1>5, <1>6 DEF Dispatch, OnSetPageView
    <2>2. w = [s EXCEPT !.static[c.page] = d.value]
      BY <2>1 DEF Scenes
    <2> QED
      BY <2>1, <2>2, AlikeSelf
  <1>7. CASE c.kind = "display"
    <2>1. /\ u = [s EXCEPT !.display = c.value] /\ w = [u EXCEPT !.display = d.value]
          /\ Dispatch(s, m) = {[s EXCEPT !.display = d.value]}
      BY <1>1, <1>2, <1>4, <1>5, <1>7 DEF Dispatch, OnUpdateWindowDisplay
    <2>2. w = [s EXCEPT !.display = d.value]
      BY <2>1 DEF Scenes
    <2> QED
      BY <2>1, <2>2, AlikeSelf
  <1>8. CASE c.kind = "strobe"
    <2>1. u \in OnUpdateStrobe(s, c) /\ w \in OnUpdateStrobe(u, d) /\ Dispatch(s, m) = OnUpdateStrobe(s, m)
      BY <1>1, <1>4, <1>5, <1>8 DEF Dispatch
    <2>2. w \in OnUpdateStrobe(s, m)
      BY <1>1, <1>2, <1>3, <1>5, <1>8, <2>1, MergeStrobe
    <2> QED
      BY <2>1, <2>2, AlikeSelf
  <1>9. CASE c.kind = "upsert"
    <2>1. /\ u \in OnUpsertDynamicReticle(s, c) /\ w \in OnUpsertDynamicReticle(u, d)
          /\ Dispatch(s, m) = OnUpsertDynamicReticle(s, m)
      BY <1>1, <1>4, <1>5, <1>9 DEF Dispatch
    <2> QED
      BY <1>1, <1>2, <1>3, <1>5, <1>9, <2>1, MergeUpsert
  <1>10. CASE c.kind = "visibility"
    <2>1. /\ u \in OnSetDynamicReticleSetVisibility(s, c) /\ w \in OnSetDynamicReticleSetVisibility(u, d)
          /\ Dispatch(s, m) = OnSetDynamicReticleSetVisibility(s, m) /\ c.on \in BOOLEAN
      BY <1>1, <1>4, <1>5, <1>10 DEF Dispatch, WellFormed
    <2> QED
      BY <1>1, <1>2, <1>5, <1>10, <2>1, MergeVisibility
  <1>11. CASE c.kind = "magnet"
    <2>1. /\ u \in OnSetDynamicReticleSetStrobeMagnetEnabled(s, c)
          /\ w \in OnSetDynamicReticleSetStrobeMagnetEnabled(u, d)
          /\ Dispatch(s, m) = OnSetDynamicReticleSetStrobeMagnetEnabled(s, m) /\ c.on \in BOOLEAN
      BY <1>1, <1>4, <1>5, <1>11 DEF Dispatch, WellFormed
    <2> QED
      BY <1>1, <1>2, <1>5, <1>11, <2>1, MergeMagnet
  <1> QED
    BY <1>1, <1>6, <1>7, <1>8, <1>9, <1>10, <1>11

-----------------------------------------------------------------------------
(* Batches as they are coalesced. *)

\* A sequence of well-formed commands, K having every strobe that they can lock.
Sound(K, c) == WellFormed(c) /\ Covers(K, c)
Sounds(K, D) == \E S : D \in Seq(S) /\ \A c \in S : Sound(K, c)

Longer(D, c, E) ==
    /\ Len(E) = Len(D) + 1 /\ E[Len(E)] = c
    /\ \A i \in 1 .. Len(D) : E[i] = D[i]
Replaced(D, c, E) ==
    /\ Len(E) = Len(D) /\ E[Len(E)] = c
    /\ \A i \in 1 .. Len(D) : i # Len(D) => E[i] = D[i]

LEMMA AppendSound ==
  ASSUME NEW K, NEW D, Sounds(K, D), NEW c, Sound(K, c)
  PROVE  Sounds(K, Append(D, c)) /\ Longer(D, c, Append(D, c)) /\ Len(D) \in Nat
  <1>1. PICK S : D \in Seq(S) /\ \A x \in S : Sound(K, x)
    BY DEF Sounds
  <1> DEFINE T == S \cup {c}
  <1>2. D \in Seq(T) /\ c \in T /\ \A x \in T : Sound(K, x)
    BY <1>1
  <1> HIDE DEF T
  <1>3. Append(D, c) \in Seq(T) /\ Longer(D, c, Append(D, c)) /\ Len(D) \in Nat
    BY <1>2 DEF Longer
  <1> QED
    BY <1>2, <1>3 DEF Sounds

LEMMA ReplaceSound ==
  ASSUME NEW K, NEW D, Sounds(K, D), D # <<>>, NEW c, Sound(K, c)
  PROVE  LET E == [D EXCEPT ![Len(D)] = c]
         IN Sounds(K, E) /\ Replaced(D, c, E) /\ Len(D) \in Nat \ {0} /\ Sound(K, D[Len(D)])
  <1>1. PICK S : D \in Seq(S) /\ \A x \in S : Sound(K, x)
    BY DEF Sounds
  <1> DEFINE T == S \cup {c}
             E == [D EXCEPT ![Len(D)] = c]
  <1>2. D \in Seq(T) /\ c \in T /\ \A x \in T : Sound(K, x)
    BY <1>1
  <1> HIDE DEF T
  <1>3. Len(D) \in Nat \ {0}
    BY <1>1
  <1>4. D[Len(D)] \in S
    BY <1>1, <1>3
  <1>5. E \in Seq(T) /\ Replaced(D, c, E)
    BY <1>2, <1>3 DEF Replaced
  <1> QED
    BY <1>1, <1>2, <1>3, <1>4, <1>5 DEF Sounds

\* One way the commands of D can be dispatched.
Good(K, s) == s \in Scenes /\ Coherent(s) /\ Within(K, s)
Path(K, p, s, D) ==
    /\ p[0] = s /\ \A i \in 0 .. Len(D) : Good(K, p[i])
    /\ \A i \in 1 .. Len(D) : p[i] \in Dispatch(p[i - 1], D[i])
Leads(K, s, D, t) == \E p : Path(K, p, s, D) /\ p[Len(D)] = t

LEMMA DispatchGood ==
  ASSUME NEW K, NEW s, Good(K, s), NEW c, Sound(K, c), NEW t \in Dispatch(s, c)
  PROVE  Good(K, t)
  <1>1. Handled(s, t, Pages)
    BY SceneFields, DispatchHandled DEF Good, Sound
  <1>2. Within(K, t)
    BY DispatchWithin DEF Good, Sound
  <1> QED
    BY <1>1, <1>2 DEF Good, Handled

LEMMA LeadsLonger ==
  ASSUME NEW K, NEW s, NEW D, Len(D) \in Nat, NEW t, Leads(K, s, D, t),
         NEW c, Sound(K, c), NEW u \in Dispatch(t, c), NEW E, Longer(D, c, E)
  PROVE  Leads(K, s, E, u)
  <1>1. PICK p : Path(K, p, s, D) /\ p[Len(D)] = t
    BY DEF Leads
  <1> DEFINE L == Len(D)
             q == [i \in 0 .. L + 1 |-> IF i = L + 1 THEN u ELSE p[i]]
  <1>2. Good(K, t)
    BY <1>1 DEF Path
  <1>3. Good(K, u)
    BY <1>2, DispatchGood
  <1>4. /\ q[L + 1] = u /\ \A i \in 0 .. L : q[i] = p[i]
    OBVIOUS
  <1> HIDE DEF q
  <1>5. Len(E) = L + 1 /\ E[L + 1] = c /\ \A i \in 1 .. L : E[i] = D[i]
    BY DEF Longer
  <1>6. /\ p[0] = s /\ (\A i \in 0 .. L : Good(K, p[i])) /\ p[L] = t
        /\ \A i \in 1 .. L : p[i] \in Dispatch(p[i - 1], D[i])
    BY <1>1 DEF Path
  <1> HIDE DEF L
  <1>7. L \in Nat
    BY DEF L
  <1>8. q[0] = s /\ \A i \in 0 .. L + 1 : Good(K, q[i])
    BY <1>3, <1>4, <1>6, <1>7
  <1>9. ASSUME NEW i \in 1 .. L + 1 PROVE q[i] \in Dispatch(q[i - 1], E[i])
    <2>1. CASE i = L + 1
      BY <1>4, <1>5, <1>6, <1>7, <2>1
    <2>2. CASE i # L + 1
      <3>1. i \in 1 .. L /\ i - 1 \in 0 .. L /\ i \in 0 .. L
        BY <1>7, <2>2
      <3> QED
        BY <1>4, <1>5, <1>6, <3>1
    <2> QED
      BY <2>1, <2>2
  <1>10. Path(K, q, s, E) /\ q[Len(E)] = u
    BY <1>4, <1>5, <1>8, <1>9 DEF Path
  <1> QED
    BY <1>10 DEF Leads

\* The last command is replaced by its merge with the next.
LEMMA LeadsReplaced ==
  ASSUME NEW K, NEW s, NEW D, Len(D) \in Nat \ {0}, NEW t, Leads(K, s, D, t), Sound(K, D[Len(D)]),
         NEW c, Sound(K, c), SameKey(D[Len(D)], c), NEW u \in Dispatch(t, c),
         NEW E, Replaced(D, Merged(D[Len(D)], c), E)
  PROVE  \E y : Leads(K, s, E, y) /\ Follows(K, u, y)
  <1>1. PICK p : Path(K, p, s, D) /\ p[Len(D)] = t
    BY DEF Leads
  <1> DEFINE L == Len(D)
             m == Merged(D[L], c)
  <1>2. L \in Nat \ {0} /\ L - 1 \in 0 .. L /\ L \in 1 .. L
    OBVIOUS
  <1>3. /\ p[0] = s /\ (\A i \in 0 .. L : Good(K, p[i])) /\ p[L] = t
        /\ \A i \in 1 .. L : p[i] \in Dispatch(p[i - 1], D[i])
    BY <1>1 DEF Path
  <1>4. Good(K, p[L - 1]) /\ t \in Dispatch(p[L - 1], D[L])
    BY <1>2, <1>3
  <1>5. Sound(K, m)
    BY MergedWellFormed, MergedCovered DEF Sound
  <1>6. Len(E) = L /\ E[L] = m /\ \A i \in 1 .. L : i # L => E[i] = D[i]
    BY DEF Replaced
  <1>7. \E y \in Dispatch(p[L - 1], m) : Follows(K, u, y)
    BY <1>4, MergeFollows DEF Good, Sound
  <1> HIDE DEF m, L
  <1>8. PICK y \in Dispatch(p[L - 1], m) : Follows(K, u, y)
    BY <1>7
  <1>9. Good(K, y)
    BY <1>4, <1>5, DispatchGood
  <1> DEFINE q == [i \in 0 .. L |-> IF i = L THEN y ELSE p[i]]
  <1>10. q[L] = y /\ \A i \in 0 .. L : i # L => q[i] = p[i]
    BY <1>2
  <1> HIDE DEF q
  <1>11. q[0] = s /\ \A i \in 0 .. L : Good(K, q[i])
    BY <1>2, <1>3, <1>9, <1>10
  <1>12. ASSUME NEW i \in 1 .. L PROVE q[i] \in Dispatch(q[i - 1], E[i])
    <2>1. i - 1 \in 0 .. L /\ i - 1 # L /\ i \in 0 .. L
      BY <1>2
    <2>2. q[i - 1] = p[i - 1]
      BY <1>10, <2>1
    <2>3. CASE i = L
      BY <1>6, <1>8, <1>10, <2>2, <2>3
    <2>4. CASE i # L
      BY <1>3, <1>6, <1>10, <2>1, <2>2, <2>4
    <2> QED
      BY <2>3, <2>4
  <1>13. Path(K, q, s, E) /\ q[Len(E)] = y
    BY <1>6, <1>10, <1>11, <1>12 DEF Path
  <1> QED
    BY <1>8, <1>13 DEF Leads

LEMMA CoalescedFollows ==
  ASSUME NEW K, NEW s, NEW D, Sounds(K, D), NEW c, Sound(K, c)
  PROVE  /\ Sounds(K, Coalesced(D, c))
         /\ \A a, t : \A x \in Dispatch(a, c) :
              a \in Scenes /\ Leads(K, s, D, t) /\ Follows(K, a, t)
                 => \E y : Leads(K, s, Coalesced(D, c), y) /\ Follows(K, x, y)
  <1> DEFINE E == Coalesced(D, c)
  <1>0. ASSUME NEW t, Leads(K, s, D, t), Len(D) \in Nat PROVE Good(K, t)
    <2>1. PICK p : Path(K, p, s, D) /\ p[Len(D)] = t
      BY <1>0 DEF Leads
    <2> QED
      BY <1>0, <2>1 DEF Path
  <1>1. CASE D # <<>> /\ SameKey(D[Len(D)], c)
    <2>1. /\ Len(D) \in Nat \ {0} /\ Sound(K, D[Len(D)])
      BY <1>1, ReplaceSound
    <2> DEFINE m == Merged(D[Len(D)], c)
    <2>2. Sound(K, m)
      BY <1>1, <2>1, MergedWellFormed, MergedCovered DEF Sound
    <2>3. E = [D EXCEPT ![Len(D)] = m]
      BY <1>1 DEF Coalesced
    <2> HIDE DEF m, E
    <2>4. Sounds(K, E) /\ Replaced(D, m, E)
      BY <1>1, <2>2, <2>3, ReplaceSound
    <2>5. ASSUME NEW a \in Scenes, NEW t, Leads(K, s, D, t), Follows(K, a, t), NEW x \in Dispatch(a, c)
          PROVE  \E y : Leads(K, s, E, y) /\ Follows(K, x, y)
      <3>1. t \in Scenes
        BY <1>0, <2>1, <2>5 DEF Good
      <3>2. PICK u \in Dispatch(t, c) : Follows(K, x, u)
        BY <2>5, <3>1, DispatchFollows DEF Sound
      <3>3. \E y : Leads(K, s, E, y) /\ Follows(K, u, y)
        BY <1>1, <2>1, <2>4, <2>5, <3>2, LeadsReplaced DEF m
      <3> QED
        BY <3>2, <3>3, AlikeTrans
    <2> QED
      BY <2>4, <2>5 DEF E
  <1>2. CASE ~ (D # <<>> /\ SameKey(D[Len(D)], c))
    <2>1. E = Append(D, c)
      BY <1>2 DEF Coalesced
    <2> HIDE DEF E
    <2>2. Sounds(K, E) /\ Longer(D, c, E) /\ Len(D) \in Nat
      BY <2>1, AppendSound
    <2>3. ASSUME NEW a \in Scenes, NEW t, Leads(K, s, D, t), Follows(K, a, t), NEW x \in Dispatch(a, c)
          PROVE  \E y : Leads(K, s, E, y) /\ Follows(K, x, y)
      <3>1. t \in Scenes
        BY <1>0, <2>2, <2>3 DEF Good
      <3>2. PICK u \in Dispatch(t, c) : Follows(K, x, u)
        BY <2>3, <3>1, DispatchFollows DEF Sound
      <3>3. Leads(K, s, E, u)
        BY <2>2, <2>3, <3>2, LeadsLonger
      <3> QED
        BY <3>2, <3>3
    <2> QED
      BY <2>2, <2>3 DEF E
  <1> QED
    BY <1>1, <1>2

\* Where the commands can be dispatched to is an outcome of them.
LEMMA LeadsToOutcome ==
  ASSUME NEW K, NEW s, NEW D, Len(D) \in Nat, NEW t, Leads(K, s, D, t)
  PROVE  [scene |-> t, ok |-> TRUE] \in Outcomes(s, D)
  <1> DEFINE last == Len(D)
             it == CHOOSE g : Following(g, s, D)
  <1>1. PICK p : Path(K, p, s, D) /\ p[last] = t
    BY DEF Leads
  <1> DEFINE Missed == {n \in Nat : n <= last /\ [scene |-> p[n], ok |-> TRUE] \notin it[n]}
  <1>2. Following(it, s, D)
    BY FollowingExists
  <1>3. Outcomes(s, D) = it[last]
    BY DEF Outcomes, Following
  <1> HIDE DEF it
  <1>4. \A n \in 0 .. last : it[n] = IF n = 0 THEN {[scene |-> s, ok |-> TRUE]} ELSE Step(it[n - 1], D[n])
    BY <1>2 DEF Following
  <1>5. Missed = {}
    <2>1. SUFFICES ASSUME Missed # {} PROVE FALSE
      OBVIOUS
    <2>2. PICK n \in Missed : \A k \in Missed : n <= k
      BY <2>1, LeastNatural
    <2>3. n \in Nat /\ n <= last /\ [scene |-> p[n], ok |-> TRUE] \notin it[n]
      BY <2>2
    <2>4. n # 0
      <3>1. it[0] = {[scene |-> s, ok |-> TRUE]} /\ p[0] = s
        BY <1>1, <1>4 DEF Path
      <3> QED
        BY <2>3, <3>1
    <2>5. n - 1 \in Nat /\ n - 1 <= last /\ n \in 1 .. last /\ n \in 0 .. last
      BY <2>3, <2>4
    <2>6. [scene |-> p[n - 1], ok |-> TRUE] \in it[n - 1]
      BY <2>2, <2>5
    <2>7. it[n] = Step(it[n - 1], D[n]) /\ p[n] \in Dispatch(p[n - 1], D[n])
      BY <1>1, <1>4, <2>4, <2>5 DEF Path
    <2>8. [scene |-> p[n], ok |-> TRUE] \in Step(it[n - 1], D[n])
      <3> DEFINE o == [scene |-> p[n - 1], ok |-> TRUE]
      <3>1. o.ok /\ o.scene = p[n - 1]
        OBVIOUS
      <3> HIDE DEF o
      <3>2. [scene |-> p[n], ok |-> TRUE] \in {[scene |-> x, ok |-> TRUE] : x \in Dispatch(o.scene, D[n])}
            /\ Dispatch(o.scene, D[n]) # {} /\ o \in it[n - 1]
        BY <2>6, <2>7, <3>1 DEF o
      <3> QED
        BY <3>1, <3>2 DEF Step
    <2> QED
      BY <2>3, <2>7, <2>8
  <1>6. last \in Nat /\ last <= last
    OBVIOUS
  <1> HIDE DEF last
  <1> QED
    BY <1>1, <1>3, <1>5, <1>6

\* The recursive function by which Coalesce is defined.
Coalescing(g, commands) ==
    g = [n \in 0 .. Len(commands) |-> IF n = 0 THEN <<>> ELSE Coalesced(g[n - 1], commands[n])]

LEMMA CoalescingExists ==
  ASSUME NEW commands, Len(commands) \in Nat
  PROVE  \E g : Coalescing(g, commands)
  <1> DEFINE last == Len(commands)
             At(g, n) == IF n = 0 THEN <<>> ELSE Coalesced(g[n - 1], commands[n])
             UpTo(g, m) == g = [n \in 0 .. last |-> g[n]] /\ \A n \in 0 .. last : n < m => g[n] = At(g, n)
             Missing == {m \in Nat : ~ \E g : UpTo(g, m)}
  <1>1. Missing = {}
    <2>1. SUFFICES ASSUME Missing # {} PROVE FALSE
      OBVIOUS
    <2>2. PICK m \in Missing : \A k \in Missing : m <= k
      BY <2>1, LeastNatural
    <2>3. CASE m = 0
      <3> DEFINE none == [n \in 0 .. last |-> 0]
      <3>1. none = [n \in 0 .. last |-> none[n]] /\ \A n \in 0 .. last : ~ (n < 0)
        OBVIOUS
      <3> HIDE DEF none, At
      <3>2. UpTo(none, 0)
        BY <3>1
      <3> QED
        BY <2>2, <2>3, <3>2
    <2>4. CASE m # 0
      <3>1. m - 1 \in Nat /\ m - 1 \notin Missing
        <4>1. m \in Nat /\ m - 1 \in Nat
          BY <2>4
        <4> HIDE DEF Missing
        <4> QED
          BY <2>2, <4>1
      <3>2. PICK g : UpTo(g, m - 1)
        BY <3>1
      <3> DEFINE h == [n \in 0 .. last |-> IF n = m - 1 THEN At(g, n) ELSE g[n]]
      <3>3. ASSUME NEW n \in 0 .. last, n < m PROVE h[n] = At(h, n)
        <4>1. h[n] = At(g, n)
          <5>1. CASE n = m - 1
            BY <5>1
          <5>2. CASE n # m - 1
            <6>1. h[n] = g[n] /\ n < m - 1
              BY <3>3, <5>2
            <6> HIDE DEF At, h
            <6> QED
              BY <3>2, <6>1
          <5> QED
            BY <5>1, <5>2
        <4>2. ASSUME n # 0 PROVE h[n - 1] = g[n - 1]
          BY <3>3, <4>2
        <4> HIDE DEF h
        <4> QED
          BY <4>1, <4>2
      <3>4. UpTo(h, m)
        <4>1. h = [n \in 0 .. last |-> h[n]]
          OBVIOUS
        <4> HIDE DEF h, At
        <4> QED
          BY <3>3, <4>1
      <3> QED
        BY <2>2, <3>4
    <2> QED
      BY <2>3, <2>4
  <1>2. PICK g : UpTo(g, last + 1)
    <2>1. last + 1 \in Nat
      OBVIOUS
    <2> HIDE DEF UpTo
    <2> QED
      BY <1>1, <2>1
  <1>3. g = [n \in 0 .. last |-> At(g, n)]
    <2> HIDE DEF At
    <2>1. g = [n \in 0 .. last |-> g[n]] /\ \A n \in 0 .. last : g[n] = At(g, n)
      BY <1>2
    <2>2. [n \in 0 .. last |-> g[n]] = [n \in 0 .. last |-> At(g, n)]
      BY <2>1
    <2> QED
      BY <2>1, <2>2
  <1> QED
    BY <1>3 DEF Coalescing

\* Whatever a batch that is applied whole leads to, it leads to once coalesced, but for strobes of
\* K let go on the way.
LEMMA CoalesceFollows ==
  ASSUME NEW K, NEW s, Good(K, s), NEW D, Len(D) \in Nat, \A i \in 1 .. Len(D) : Sound(K, D[i]),
         NEW o \in Outcomes(s, D), o.ok
  PROVE  \E u \in Outcomes(s, Coalesce(D)) :
            /\ u.ok /\ u.scene \in Scenes /\ o.scene \in Scenes /\ Follows(K, o.scene, u.scene)
  <1> DEFINE last == Len(D)
             it == CHOOSE g : Following(g, s, D)
             m == CHOOSE g : Coalescing(g, D)
             Met(x, E) == \E y : Leads(K, s, E, y) /\ Follows(K, x, y)
             Whole(O) == {x \in O : x.ok}
             Matched(n) == Sounds(K, m[n]) /\ \A x \in it[n] :
                            x.ok => Good(K, x.scene) /\ Met(x.scene, m[n])
             Wrong == {n \in Nat : n <= last /\ ~ Matched(n)}
  <1>1. Following(it, s, D) /\ Coalescing(m, D)
    BY FollowingExists, CoalescingExists
  <1>2. Outcomes(s, D) = it[last]
    BY DEF Outcomes, Following
  <1>3. Coalesce(D) = m[last]
    BY DEF Coalesce, Coalescing
  <1> HIDE DEF it, m
  <1>4. \A n \in 0 .. last : it[n] = IF n = 0 THEN {[scene |-> s, ok |-> TRUE]} ELSE Step(it[n - 1], D[n])
    BY <1>1 DEF Following
  <1>5. \A n \in 0 .. last : m[n] = IF n = 0 THEN <<>> ELSE Coalesced(m[n - 1], D[n])
    BY <1>1 DEF Coalescing
  <1>6. Matched(0)
    <2>1. it[0] = {[scene |-> s, ok |-> TRUE]} /\ m[0] = <<>>
      BY <1>4, <1>5
    <2>2. Sounds(K, <<>>)
      <3>1. <<>> \in Seq({}) /\ \A c \in {} : Sound(K, c)
        OBVIOUS
      <3> QED
        BY <3>1 DEF Sounds
    <2>3. Leads(K, s, <<>>, s)
      <3> DEFINE p == [i \in 0 .. 0 |-> s]
      <3>1. p[0] = s /\ (\A i \in 0 .. 0 : p[i] = s) /\ Len(<<>>) = 0
        OBVIOUS
      <3> HIDE DEF p
      <3>2. Path(K, p, s, <<>>)
        BY <3>1 DEF Path
      <3> QED
        BY <3>1, <3>2 DEF Leads
    <2>4. Met(s, <<>>)
      BY <2>3, AlikeSelf
    <2> HIDE DEF Met
    <2> QED
      BY <2>1, <2>2, <2>4
  <1>7. ASSUME NEW n \in Nat, n # 0, n <= last, Matched(n - 1) PROVE Matched(n)
    <2>1. n \in 1 .. last /\ n \in 0 .. last
      BY <1>7
    <2>2. it[n] = Step(it[n - 1], D[n]) /\ m[n] = Coalesced(m[n - 1], D[n]) /\ Sound(K, D[n])
      BY <1>4, <1>5, <1>7, <2>1
    <2> DEFINE c == D[n]
               E == m[n - 1]
    <2>3. /\ Sounds(K, Coalesced(E, c))
          /\ \A a, t : \A x \in Dispatch(a, c) :
              a \in Scenes /\ Leads(K, s, E, t) /\ Follows(K, a, t)
                 => \E y : Leads(K, s, Coalesced(E, c), y) /\ Follows(K, x, y)
      BY <1>7, <2>2, CoalescedFollows
    <2>4. ASSUME NEW x \in it[n], x.ok PROVE Good(K, x.scene) /\ Met(x.scene, m[n])
      <3>1. PICK o1 \in it[n - 1] : x \in IF o1.ok /\ Dispatch(o1.scene, c) # {}
                               THEN {[scene |-> t, ok |-> TRUE] : t \in Dispatch(o1.scene, c)}
                               ELSE {[o1 EXCEPT !.ok = FALSE]}
        BY <2>2, <2>4 DEF Step
      <3>2. o1.ok /\ \E t \in Dispatch(o1.scene, c) : x = [scene |-> t, ok |-> TRUE]
        <4>1. CASE o1.ok /\ Dispatch(o1.scene, c) # {}
          BY <3>1, <4>1
        <4>2. CASE ~ (o1.ok /\ Dispatch(o1.scene, c) # {})
          <5>1. x = [o1 EXCEPT !.ok = FALSE]
            BY <3>1, <4>2
          <5> QED
            BY <2>4, <5>1
        <4> QED
          BY <4>1, <4>2
      <3>3. Good(K, o1.scene) /\ Met(o1.scene, E)
        BY <1>7, <3>2
      <3>4. x.scene \in Dispatch(o1.scene, c)
        BY <3>2
      <3>5. Good(K, x.scene)
        BY <2>2, <3>3, <3>4, DispatchGood
      <3>6. PICK t : Leads(K, s, E, t) /\ Follows(K, o1.scene, t)
        BY <3>3
      <3>7. o1.scene \in Scenes
        BY <3>3 DEF Good
      <3>8. \E y : Leads(K, s, Coalesced(E, c), y) /\ Follows(K, x.scene, y)
        BY <2>3, <3>4, <3>6, <3>7
      <3> QED
        BY <2>2, <3>5, <3>8
    <2> HIDE DEF Met
    <2> QED
      BY <2>2, <2>3, <2>4
  <1> HIDE DEF Matched
  <1>8. Wrong = {}
    <2>1. SUFFICES ASSUME Wrong # {} PROVE FALSE
      OBVIOUS
    <2>2. PICK n \in Wrong : \A k \in Wrong : n <= k
      BY <2>1, LeastNatural
    <2>3. n \in Nat /\ n <= last /\ ~ Matched(n) /\ n # 0
      BY <1>6, <2>2
    <2>4. n - 1 \in Nat /\ n - 1 <= last
      BY <2>3
    <2>5. Matched(n - 1)
      BY <2>2, <2>4
    <2> QED
      BY <1>7, <2>3, <2>5
  <1>9. Matched(last)
    <2>1. last \in Nat /\ last <= last
      OBVIOUS
    <2> HIDE DEF last
    <2> QED
      BY <1>8, <2>1
  <1>10. Good(K, o.scene) /\ Met(o.scene, m[last]) /\ Sounds(K, m[last])
    BY <1>2, <1>9 DEF Matched
  <1>11. PICK y : Leads(K, s, m[last], y) /\ Follows(K, o.scene, y)
    BY <1>10
  <1>12. Len(m[last]) \in Nat
    BY <1>10 DEF Sounds
  <1>13. [scene |-> y, ok |-> TRUE] \in Outcomes(s, m[last])
    BY <1>11, <1>12, LeadsToOutcome
  <1>14. Good(K, y)
    <2>1. PICK p : Path(K, p, s, m[last]) /\ p[Len(m[last])] = y
      BY <1>11 DEF Leads
    <2> QED
      BY <1>12, <2>1 DEF Path
  <1> DEFINE u == [scene |-> y, ok |-> TRUE]
  <1>15. u.ok /\ u.scene = y /\ u \in Outcomes(s, Coalesce(D))
    BY <1>3, <1>13
  <1> HIDE DEF u
  <1> QED
    BY <1>10, <1>11, <1>14, <1>15 DEF Good

\* What is locked or moved covers the commands of a batch.
LEMMA MayLockCovers ==
  ASSUME NEW s \in Scenes, NEW commands
  PROVE  /\ Within(MayLock(s, commands), s)
         /\ \A i \in DOMAIN commands : Covers(MayLock(s, commands), commands[i])
  <1>1. Within(MayLock(s, commands), s)
    BY DEF Within, MayLock
  <1>2. ASSUME NEW i \in DOMAIN commands PROVE Covers(MayLock(s, commands), commands[i])
    BY DEF Covers, MayLock
  <1> QED
    BY <1>1, <1>2

-----------------------------------------------------------------------------
(* The theorems. *)

\* The scene has its type whatever batches are submitted, whichever of their commands fails and
\* whatever is rolled back, and its feedback queue never outgrows its capacity.
THEOREM TypeOKAlways == Spec => []TypeOK
  <1>1. SceneInv => TypeOK
    <2> SUFFICES ASSUME SceneInv PROVE TypeOK
      OBVIOUS
    <2>1. scene \in Scenes /\ request \in 0 .. MaxRequests
      BY DEF SceneInv
    <2>2. scene.dynamics \in DynamicMaps
      BY <2>1, SceneFields
    <2>3. /\ DOMAIN scene.dynamics \subseteq Pages \X Reticles
          /\ \A k \in DOMAIN scene.dynamics : scene.dynamics[k] \in Dynamic
      BY <2>2, DynamicTyped DEF Places
    <2> QED
      BY <2>1, <2>3, SceneFields DEF TypeOK, TypeOfScene, Feedbacks
  <1> QED
    BY <1>1, SceneInvariant, PTL

\* The selected strobe of the active page sits on the reticle it is locked on, shown and
\* magnetic, after every command of every handler and after every rollback
\* (RefreshStickyStrobePosition).
THEOREM StrobeSitsOnLockAlways == Spec => []StrobeSitsOnLock
  <1>1. SceneInv => StrobeSitsOnLock
    BY DEF SceneInv, Coherent, SitsOnLock, StrobeSitsOnLock
  <1> QED
    BY <1>1, SceneInvariant, PTL

\* Creation sequences order the reticles of the scene and the next one is later than all, also
\* after a rollback (nextDynamicCreationSequence_).
THEOREM CreationOrdersAlways == Spec => []CreationOrders
  <1>1. SceneInv => CreationOrders
    BY DEF SceneInv, Coherent, InOrder, CreationOrders
  <1> QED
    BY <1>1, SceneInvariant, PTL

\* A press or a pending request belongs to a widget of the active page (SetActivePage).
THEOREM InteractionOnActivePageAlways == Spec => []InteractionOnActivePage
  <1>1. SceneInv => InteractionOnActivePage
    BY DEF SceneInv, Coherent, TouchedWhereShown, InteractionOnActivePage
  <1> QED
    BY <1>1, SceneInvariant, PTL

\* In every reachable scene, a batch of several commands that fails leaves what commands decide as it
\* was, but for sets of reticles it hid or gave a magnet itself (RestoreRuntimeSnapshot): the footprint
\* covers what its commands touch, putting the footprint's snapshot back undoes it, and the strobe on
\* show is refreshed with the overrides that are left.
THEOREM RollbackRestoresAlways == Spec => []RollbackRestores
  <1>1. SceneInv => RollbackRestores
    <2> SUFFICES ASSUME SceneInv, NEW commands \in Batches,
                        NEW o \in Submitted(scene, commands, TRUE), ~o.ok, Len(commands) > 1
                 PROVE  RolledBack(scene, o.scene, commands)
      BY DEF RollbackRestores
    <2> QED
      BY SubmittedHandled DEF SceneInv
  <1> QED
    BY <1>1, SceneInvariant, PTL

\* In every reachable scene, a batch that is applied whole has, once its neighbours are merged, an
\* outcome it had as it was received, but for strobes that may be locked and are let go
\* (CommandCoalescer): every handler keeps scenes that are alike alike, and leads from one scene
\* over two mergeable commands to where their merge leads.
THEOREM CoalescedAlikeAlways == Spec => []CoalescedAlike
  <1>1. SceneInv => CoalescedAlike
    <2> SUFFICES ASSUME SceneInv, NEW burst \in Bursts, NEW o \in Outcomes(scene, burst), o.ok
                 PROVE  \E u \in Outcomes(scene, Coalesce(burst)) :
                           u.ok /\ LetGo(o.scene, u.scene, MayLock(scene, burst))
      BY DEF CoalescedAlike
    <2> DEFINE K == MayLock(scene, burst)
    <2>1. scene \in Scenes /\ Coherent(scene)
      BY DEF SceneInv
    <2>2. /\ Len(burst) \in Nat /\ DOMAIN burst = 1 .. Len(burst)
          /\ \A i \in DOMAIN burst : WellFormed(burst[i])
      BY SceneAssumption
    <2>3. Within(K, scene) /\ \A i \in DOMAIN burst : Covers(K, burst[i])
      BY <2>1, MayLockCovers
    <2> HIDE DEF K
    <2>4. Good(K, scene) /\ \A i \in 1 .. Len(burst) : Sound(K, burst[i])
      BY <2>1, <2>2, <2>3 DEF Good, Sound
    <2>5. PICK u \in Outcomes(scene, Coalesce(burst)) :
            u.ok /\ u.scene \in Scenes /\ o.scene \in Scenes /\ Follows(K, o.scene, u.scene)
      BY <2>2, <2>4, CoalesceFollows
    <2>6. LetGo(o.scene, u.scene, K)
      BY <2>5, AlikeIsLetGo
    <2> QED
      BY <2>5, <2>6 DEF K
  <1> QED
    BY <1>1, SceneInvariant, PTL

=============================================================================
