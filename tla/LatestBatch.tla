---------------------------- MODULE LatestBatch ----------------------------
(***************************************************************************)
(* The command batches of mfd_client_api and the rule by which             *)
(* LatestBatchPublisher merges a new batch into one that was not sent yet  *)
(* (MergePendingBatchPreservingUndeliveredDeltas).                         *)
(*                                                                         *)
(* A batch is abstracted to what the merge tells apart:                    *)
(*   hash      the mapping hash of the generated UI that built it,         *)
(*   reset     whether it opens with a ResetWindowCommand (BuildResetBatch *)
(*             of the generated UI prepends it),                           *)
(*   statics   its UpdateReticle and UpdateContainer deltas, in order for  *)
(*             each target: value stamps for the fields and map entries    *)
(*             they write, Absent for the others,                          *)
(*   dynamics  the net lifecycle operation per dynamic reticle,            *)
(*   widgets   the stamps of its UpdateWidget confirmations, in order.     *)
(* Commands that the merge never carries (ActivatePage, UpdateStrobe,      *)
(* UpdateWindowDisplay, ...) are left out: only the newest batch's count.  *)
(* A target is addressed in one way throughout, by its generated ids or by *)
(* its names; the entries of its maps may be addressed in both. A          *)
(* container is a target whose deltas write no entries. Fields and entries *)
(* of several maps that reach one datum (a text by `text`, `texts` and a   *)
(* primitive patch) are told apart: each is followed on its own.           *)
(***************************************************************************)
EXTENDS Naturals, Sequences

CONSTANTS
    StaticTargets,    \* static reticles and containers
    StaticFields,     \* top-level fields of their patches
    Families,         \* the maps of a patch (texts, letter spacings, primitive
                      \* patches), each the set of entries it may write
    DynamicReticles,  \* lifecycle keys (page, runtime id) of dynamic reticles
    DynamicFields,    \* ordinary patch fields of a dynamic reticle
    Templates,        \* authored templates a dynamic reticle is created from
    MappingHashes     \* mapping hashes a batch can carry

-----------------------------------------------------------------------------
(* Patches. *)

Absent == 0
Stamp == Nat \ {Absent}

Entries == UNION Families

StaticPatch == [fields : [StaticFields -> Nat],
                named : [Entries -> Nat],     \* texts, letterSpacings, primitivePatches
                byId : [Entries -> Nat]]      \* textsById and so on
StaticUpdates == Seq(StaticPatch)
DynamicPatch == [DynamicFields -> Nat]

BlankDynamic == [f \in DynamicFields |-> Absent]

\* "Newest wins" field by field: a field the newest patch leaves absent keeps
\* the value of the older one.
Overlay(newest, older) ==
    [f \in DOMAIN newest |-> IF newest[f] # Absent THEN newest[f] ELSE older[f]]

Writes(patch) == {f \in DOMAIN patch : patch[f] # Absent}

-----------------------------------------------------------------------------
(* Merging the updates of one static target.                               *)

\* Defect: a name and an id never clash.
MixesSpaces_Never(a, b) == FALSE

\* One patch names entries of a map that the other addresses by generated id.
MixesSpaces(a, b) ==
    \E family \in Families :
        \/ Writes(a.named) \cap family # {} /\ Writes(b.byId) \cap family # {}
        \/ Writes(a.byId) \cap family # {} /\ Writes(b.named) \cap family # {}

\* Top-level fields are always filled, the maps of every family or of none.
Filled(newest, older) ==
    LET scalars == [newest EXCEPT !.fields = Overlay(@, older.fields)]
    IN  IF MixesSpaces(newest, older)
        THEN scalars
        ELSE [scalars EXCEPT !.named = Overlay(@, older.named),
                             !.byId = Overlay(@, older.byId)]

OnlyMaps(patch) == [patch EXCEPT !.fields = [f \in StaticFields |-> Absent]]

Coalesced(collected, update) ==
    LET last == Len(collected)
    IN  IF collected = <<>> \/ MixesSpaces(collected[last], update)
        THEN Append(collected, update)
        ELSE [collected EXCEPT ![last] = Filled(update, @)]

\* The pending updates of a target become one, or several where names and ids mix.
Collected(updates) ==
    LET upTo[n \in 0 .. Len(updates)] ==
            IF n = 0 THEN <<>> ELSE Coalesced(upTo[n - 1], updates[n])
    IN  upTo[Len(updates)]

\* One collected update meets the newest batch: it fills the first update there, and
\* maps that do not mix with that update's are carried in front of the batch.
Folded(fold, update) ==
    [first |-> Filled(fold.first, update),
     carried |-> IF MixesSpaces(fold.first, update)
                 THEN Append(fold.carried, OnlyMaps(update))
                 ELSE fold.carried]

\* The updates of one target in a merged batch.
MergeStaticUpdates(older, newest) ==
    LET waiting == Collected(older)
        upTo[n \in 0 .. Len(waiting)] ==
            IF n = 0 THEN [first |-> newest[1], carried |-> <<>>]
                     ELSE Folded(upTo[n - 1], waiting[n])
        fold == upTo[Len(waiting)]
    IN  IF newest = <<>> THEN waiting
                         ELSE (fold.carried \o <<fold.first>>) \o Tail(newest)

-----------------------------------------------------------------------------
(* Lifecycle operations on dynamic reticles. "recreate" stands for a Remove *)
(* followed by an Upsert of the same key in one batch (the publisher's     *)
(* startsNewInstance).                                                     *)

DynamicOp == [kind : {"none", "upsert", "remove", "recreate"},
              template : Templates,
              patch : DynamicPatch,
              stream : Nat]

\* A pending operation is carried as its last command only: the Remove that
\* preceded a recreating Upsert is not kept.
CarriedOp(op) == IF op.kind = "recreate" THEN [op EXCEPT !.kind = "upsert"] ELSE op

KeepsStreamControls(pending, newest) ==
    /\ newest.kind = "upsert"
    /\ pending.kind \in {"upsert", "recreate"}
    /\ pending.template = newest.template

\* Defect: the newest batch alone decides.
MergeDynamicOp_NewestOnly(pending, newest) == newest

MergeDynamicOp(pending, newest) ==
    CASE newest.kind = "none" -> CarriedOp(pending)
      [] KeepsStreamControls(pending, newest) ->
            [newest EXCEPT !.stream = IF @ # Absent THEN @ ELSE pending.stream]
      [] OTHER -> newest

-----------------------------------------------------------------------------
(* Batches. *)

Batch == [hash : MappingHashes,
          reset : BOOLEAN,
          statics : [StaticTargets -> StaticUpdates],
          dynamics : [DynamicReticles -> DynamicOp],
          widgets : Seq(Stamp)]

NoBatch == [hash |-> "no batch"]

ASSUME BatchAssumption ==
    /\ Templates # {}
    /\ NoBatch.hash \notin MappingHashes

\* Defect: identifiers of two mappings meet in one batch.
Replaces_AnyHash(newest, pending) == pending = NoBatch \/ newest.reset

\* Nothing of the pending batch is worth keeping.
Replaces(newest, pending) ==
    \/ pending = NoBatch
    \/ pending.hash # newest.hash
    \/ newest.reset

\* The merge of a not yet delivered batch with a newer one.
MergePending(pending, newest) ==
    IF Replaces(newest, pending)
    THEN newest
    ELSE [hash |-> newest.hash,
          reset |-> pending.reset,
          statics |-> IF pending.reset
                      THEN newest.statics
                      ELSE [t \in StaticTargets |->
                               MergeStaticUpdates(pending.statics[t], newest.statics[t])],
          dynamics |-> IF pending.reset
                       THEN newest.dynamics
                       ELSE [d \in DynamicReticles |->
                                MergeDynamicOp(pending.dynamics[d], newest.dynamics[d])],
          widgets |-> pending.widgets \o newest.widgets]

CountWidgetCommands(batch) == IF batch = NoBatch THEN 0 ELSE Len(batch.widgets)

-----------------------------------------------------------------------------
(* The effect of a batch on the state a window shows: the authored baseline *)
(* is BlankStatics with every dynamic reticle absent. Transaction semantics *)
(* of CommandProcessor: a Remove of an absent reticle or an Upsert with    *)
(* another template rejects the whole batch.                               *)

StaticElements == StaticFields \cup Entries
StaticState == [StaticTargets -> [StaticElements -> Nat]]

BlankStatics == [t \in StaticTargets |-> [x \in StaticElements |-> Absent]]

\* What a patch writes to an element of its target. The transport resolves both
\* addresses of an entry to one; of two in one patch the name comes last.
Written(patch, x) ==
    CASE x \in StaticFields -> patch.fields[x]
      [] x \notin StaticFields /\ patch.named[x] # Absent -> patch.named[x]
      [] OTHER -> patch.byId[x]

Writers(updates, x) == {i \in DOMAIN updates : Written(updates[i], x) # Absent}

\* Updates of one target applied in order: the last one that writes an element wins.
Applied(updates, shown) ==
    [x \in StaticElements |->
        LET writers == Writers(updates, x)
            last == CHOOSE i \in writers : \A j \in writers : j <= i
        IN  IF writers = {} THEN shown[x] ELSE Written(updates[last], x)]

Instance == [alive : BOOLEAN,
             template : Templates,
             patch : DynamicPatch,
             stream : Nat]

Instantiate(op) ==
    [alive |-> TRUE, template |-> op.template, patch |-> op.patch, stream |-> op.stream]

NoInstance ==
    [alive |-> FALSE, template |-> CHOOSE t \in Templates : TRUE,
     patch |-> BlankDynamic, stream |-> Absent]

NoInstances == [d \in DynamicReticles |-> NoInstance]

OpApplies(op, instance) ==
    CASE op.kind = "none" -> TRUE
      [] op.kind = "upsert" -> instance.alive => instance.template = op.template
      [] OTHER -> instance.alive

Creates(op, instance) == op.kind = "recreate" \/ (op.kind = "upsert" /\ ~instance.alive)

AfterOp(op, instance) ==
    CASE op.kind = "none" -> instance
      [] op.kind = "remove" -> NoInstance
      [] Creates(op, instance) -> Instantiate(op)
      [] op.kind = "upsert" /\ instance.alive ->
            [instance EXCEPT !.patch = Overlay(op.patch, @),
                             !.stream = IF op.stream # Absent THEN op.stream ELSE @]

StaticsAfter(batch, statics) ==
    IF batch = NoBatch THEN statics
    ELSE [t \in StaticTargets |->
             Applied(batch.statics[t], (IF batch.reset THEN BlankStatics ELSE statics)[t])]

DynamicsAfter(batch, dynamics) ==
    IF batch = NoBatch THEN dynamics
    ELSE [d \in DynamicReticles |->
             AfterOp(batch.dynamics[d], IF batch.reset THEN NoInstance ELSE dynamics[d])]

\* Confirmations sent before a reset concern controls the reset puts back to
\* their authored state.
WidgetsAfter(batch, widgets) ==
    IF batch = NoBatch THEN widgets
    ELSE (IF batch.reset THEN <<>> ELSE widgets) \o batch.widgets

Accepts(batch, dynamics) ==
    \A d \in DynamicReticles :
        OpApplies(batch.dynamics[d], IF batch.reset THEN NoInstance ELSE dynamics[d])
=============================================================================
