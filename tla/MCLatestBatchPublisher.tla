---------------------- MODULE MCLatestBatchPublisher ----------------------
(* Instances of LatestBatchPublisher for TLC. *)
EXTENDS LatestBatchPublisher

CONSTANTS alpha, beta    \* the two mapping hashes

NoOp == [kind |-> "none", template |-> "radar", fields |-> {}, stream |-> FALSE]
Quiet == [d \in DynamicReticles |-> NoOp]

NoUpdate == [fields |-> {}, named |-> {}, byId |-> {}]
Field == [NoUpdate EXCEPT !.fields = {"position"}]
ByName == [NoUpdate EXCEPT !.named = {"text"}]
ById == [NoUpdate EXCEPT !.byId = {"text"}]
Both(update) == [update EXCEPT !.fields = {"position"}]

StaticShape(update, widgets) ==
    [hash |-> alpha, reset |-> FALSE, statics |-> [t \in StaticTargets |-> update],
     dynamics |-> Quiet, widgets |-> widgets]

DynamicShape(kind, template, fields, stream) ==
    [StaticShape(NoUpdate, 0) EXCEPT
        !.dynamics = [d \in DynamicReticles |->
            [kind |-> kind, template |-> template, fields |-> fields, stream |-> stream]]]

MCTemplates == {"radar", "camera"}

\* Static deltas, confirmations, resets and a second mapping.
DeliveryShapes ==
    {StaticShape(Field, w) : w \in 0..1}
    \cup {StaticShape(update, 0) : update \in {ByName, ById, Both(ByName), Both(ById)}}
    \cup {[StaticShape(ByName, w) EXCEPT !.reset = TRUE] : w \in 0..1}
    \cup {[StaticShape(NoUpdate, 0) EXCEPT !.reset = TRUE]}
    \cup {[StaticShape(Field, 1) EXCEPT !.hash = beta]}

\* Lifecycle operations of one dynamic reticle, with a static delta and a reset.
LifecycleShapes ==
    {DynamicShape("upsert", t, f, s) : t \in MCTemplates, f \in SUBSET {"position"}, s \in BOOLEAN}
    \cup {DynamicShape("recreate", t, {}, s) : t \in MCTemplates, s \in BOOLEAN}
    \cup {DynamicShape("remove", "radar", {}, FALSE)}
    \cup {StaticShape(Field, 0)}
    \cup {[DynamicShape("upsert", "radar", {"position"}, TRUE) EXCEPT !.reset = TRUE]}

MCDeliveryShapes == DeliveryShapes \cup LifecycleShapes

\* What the threads do matters here, not what they write.
ThreadShapes == {StaticShape(Field, 1)}

\* Deltas around a reset.
ResetShapes ==
    {StaticShape(update, 0) : update \in {Field, ByName}}
    \cup {[StaticShape(Field, 0) EXCEPT !.reset = TRUE]}
=============================================================================
