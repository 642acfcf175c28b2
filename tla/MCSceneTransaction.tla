------------------------- MODULE MCSceneTransaction -------------------------
(* An instance of SceneTransaction: two pages with two strobes each, two    *)
(* dynamic reticles, two positions within the magnet's reach. Pairs of      *)
(* commands are submitted with a third command that fails.                  *)
EXTENDS SceneTransaction, TLC

CONSTANTS A, B, Blip, Mark, r1, r2, s1, s2

MCBound == (A :> {Blip}) @@ (B :> {Blip})

Reset == [kind |-> "reset"]
View(p, v) == [kind |-> "view", page |-> p, value |-> v]
Upsert(p, r, t, x, v) ==
    [kind |-> "upsert", page |-> p, reticle |-> r, template |-> t, position |-> x, visible |-> v]
Update(p, s, x) == [kind |-> "strobe", page |-> p, strobe |-> s, visible |-> Keep, position |-> x]
Patch(p, v, available, id) ==
    [kind |-> "widget", page |-> p, value |-> v, available |-> available, request |-> id]

\* Commands whose effects stay, and commands only rolled back.
Staying ==
    {[kind |-> "page", page |-> p] : p \in {A, B}}
    \cup {Upsert(A, r1, Blip, 1, Keep), Upsert(A, r2, Blip, 0, TRUE), Upsert(B, r1, Blip, 1, Keep)}
    \cup {Reset, [kind |-> "remove", page |-> A, reticle |-> r1]}
    \cup {[kind |-> "magnet", page |-> A, template |-> Blip, on |-> TRUE]}
    \cup {Update(A, Keep, 1), Update(A, s2, Keep), Patch(A, 1, Keep, 1)}

Passing ==
    {View(B, 1), [kind |-> "display", value |-> 1], Patch(B, Keep, FALSE, Keep),
     Upsert(A, r1, Blip, 1, FALSE),
     [kind |-> "visibility", page |-> A, template |-> Blip, on |-> FALSE]}

Commands == Staying \cup Passing

MCBatches ==
    {<<c>> : c \in Staying}
    \cup {<<c, d, View("unknown", 1)>> : c \in Commands, d \in Staying \ {Reset}}
    \cup {<<[kind |-> "page", page |-> B], Upsert(A, r1, Mark, 0, Keep)>>,
          <<View(B, 1), Patch(A, 2, Keep, Keep)>>}

\* Neighbours with one key, with another one, and with a barrier between them.
Hide == Upsert(A, r1, Blip, 1, FALSE)
Show == Upsert(A, r1, Blip, Keep, TRUE)
Back == Upsert(A, r1, Blip, 0, Keep)
Singles ==
    {Hide, Show, Back,
     Upsert(A, r2, Blip, 1, Keep), Update(A, Keep, 1), Update(A, Keep, 0), Update(A, s2, Keep),
     View(A, 0), View(A, 1)}
    \cup {[kind |-> "magnet", page |-> A, template |-> Blip, on |-> b] : b \in BOOLEAN}

\* Longer ones lock a strobe and let it go, or two strobes of the page.
Longer ==
    {<<Hide, Show, Back>>, <<Update(A, Keep, 1), Hide, Show>>, <<Hide, Show, Update(A, s2, Keep), Hide, Show>>}

MCBursts ==
    {<<c, d>> : c, d \in Singles} \cup Longer
    \cup {<<Upsert(A, r1, Blip, 0, TRUE), barrier, Upsert(A, r1, Blip, 1, Keep)>> :
            barrier \in {Reset, [kind |-> "remove", page |-> A, reticle |-> r1], [kind |-> "page", page |-> B]}}

=============================================================================
