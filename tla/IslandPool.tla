------------------------------ MODULE IslandPool ------------------------------
(***************************************************************************)
(* What the stealing deques promise propose_parallel: a pool of islands,   *)
(* each dealt to one worker.  A worker takes an island of its own at most  *)
(* once, another's only when no thief has; and nobody leaves while one of  *)
(* its own islands is with nobody.  That the owner and one thief may both  *)
(* take an island is what the buffered store costs.                        *)
(***************************************************************************)
EXTENDS Integers

CONSTANTS Workers,
          Islands,
          Owner       \* Owner[i]: the worker island i was dealt to

VARIABLES chunks,     \* chunks[w][i]: how often w took island i
          left        \* the workers that left their loop

vars == <<chunks, left>>

Taken(i) == \E w \in Workers : chunks[w][i] > 0

Init ==
    /\ chunks = [w \in Workers |-> [i \in Islands |-> 0]]
    /\ left = {}

Take(w, i) ==
    /\ w \notin left
    /\ chunks[w][i] = 0
    /\ w # Owner[i] => \A v \in Workers \ {Owner[i]} : chunks[v][i] = 0
    /\ chunks' = [chunks EXCEPT ![w][i] = 1]
    /\ UNCHANGED left

Leave(w) ==
    /\ w \notin left
    /\ \A i \in Islands : Owner[i] = w => Taken(i)
    /\ left' = left \cup {w}
    /\ UNCHANGED chunks

Next == \E w \in Workers : Leave(w) \/ \E i \in Islands : Take(w, i)

Spec == Init /\ [][Next]_vars
=============================================================================
