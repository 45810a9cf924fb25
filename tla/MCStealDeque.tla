---------------------------- MODULE MCStealDeque ----------------------------
(* Bounded instances of StealDeque.                                        *)
EXTENDS StealDeque

CONSTANTS NIslands,  \* islands of the step
          NFew       \* those of another step: some deques are empty

(* propose_parallel: island i goes to deque i % n_workers.                 *)
Dealt(n) ==
    [w \in Workers |-> Cardinality({i \in 0 .. n - 1 : i % NWorkers = w})]

RoundRobin == Dealt(NIslands)

(* A step with few islands; only its initial states differ.                *)
Few == INSTANCE StealDeque WITH Count <- Dealt(NFew)
IsFew == DOMAIN chunks[0] # Islands

MixSpec == (Init \/ Few!Init) /\ [][Next]_vars /\ Fairness

(* ImplementsPool of the step at hand: an owner and at most one thief take *)
(* an island, each once, and a worker that leaves its loop leaves no       *)
(* island of its own behind, also when its own deque was empty at first.   *)
EachImplementsPool ==
    /\ IF IsFew THEN Few!Pool!Init ELSE Pool!Init
    /\ [][IF IsFew THEN Few!Pool!Next ELSE Pool!Next]_(Pool!vars)

=============================================================================
