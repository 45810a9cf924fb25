---------------------------- MODULE MCAuthorStore ----------------------------
(* Two uses of the store, chosen with the initial state: transactions that *)
(* are edited, rebased and submitted while the process is killed twice,    *)
(* and transactions that compete for leases while a kill or a failed write *)
(* hits one of them.                                                       *)
EXTENDS AuthorStore

VARIABLE mix

Mixes ==
    {[objects |-> Objects, roots |-> {}, io |-> FALSE, faults |-> 2, seq |-> 10],
     [objects |-> {}, roots |-> Roots, io |-> TRUE, faults |-> 1, seq |-> 11]}

MixInit == Init /\ mix \in Mixes

MixNext ==
    /\ \/ Open \/ Close \/ Crash \/ Create \/ AdvanceClock
       \/ \E o \in Objects : LiveMoves(o)
       \/ \E id \in DOMAIN mem.txs :
             \/ Rebase(id) \/ Cancel(id) \/ Submit(id)
             \/ \E o \in mix.objects : Apply(id, o)
             \/ \E r \in mix.roots : AcquireLease(id, r)
             \/ \E l \in mem.leases : RenewLease(id, l)
    /\ faults' <= mix.faults /\ mem'.seq <= mix.seq
    /\ faults' > faults /\ mem'.up => mix.io
    /\ UNCHANGED mix

MixSpec == MixInit /\ [][MixNext]_<<vars, mix>>

(* A failed write leaves the memory image ahead of the transaction's file, *)
(* and Drop then publishes a review entry the file does not back: without  *)
(* failed writes, whatever the kills, the queue is exact.                  *)
QueueFrozen == ~mix.io => ReviewFrozen
=============================================================================
