------------------------------- MODULE JobDesk -------------------------------
(***************************************************************************)
(* What the inference host promises the simulation, whatever becomes of    *)
(* the child process, the pipes and the threads in between: a desk where   *)
(* jobs are left, and from which each goes once, used or not, within its   *)
(* time; after any round no job is left that is out of time; and a desk    *)
(* that closes has no jobs and never opens again.                          *)
(***************************************************************************)
EXTENDS Integers

CONSTANTS Jobs,     \* what may be submitted
          Slo,      \* ticks a job has
          MaxTick   \* where the tick saturates

VARIABLES now,      \* the tick
          closed,   \* inference is off
          open,     \* the jobs on the desk
          born,     \* the tick each job submitted was submitted at
          used      \* <<job, tick>>: the answers that were used

vars == <<now, closed, open, born, used>>

Init ==
    /\ now = 0
    /\ closed = FALSE
    /\ open = {}
    /\ born = <<>>
    /\ used = {}

InTime(S) == \A j \in S : now - born[j] \in 0 .. Slo

Use(U) == used' = used \cup {<<j, now>> : j \in U}

\* A job is submitted that never was.
Submit(j) ==
    /\ ~closed /\ j \notin DOMAIN born
    /\ open' = open \cup {j}
    /\ born' = [i \in DOMAIN born \cup {j} |-> IF i = j THEN now ELSE born[i]]
    /\ UNCHANGED <<now, closed, used>>

\* A round: some jobs go, some of those are used, and none out of time stays.
Settle(S, U) ==
    /\ ~closed
    /\ U \subseteq S /\ InTime(U)
    /\ open' = open \ S /\ InTime(open')
    /\ Use(U)
    /\ UNCHANGED <<now, closed, born>>

\* The desk closes; what is ready may be used, the other jobs are abandoned.
Close(U) ==
    /\ ~closed /\ closed' = TRUE
    /\ InTime(U) /\ Use(U)
    /\ open' = {}
    /\ UNCHANGED <<now, born>>

Tick ==
    /\ now' = IF now < MaxTick THEN now + 1 ELSE now
    /\ UNCHANGED <<closed, open, born, used>>

Next ==
    \/ \E j \in Jobs : Submit(j)
    \/ \E S \in SUBSET open : \E U \in SUBSET S : Settle(S, U)
    \/ \E U \in SUBSET open : Close(U)
    \/ Tick

Spec == Init /\ [][Next]_vars
=============================================================================
