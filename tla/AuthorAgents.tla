----------------------------- MODULE AuthorAgents ----------------------------
(***************************************************************************)
(* klotho-ai: the request scheduler (agent.rs) and the service that drives *)
(* requests (service.rs).  A request claims the anchors of its scope, is   *)
(* driven through a model backend into an isolated transaction, and is     *)
(* then a candidate that may be repaired, evaluated and submitted.         *)
(*                                                                         *)
(* A request has at most one transaction, so the transaction, the change   *)
(* and the request share one id, its position in rows.  The content of a   *)
(* snapshot is the sequence of anchors written into it, which is also its  *)
(* hash.  Of the budgets only tokens and repairs accumulate differently;   *)
(* the other caps are checked at the same places as tokens.                *)
(***************************************************************************)
EXTENDS Naturals, Sequences, FiniteSets

CONSTANTS Anchors,
          Scopes,       \* the anchor sets a request may ask for
          Tokens,       \* RequestBudget::tokens
          Repairs,      \* RequestBudget::repairs
          MaxRequests   \* bound on the requests enqueued

ASSUME BudgetAssumption == Tokens \in Nat /\ Repairs \in Nat
ASSUME RequestsAssumption == MaxRequests \in Nat /\ Scopes \subseteq SUBSET Anchors

VARIABLES rows,         \* AgentScheduler::records, by id
          owners,       \* AgentScheduler::owners
          txs,          \* the transactions of the store, by id
          sealed,       \* EvaluationBroker: passed bundles [change, hash]
          evidence      \* evidence_by_change: the hashes of the bundles attached

agentVars == <<rows, owners, txs, sealed, evidence>>

Ids == DOMAIN rows
NoOwner == 0
Driven == {"Queued", "Running"}
Active == {"Queued", "Paused", "Running", "TimedOut", "Candidate"}
Without(f, k) == [x \in DOMAIN f \ {k} |-> f[x]]
With(f, k, v) == [x \in DOMAIN f \cup {k} |-> IF x = k THEN v ELSE f[x]]

AgentInit ==
    /\ rows = <<>>
    /\ owners = [a \in Anchors |-> NoOwner]
    /\ txs = <<>>
    /\ sealed = {}
    /\ evidence = [id \in 1..MaxRequests |-> {}]

\* Claims every anchor of the scope, or none; dependencies are known requests.
Enqueue(scope, deps) ==
    /\ Len(rows) < MaxRequests
    /\ \A a \in scope : owners[a] = NoOwner
    /\ rows' = Append(rows, [scope |-> scope, deps |-> deps, state |-> "Queued", change |-> FALSE,
                             tokens |-> 0, repairs |-> 0])
    /\ owners' = [a \in Anchors |-> IF a \in scope THEN Len(rows) + 1 ELSE owners[a]]
    /\ UNCHANGED <<txs, sealed, evidence>>

\* mutant: only what is not yet a candidate is released
ReleaseUnfinished(id) ==
    owners' = [a \in Anchors |-> IF owners[a] = id /\ ~rows[id].change THEN NoOwner ELSE owners[a]]

Release(id) == owners' = [a \in Anchors |-> IF owners[a] = id THEN NoOwner ELSE owners[a]]

Ready(id) ==
    /\ rows[id].state \in Driven
    /\ \A d \in rows[id].deps : rows[d].state = "Candidate"

\* A backend, payload or budget error; also a failing apply or validation, which cancel the
\* transaction they had created.
DriveFails(id) ==
    /\ Ready(id)
    /\ rows' = [rows EXCEPT ![id].state = "Failed"]
    /\ Release(id)
    /\ UNCHANGED <<txs, sealed, evidence>>

DriveTimesOut(id) ==
    /\ Ready(id)
    /\ rows' = [rows EXCEPT ![id].state = "TimedOut"]
    /\ UNCHANGED <<owners, txs, sealed, evidence>>

\* No profile for the role, or ChangeCreate refused (another base): Err, the row stays Running.
DriveStops(id) ==
    /\ Ready(id)
    /\ rows' = [rows EXCEPT ![id].state = "Running"]
    /\ UNCHANGED <<owners, txs, sealed, evidence>>

\* Validation answers diagnostics: the request fails, its transaction stays open.
DriveInvalid(id, ops) ==
    /\ Ready(id)
    /\ rows' = [rows EXCEPT ![id].state = "Failed"]
    /\ txs' = With(txs, id, [status |-> "Open", cur |-> ops])
    /\ Release(id)
    /\ UNCHANGED <<sealed, evidence>>

DriveSucceeds(id, ops, tokens) ==
    /\ Ready(id)
    /\ tokens <= Tokens
    /\ txs' = With(txs, id, [status |-> "Open", cur |-> ops])
    /\ rows' = [rows EXCEPT ![id].state = "Candidate", ![id].change = TRUE, ![id].tokens = tokens]
    /\ UNCHANGED <<owners, sealed, evidence>>

Pause(id) ==
    /\ rows[id].state \in Driven
    /\ rows' = [rows EXCEPT ![id].state = "Paused"]
    /\ UNCHANGED <<owners, txs, sealed, evidence>>

Resume(id) ==
    /\ rows[id].state \in {"Paused", "TimedOut"}
    /\ rows' = [rows EXCEPT ![id].state = "Queued"]
    /\ UNCHANGED <<owners, txs, sealed, evidence>>

\* In any state.  The transaction goes first; one that is gone or submitted refuses.
Cancel(id) ==
    /\ rows[id].change => id \in DOMAIN txs /\ txs[id].status = "Open"
    /\ txs' = IF rows[id].change THEN Without(txs, id) ELSE txs
    /\ rows' = [rows EXCEPT ![id].state = "Cancelled"]
    /\ Release(id)
    /\ UNCHANGED <<sealed, evidence>>

\* The human review queue; the request keeps its state.
Submit(id) ==
    /\ id \in DOMAIN txs /\ txs[id].status = "Open"
    /\ txs' = [txs EXCEPT ![id].status = "Submitted"]
    /\ UNCHANGED <<rows, owners, sealed, evidence>>

\* The farm seals a passed bundle for the snapshot it was given.
Evaluate(id) ==
    /\ id \in DOMAIN txs
    /\ sealed' = sealed \cup {[change |-> id, hash |-> txs[id].cur]}
    /\ UNCHANGED <<rows, owners, txs, evidence>>

\* mutant: only the change of the bundle is compared
AttachAnyHash(id, bundle) ==
    /\ rows[id].change /\ id \in DOMAIN txs
    /\ bundle.change = id
    /\ evidence' = [evidence EXCEPT ![id] = @ \cup {bundle.hash}]
    /\ UNCHANGED <<rows, owners, txs, sealed>>

\* Evidence must be of this change and of its snapshot as it is now.
AttachEvidence(id, bundle) ==
    /\ rows[id].change /\ id \in DOMAIN txs
    /\ bundle.change = id /\ bundle.hash = txs[id].cur
    /\ evidence' = [evidence EXCEPT ![id] = @ \cup {bundle.hash}]
    /\ UNCHANGED <<rows, owners, txs, sealed>>

Repairable(id) ==
    /\ rows[id].state = "Candidate"
    /\ rows[id].repairs < Repairs

Fits(id, tokens) == rows[id].tokens + tokens <= Tokens

\* An answer over the remaining budget is refused and leaves the row as it was.
RepairOverBudget(id, tokens) ==
    /\ Repairable(id)
    /\ ~Fits(id, tokens)
    /\ UNCHANGED <<rows, owners, txs, sealed, evidence>>

\* Evidence is dropped and the attempt counted before the operations are applied; they may
\* be refused, and are on a submitted transaction.
Repair(id, ops, tokens) ==
    /\ Repairable(id) /\ Fits(id, tokens)
    /\ evidence' = [evidence EXCEPT ![id] = {}]
    /\ rows' = [rows EXCEPT ![id].tokens = @ + tokens, ![id].repairs = @ + 1]
    /\ \/ /\ id \in DOMAIN txs /\ txs[id].status = "Open"
          /\ txs' = [txs EXCEPT ![id].cur = @ \o ops]
       \/ UNCHANGED txs
    /\ UNCHANGED <<owners, sealed>>

\* The operations a backend may propose for a request: writes inside its scope.
Proposals(id) == {<<a>> : a \in rows[id].scope}

AgentStep(id) ==
    \/ DriveFails(id) \/ DriveTimesOut(id) \/ DriveStops(id)
    \/ Pause(id) \/ Resume(id) \/ Cancel(id) \/ Submit(id) \/ Evaluate(id)
    \/ \E b \in sealed : AttachEvidence(id, b)
    \/ \E ops \in Proposals(id) :
          \/ DriveInvalid(id, ops)
          \/ \E t \in 1..Tokens : DriveSucceeds(id, ops, t) \/ Repair(id, ops, t)
    \/ \E t \in 1..Tokens : RepairOverBudget(id, t)

AgentNext ==
    \/ \E scope \in Scopes, deps \in {{}} \cup {{d} : d \in Ids} : Enqueue(scope, deps)
    \/ \E id \in Ids : AgentStep(id)

AgentSpec == AgentInit /\ [][AgentNext]_agentVars
-----------------------------------------------------------------------------
(* Properties.                                                             *)

TypeOK ==
    /\ \A id \in Ids :
         /\ rows[id].scope \subseteq Anchors /\ rows[id].deps \subseteq 1..(id - 1)
         /\ rows[id].state \in Active \cup {"Failed", "Cancelled"}
    /\ owners \in [Anchors -> 0..Len(rows)]
    /\ DOMAIN txs \subseteq Ids
    /\ \A b \in sealed : b.change \in Ids

\* The evidence a reviewer is shown was sealed for the candidate as it is now, whatever was
\* repaired, re-evaluated and attached late in between.
EvidenceFresh ==
    \A id \in Ids : \A h \in evidence[id] :
        /\ [change |-> id, hash |-> h] \in sealed
        /\ id \in DOMAIN txs => h = txs[id].cur

\* A request that may still write owns its whole scope, and nobody else owns an anchor: no
\* error path, timeout or cancellation leaves an anchor behind or gives one away.
OwnersAreActive ==
    \A id \in Ids : \A a \in Anchors :
        (owners[a] = id) <=> (rows[id].state \in Active /\ a \in rows[id].scope)
=============================================================================
