--------------------------- MODULE AuthoringProofs ---------------------------
(***************************************************************************)
(* Proofs about authoring with agents.  Distaff, and the request scheduler *)
(* and service it composes, for every set of anchors and scopes, every     *)
(* budget and every number of requests: who owns an anchor, what evidence  *)
(* is of, and what a review installs.  AuthorMerge, for all operations and *)
(* bases: a merge does not depend on which change is the left one.         *)
(***************************************************************************)
EXTENDS Distaff, AuthorMerge, SequenceTheorems, FiniteSetTheorems, FunctionTheorems,
        WellFoundedInduction, TLAPS

Row == [scope : SUBSET Anchors, deps : SUBSET Nat, state : Active \cup {"Failed", "Cancelled"},
        change : BOOLEAN, tokens : Nat, repairs : Nat]

AgentTypes ==
    /\ rows \in Seq(Row) /\ Len(rows) <= MaxRequests
    /\ owners \in [Anchors -> 0 .. Len(rows)]
    /\ evidence \in [1 .. MaxRequests -> SUBSET {s.hash : s \in sealed}]
    /\ \A s \in sealed : s = [change |-> s.change, hash |-> s.hash]

(* A transaction is only ever given to a row that has none; from then on   *)
(* the row is a candidate until it is cancelled.  Evidence is of those.    *)
Candidates ==
    /\ \A id \in Ids : rows[id].change => rows[id].state \in {"Candidate", "Cancelled"}
    /\ \A id \in 1 .. MaxRequests : evidence[id] # {} => id \in Ids /\ rows[id].change

AInv == AgentTypes /\ Candidates /\ OwnersAreActive /\ EvidenceFresh

LEMMA RowIds == ASSUME AgentTypes PROVE Ids = 1 .. Len(rows) /\ Len(rows) \in Nat
  BY DEF AgentTypes, Ids

THEOREM AgentInitial == Init => AInv
<1> SUFFICES ASSUME Init PROVE AInv
  OBVIOUS
<1>1. /\ rows = <<>> /\ sealed = {} /\ owners = [a \in Anchors |-> 0]
      /\ evidence = [id \in 1 .. MaxRequests |-> {}]
  BY DEF Init, AgentInit, NoOwner
<1>2. rows \in Seq(Row) /\ Len(rows) = 0 /\ Ids = {}
  BY <1>1 DEF Ids
<1> QED BY <1>1, <1>2, RequestsAssumption
        DEF AInv, AgentTypes, Candidates, OwnersAreActive, EvidenceFresh

(* What replacing one row does.                                            *)
LEMMA RowReplaced ==
  ASSUME AgentTypes, NEW id \in Ids, NEW r \in Row, rows' = [rows EXCEPT ![id] = r]
  PROVE  /\ rows' \in Seq(Row) /\ Len(rows') = Len(rows) /\ Ids' = Ids
         /\ rows'[id] = r /\ \A j \in Ids \ {id} : rows'[j] = rows[j]
<1>1. rows \in Seq(Row) /\ id \in 1 .. Len(rows)
  BY RowIds DEF AgentTypes
<1>2. rows' \in Seq(Row) /\ Len(rows') = Len(rows)
  BY <1>1
<1>3. rows'[id] = r /\ \A j \in Ids \ {id} : rows'[j] = rows[j]
  BY <1>1 DEF Ids
<1> QED BY <1>1, <1>2, <1>3 DEF Ids

(* A row that stays active keeps its anchors; one that ends gives them all *)
(* back, in the same step.                                                 *)
LEMMA OwnersFollow ==
  ASSUME AgentTypes, OwnersAreActive, NEW id \in Ids, NEW r \in Row,
         rows' = [rows EXCEPT ![id] = r], r.scope = rows[id].scope,
         \/ owners' = owners /\ rows[id].state \in Active /\ r.state \in Active
         \/ Release(id) /\ r.state \notin Active
  PROVE  owners' \in [Anchors -> 0 .. Len(rows')] /\ OwnersAreActive'
<1>1. /\ Len(rows') = Len(rows) /\ Ids' = Ids /\ rows'[id] = r
      /\ \A j \in Ids \ {id} : rows'[j] = rows[j]
  BY RowReplaced
<1>2. Ids = 1 .. Len(rows) /\ Len(rows) \in Nat
  BY RowIds
<1>3. owners \in [Anchors -> 0 .. Len(rows)]
  BY DEF AgentTypes
<1>4. CASE owners' = owners /\ rows[id].state \in Active /\ r.state \in Active
  BY <1>1, <1>2, <1>3, <1>4 DEF OwnersAreActive
<1>5. CASE Release(id) /\ r.state \notin Active
  <2>1. \A a \in Anchors : owners'[a] = IF owners[a] = id THEN 0 ELSE owners[a]
    BY <1>5 DEF Release, NoOwner
  <2>2. owners' \in [Anchors -> 0 .. Len(rows)]
    BY <1>2, <1>3, <1>5 DEF Release, NoOwner
  <2>3. OwnersAreActive'
    <3> SUFFICES ASSUME NEW j \in Ids, NEW a \in Anchors
                 PROVE  owners'[a] = j <=> rows'[j].state \in Active /\ a \in rows'[j].scope
      BY <1>1 DEF OwnersAreActive, Active
    <3>1. CASE j = id
      BY <1>1, <1>2, <1>5, <2>1, <3>1
    <3>2. CASE j # id
      BY <1>1, <1>2, <2>1, <3>2 DEF OwnersAreActive
    <3> QED BY <3>1, <3>2
  <2> QED BY <1>1, <2>2, <2>3
<1> QED BY <1>4, <1>5

(* The steps that only move a row through its states.                      *)
LEMMA StateStep ==
  ASSUME AInv, NEW id \in Ids, NEW s \in Active \cup {"Failed", "Cancelled"},
         rows' = [rows EXCEPT ![id].state = s],
         \/ owners' = owners /\ rows[id].state \in Active /\ s \in Active
         \/ Release(id) /\ s \notin Active,
         rows[id].change => s = "Cancelled",
         UNCHANGED <<sealed, evidence>>,
         \A j \in DOMAIN txs' : j \in DOMAIN txs /\ txs'[j] = txs[j]
  PROVE  AInv'
<1>1. AgentTypes /\ Candidates /\ OwnersAreActive /\ EvidenceFresh
  BY DEF AInv
<1> DEFINE r == [rows[id] EXCEPT !.state = s]
<1>2. rows[id] \in Row
  BY <1>1, RowIds DEF AgentTypes
<1>3. /\ r \in Row /\ r.scope = rows[id].scope /\ r.state = s /\ r.change = rows[id].change
      /\ rows' = [rows EXCEPT ![id] = r]
  BY <1>2 DEF Row
<1> HIDE DEF r
<1>4. /\ rows' \in Seq(Row) /\ Len(rows') = Len(rows) /\ Ids' = Ids
      /\ rows'[id] = r /\ \A j \in Ids \ {id} : rows'[j] = rows[j]
  BY <1>1, <1>3, RowReplaced
<1>5. owners' \in [Anchors -> 0 .. Len(rows')] /\ OwnersAreActive'
  BY <1>1, <1>3, OwnersFollow
<1>6. AgentTypes'
  BY <1>1, <1>4, <1>5 DEF AgentTypes
<1>7. Candidates'
  BY <1>1, <1>3, <1>4 DEF Candidates
<1>8. EvidenceFresh'
  BY <1>1, <1>4 DEF EvidenceFresh
<1> QED BY <1>5, <1>6, <1>7, <1>8 DEF AInv

(* A new request takes anchors nobody owns, all of its scope or none.      *)
LEMMA EnqueueStep ==
  ASSUME AInv, NEW scope \in Scopes, NEW deps \in SUBSET Ids, Enqueue(scope, deps)
  PROVE  AInv'
<1> USE RequestsAssumption
<1>1. AgentTypes /\ Candidates /\ OwnersAreActive /\ EvidenceFresh
  BY DEF AInv
<1> DEFINE n == Len(rows) + 1
           row == [scope |-> scope, deps |-> deps, state |-> "Queued", change |-> FALSE,
                   tokens |-> 0, repairs |-> 0]
<1>2. Ids = 1 .. Len(rows) /\ Len(rows) \in Nat /\ n \in 1 .. MaxRequests
  BY <1>1, RowIds DEF Enqueue, AgentTypes
<1>3. row \in Row /\ rows' = Append(rows, row)
  BY <1>2 DEF Row, Enqueue, Active
<1>4. row.state = "Queued" /\ row.scope = scope /\ row.change = FALSE
  OBVIOUS
<1> HIDE DEF row
<1>5. /\ rows' \in Seq(Row) /\ Len(rows') = n /\ Ids' = Ids \cup {n} /\ n \notin Ids
      /\ rows'[n] = row /\ \A id \in Ids : rows'[id] = rows[id]
  BY <1>1, <1>2, <1>3 DEF AgentTypes, Ids
<1>6. /\ \A a \in scope : owners[a] = 0 /\ a \in Anchors
      /\ owners' = [a \in Anchors |-> IF a \in scope THEN n ELSE owners[a]]
      /\ UNCHANGED <<txs, sealed, evidence>>
  BY DEF Enqueue, NoOwner
<1>7. AgentTypes'
  BY <1>1, <1>2, <1>5, <1>6 DEF AgentTypes
<1>8. Candidates'
  BY <1>1, <1>4, <1>5, <1>6 DEF Candidates
<1>9. OwnersAreActive'
  <2> SUFFICES ASSUME NEW id \in Ids \cup {n}, NEW a \in Anchors
               PROVE  owners'[a] = id <=> rows'[id].state \in Active /\ a \in rows'[id].scope
    BY <1>5 DEF OwnersAreActive, Active
  <2>1. owners'[a] = IF a \in scope THEN n ELSE owners[a]
    BY <1>6
  <2>2. owners[a] \in 0 .. Len(rows)
    BY <1>1 DEF AgentTypes
  <2>3. CASE id = n
    <3>1. owners'[a] = id <=> a \in scope
      BY <1>2, <2>1, <2>2, <2>3
    <3> QED BY <1>4, <1>5, <2>3, <3>1 DEF Active
  <2>4. CASE id # n
    <3>1. id \in Ids /\ owners'[a] = id <=> owners[a] = id
      BY <1>2, <1>6, <2>1, <2>4
    <3> QED BY <1>1, <1>2, <1>5, <2>1, <2>4, <1>6 DEF OwnersAreActive
  <2> QED BY <2>3, <2>4
<1>10. EvidenceFresh'
  BY <1>1, <1>2, <1>5, <1>6 DEF EvidenceFresh, Candidates
<1> QED BY <1>7, <1>8, <1>9, <1>10 DEF AInv

(* A drive that made a transaction: the row had none, so no evidence is of *)
(* what the transaction holds now.                                         *)
LEMMA DriveStep ==
  ASSUME AInv, NEW id \in Ids, NEW ops, NEW tokens \in Nat,
         DriveInvalid(id, ops) \/ DriveSucceeds(id, ops, tokens)
  PROVE  AInv'
<1>1. AgentTypes /\ Candidates /\ OwnersAreActive /\ EvidenceFresh
  BY DEF AInv
<1>2. rows[id].state \in Driven /\ rows[id].state \in Active /\ ~rows[id].change
  BY <1>1 DEF DriveInvalid, DriveSucceeds, Ready, Driven, Active, Candidates
<1>3. id \in 1 .. MaxRequests /\ evidence[id] = {}
  BY <1>1, <1>2, RowIds, RequestsAssumption DEF AgentTypes, Candidates
<1>4. rows[id] \in Row
  BY <1>1, RowIds DEF AgentTypes
<1>5. PICK r \in Row :
         /\ rows' = [rows EXCEPT ![id] = r] /\ r.scope = rows[id].scope
         /\ r.change => r.state = "Candidate"
         /\ \/ owners' = owners /\ r.state \in Active
            \/ Release(id) /\ r.state \notin Active
  <2>1. CASE DriveInvalid(id, ops)
    <3> DEFINE r == [rows[id] EXCEPT !.state = "Failed"]
    <3>1. r \in Row /\ r.scope = rows[id].scope /\ r.state = "Failed" /\ ~r.change
      BY <1>2, <1>4 DEF Row
    <3>2. rows' = [rows EXCEPT ![id] = r] /\ Release(id)
      BY <2>1 DEF DriveInvalid
    <3> QED BY <3>1, <3>2 DEF Active
  <2>2. CASE DriveSucceeds(id, ops, tokens)
    <3> DEFINE r == [rows[id] EXCEPT !.state = "Candidate", !.change = TRUE, !.tokens = tokens]
    <3>1. r \in Row /\ r.scope = rows[id].scope /\ r.state = "Candidate"
      BY <1>4 DEF Row, Active
    <3>2. rows' = [rows EXCEPT ![id] = r] /\ owners' = owners
      BY <1>1, <2>2, <1>4 DEF DriveSucceeds, Row, AgentTypes
    <3> QED BY <3>1, <3>2 DEF Active
  <2> QED BY <2>1, <2>2
<1>6. /\ rows' \in Seq(Row) /\ Len(rows') = Len(rows) /\ Ids' = Ids
      /\ rows'[id] = r /\ \A j \in Ids \ {id} : rows'[j] = rows[j]
  BY <1>1, <1>5, RowReplaced
<1>7. owners' \in [Anchors -> 0 .. Len(rows')] /\ OwnersAreActive'
  BY <1>1, <1>2, <1>5, OwnersFollow
<1>8. /\ UNCHANGED <<sealed, evidence>>
      /\ \A j \in DOMAIN txs' \ {id} : j \in DOMAIN txs /\ txs'[j] = txs[j]
  BY DEF DriveInvalid, DriveSucceeds, With
<1>9. AgentTypes'
  BY <1>1, <1>6, <1>7, <1>8 DEF AgentTypes
<1>10. Candidates'
  BY <1>1, <1>3, <1>5, <1>6, <1>8 DEF Candidates
<1>11. EvidenceFresh'
  BY <1>1, <1>3, <1>6, <1>8 DEF EvidenceFresh
<1> QED BY <1>7, <1>9, <1>10, <1>11 DEF AInv

(* The steps that leave rows and owners alone.                             *)
LEMMA OwnershipKept ==
  ASSUME AInv, UNCHANGED <<rows, owners>>
  PROVE  Ids' = Ids /\ OwnersAreActive'
  BY DEF AInv, OwnersAreActive, Ids, Active

LEMMA Unchanged == ASSUME AInv, UNCHANGED agentVars PROVE AInv'
<1>1. UNCHANGED <<rows, owners, txs, sealed, evidence>>
  BY DEF agentVars
<1>2. EvidenceFresh'
  <2>1. EvidenceFresh /\ Ids' = Ids
    BY <1>1, OwnershipKept DEF AInv
  <2> SUFFICES ASSUME NEW j \in Ids', NEW h \in evidence'[j]
               PROVE  /\ [change |-> j, hash |-> h] \in sealed'
                      /\ j \in DOMAIN txs' => h = txs'[j].cur
    BY Zenon DEF EvidenceFresh
  <2> QED BY <1>1, <2>1 DEF EvidenceFresh
<1>3. AgentTypes' /\ Candidates'
  BY <1>1, OwnershipKept DEF AInv, AgentTypes, Candidates
<1> QED BY <1>1, <1>2, <1>3, OwnershipKept DEF AInv

LEMMA SubmitStep == ASSUME AInv, NEW id \in Ids, Submit(id) PROVE AInv'
<1>1. /\ UNCHANGED <<rows, owners, sealed, evidence>> /\ DOMAIN txs' = DOMAIN txs
      /\ \A j \in DOMAIN txs : txs'[j].cur = txs[j].cur
  <2>1. /\ UNCHANGED <<rows, owners, sealed, evidence>> /\ id \in DOMAIN txs
        /\ txs' = [txs EXCEPT ![id] = [txs[id] EXCEPT !.status = "Submitted"]]
    BY DEF Submit
  <2>2. [txs[id] EXCEPT !.status = "Submitted"].cur = txs[id].cur
    OBVIOUS
  <2> QED BY <2>1, <2>2
<1>2. AgentTypes' /\ Candidates'
  BY <1>1, OwnershipKept DEF AInv, AgentTypes, Candidates
<1>3. EvidenceFresh'
  <2>1. EvidenceFresh /\ Ids' = Ids /\ sealed' = sealed /\ evidence' = evidence
    BY OwnershipKept, <1>1 DEF AInv
  <2> SUFFICES ASSUME NEW j \in Ids', NEW h \in evidence'[j]
               PROVE  /\ [change |-> j, hash |-> h] \in sealed'
                      /\ j \in DOMAIN txs' => h = txs'[j].cur
    BY Zenon DEF EvidenceFresh
  <2> QED BY <1>1, <2>1 DEF EvidenceFresh
<1> QED BY <1>1, <1>2, <1>3, OwnershipKept DEF AInv

(* Sealing more takes no evidence back.                                    *)
LEMMA EvaluateStep == ASSUME AInv, NEW id \in Ids, Evaluate(id) PROVE AInv'
<1>1. UNCHANGED <<rows, owners, txs, evidence>> /\ sealed \subseteq sealed'
  BY DEF Evaluate
<1>2. evidence' \in [1 .. MaxRequests -> SUBSET {s.hash : s \in sealed'}]
  BY <1>1 DEF AInv, AgentTypes
<1>3. AgentTypes' /\ Candidates'
  <2>1. \A s \in sealed' : s = [change |-> s.change, hash |-> s.hash]
    BY DEF AInv, AgentTypes, Evaluate
  <2> QED BY <1>1, <1>2, <2>1, OwnershipKept DEF AInv, AgentTypes, Candidates
<1>4. EvidenceFresh'
  <2>1. EvidenceFresh /\ Ids' = Ids
    BY OwnershipKept, <1>1 DEF AInv
  <2> SUFFICES ASSUME NEW j \in Ids', NEW h \in evidence'[j]
               PROVE  /\ [change |-> j, hash |-> h] \in sealed'
                      /\ j \in DOMAIN txs' => h = txs'[j].cur
    BY Zenon DEF EvidenceFresh
  <2> QED BY <1>1, <2>1 DEF EvidenceFresh
<1> QED BY <1>1, <1>3, <1>4, OwnershipKept DEF AInv

(* What is attached is of the snapshot as it is now, as all there was.     *)
LEMMA AttachStep ==
  ASSUME AInv, NEW id \in Ids, NEW b \in sealed, AttachEvidence(id, b)
  PROVE  AInv'
<1>1. AgentTypes /\ Candidates /\ OwnersAreActive /\ EvidenceFresh
  BY DEF AInv
<1>2. /\ UNCHANGED <<rows, owners, txs, sealed>> /\ rows[id].change /\ b.change = id
      /\ id \in DOMAIN txs => b.hash = txs[id].cur
      /\ evidence' = [evidence EXCEPT ![id] = @ \cup {b.hash}]
  BY DEF AttachEvidence
<1>3. /\ id \in 1 .. MaxRequests /\ evidence'[id] = evidence[id] \cup {b.hash}
      /\ \A j \in 1 .. MaxRequests \ {id} : evidence'[j] = evidence[j]
      /\ evidence' \in [1 .. MaxRequests -> SUBSET {s.hash : s \in sealed}]
  BY <1>1, <1>2, RowIds, RequestsAssumption DEF AgentTypes
<1>4. Ids' = Ids /\ OwnersAreActive'
  BY <1>2, OwnershipKept
<1>5. AgentTypes'
  BY <1>1, <1>2, <1>3 DEF AgentTypes
<1>6. Candidates'
  BY <1>1, <1>2, <1>3, <1>4 DEF Candidates
<1>7. EvidenceFresh'
  <2> SUFFICES ASSUME NEW j \in Ids', NEW h \in evidence'[j]
               PROVE  /\ [change |-> j, hash |-> h] \in sealed'
                      /\ j \in DOMAIN txs' => h = txs'[j].cur
    BY Zenon DEF EvidenceFresh
  <2>1. j \in Ids /\ j \in 1 .. MaxRequests
    BY <1>1, <1>4, RowIds, RequestsAssumption DEF AgentTypes
  <2>2. CASE h \in evidence[j]
    BY <1>1, <1>2, <2>1, <2>2 DEF EvidenceFresh
  <2>3. CASE j = id /\ h = b.hash
    <3>1. b = [change |-> b.change, hash |-> b.hash]
      BY <1>1 DEF AgentTypes
    <3> QED BY <1>2, <2>3, <3>1
  <2> QED BY <1>3, <2>1, <2>2, <2>3
<1> QED BY <1>4, <1>5, <1>6, <1>7 DEF AInv

(* A repair takes the evidence away before it touches the transaction.     *)
LEMMA RepairStep ==
  ASSUME AInv, NEW id \in Ids, NEW ops, NEW tokens \in Nat, Repair(id, ops, tokens)
  PROVE  AInv'
<1>1. AgentTypes /\ Candidates /\ OwnersAreActive /\ EvidenceFresh
  BY DEF AInv
<1> DEFINE r == [rows[id] EXCEPT !.tokens = @ + tokens, !.repairs = @ + 1]
<1>2. rows[id] \in Row
  BY <1>1, RowIds DEF AgentTypes
<1>3. /\ r \in Row /\ r.scope = rows[id].scope /\ r.state = rows[id].state
      /\ r.change = rows[id].change
  <2>1. rows[id].tokens + tokens \in Nat /\ rows[id].repairs + 1 \in Nat
    BY <1>2 DEF Row
  <2> QED BY <1>2, <2>1 DEF Row
<1>4. rows' = [rows EXCEPT ![id] = r] /\ UNCHANGED <<owners, sealed>>
      /\ rows[id].state = "Candidate" /\ evidence' = [evidence EXCEPT ![id] = {}]
  BY DEF Repair, Repairable
<1> HIDE DEF r
<1>5. /\ rows' \in Seq(Row) /\ Len(rows') = Len(rows) /\ Ids' = Ids
      /\ rows'[id] = r /\ \A j \in Ids \ {id} : rows'[j] = rows[j]
  BY <1>1, <1>3, <1>4, RowReplaced
<1>6. owners' \in [Anchors -> 0 .. Len(rows')] /\ OwnersAreActive'
  BY <1>1, <1>3, <1>4, OwnersFollow DEF Active
<1>7. /\ id \in 1 .. MaxRequests /\ evidence'[id] = {}
      /\ \A j \in 1 .. MaxRequests \ {id} : evidence'[j] = evidence[j]
      /\ evidence' \in [1 .. MaxRequests -> SUBSET {s.hash : s \in sealed}]
  BY <1>1, <1>4, RowIds, RequestsAssumption DEF AgentTypes
<1>8. DOMAIN txs' = DOMAIN txs /\ \A j \in DOMAIN txs \ {id} : txs'[j] = txs[j]
  BY DEF Repair
<1>9. AgentTypes'
  BY <1>1, <1>4, <1>5, <1>6, <1>7 DEF AgentTypes
<1>10. Candidates'
  BY <1>1, <1>3, <1>5, <1>7 DEF Candidates
<1>11. EvidenceFresh'
  <2> SUFFICES ASSUME NEW j \in Ids', NEW h \in evidence'[j]
               PROVE  /\ [change |-> j, hash |-> h] \in sealed'
                      /\ j \in DOMAIN txs' => h = txs'[j].cur
    BY Zenon DEF EvidenceFresh
  <2>1. j \in Ids /\ j \in 1 .. MaxRequests /\ j # id
    BY <1>1, <1>5, <1>7, RowIds, RequestsAssumption DEF AgentTypes
  <2> QED BY <1>1, <1>4, <1>7, <1>8, <2>1 DEF EvidenceFresh
<1> QED BY <1>6, <1>9, <1>10, <1>11 DEF AInv

(* Every step of the service keeps the invariant.                          *)
LEMMA AgentSteps == ASSUME AInv, NEW id \in Ids, AgentStep(id) PROVE AInv'
<1> USE BudgetAssumption
<1>1. AgentTypes /\ Candidates /\ OwnersAreActive /\ EvidenceFresh
  BY DEF AInv
<1>2. /\ rows[id] \in Row /\ Driven \subseteq Active
      /\ rows[id].state \in Driven => ~rows[id].change
      /\ rows[id].state \in {"Paused", "TimedOut"} => ~rows[id].change
  <2>1. rows[id] \in Row
    BY <1>1, RowIds DEF AgentTypes
  <2>2. rows[id].change => rows[id].state \in {"Candidate", "Cancelled"}
    BY <1>1 DEF Candidates
  <2>3. Driven \subseteq Active
    BY DEF Driven, Active
  <2> QED BY <2>1, <2>2, <2>3 DEF Driven
<1>3. CASE DriveFails(id)
  BY <1>2, <1>3, StateStep DEF DriveFails, Ready, Active
<1>4. CASE DriveTimesOut(id)
  BY <1>2, <1>4, StateStep DEF DriveTimesOut, Ready, Active
<1>5. CASE DriveStops(id)
  BY <1>2, <1>5, StateStep DEF DriveStops, Ready, Active
<1>6. CASE Pause(id)
  BY <1>2, <1>6, StateStep DEF Pause, Active
<1>7. CASE Resume(id)
  BY <1>2, <1>7, StateStep DEF Resume, Active
<1>8. CASE Cancel(id)
  <2>1. \A j \in DOMAIN txs' : j \in DOMAIN txs /\ txs'[j] = txs[j]
    BY <1>8 DEF Cancel, Without
  <2> QED BY <1>8, <2>1, StateStep DEF Cancel, Active
<1>9. CASE Submit(id)
  BY <1>9, SubmitStep
<1>10. CASE Evaluate(id)
  BY <1>10, EvaluateStep
<1>11. ASSUME NEW b \in sealed, AttachEvidence(id, b) PROVE AInv'
  BY <1>11, AttachStep
<1>12. ASSUME NEW ops, DriveInvalid(id, ops) PROVE AInv'
  <2>1. 0 \in Nat
    OBVIOUS
  <2> QED BY <1>12, <2>1, DriveStep
<1>13. ASSUME NEW ops, NEW t \in 1 .. Tokens, DriveSucceeds(id, ops, t) PROVE AInv'
  <2>1. t \in Nat
    OBVIOUS
  <2> QED BY <1>13, <2>1, DriveStep
<1>14. ASSUME NEW ops, NEW t \in 1 .. Tokens, Repair(id, ops, t) PROVE AInv'
  <2>1. t \in Nat
    OBVIOUS
  <2> QED BY <1>14, <2>1, RepairStep
<1>15. ASSUME NEW t \in 1 .. Tokens, RepairOverBudget(id, t) PROVE AInv'
  <2>1. UNCHANGED agentVars
    BY <1>15 DEF RepairOverBudget, agentVars
  <2> QED BY <2>1, Unchanged
<1> QED BY <1>3, <1>4, <1>5, <1>6, <1>7, <1>8, <1>9, <1>10, <1>11, <1>12, <1>13, <1>14, <1>15
        DEF AgentStep

LEMMA Preserved == ASSUME AInv, [Next]_vars PROVE AInv'
<1>1. CASE AgentNext
  <2>1. ASSUME NEW scope \in Scopes, NEW deps \in {{}} \cup {{d} : d \in Ids}, Enqueue(scope, deps)
        PROVE  AInv'
    BY <2>1, EnqueueStep
  <2> QED BY <1>1, <2>1, AgentSteps DEF AgentNext
<1>2. CASE UNCHANGED agentVars
  BY <1>2, Unchanged
<1>3. ASSUME Review PROVE UNCHANGED agentVars
  BY <1>3 DEF Review, Open, Rerun, AttachRerun, PinReview, Reject, SelectGroups, SelectRefused
<1> QED BY <1>1, <1>2, <1>3 DEF Next, Agent, vars

THEOREM SpecAInv == Spec => []AInv
<1> QED BY AgentInitial, Preserved, PTL DEF Spec

(* No path of the service, cancelled, failed or timed out, in whatever     *)
(* state of the editor, leaves an anchor owned by a request that may not   *)
(* write it, or an active request without its scope.                       *)
THEOREM SpecOwnersAreActive == Spec => []OwnersAreActive
<1>1. AInv => OwnersAreActive
  BY DEF AInv
<1> QED BY <1>1, SpecAInv, PTL

(* Evidence attached to a change was sealed for what its transaction holds *)
(* now.                                                                    *)
THEOREM SpecEvidenceFresh == Spec => []EvidenceFresh
<1>1. AInv => EvidenceFresh
  BY DEF AInv
<1> QED BY <1>1, SpecAInv, PTL
-----------------------------------------------------------------------------
(* Reviews: a review copies what a candidate holds and the evidence of it, *)
(* and what it shows for a selection was sealed for that selection.        *)

Change == [status : {"Open", "Submitted"}, cur : Seq(Anchors)]

TxTypes == \A id \in DOMAIN txs : txs[id] \in Change

Shown(id, r, bundles, again) ==
    /\ DOMAIN r = {"ops", "sel", "doc", "full", "evidence", "state"}
    /\ r.ops \in Seq(Anchors) /\ r.sel \subseteq DOMAIN r.ops
    /\ r.doc \notin Broken
    /\ SelectedOps(r) = r.doc \/ SelectedOps(r) \in Broken
    /\ \A h \in r.full : h = r.ops /\ [change |-> id, hash |-> h] \in bundles
    /\ \A h \in r.evidence : /\ h = r.doc \/ h \in Broken
                             /\ h \in again \/ [change |-> id, hash |-> h] \in bundles

ReviewsShown == \A id \in DOMAIN reviews : Shown(id, reviews[id], sealed, reruns)

RInv == TxTypes /\ ReviewsShown /\ InstallsEvidenced

LEMMA LeastOf ==
  ASSUME NEW T, T \subseteq Nat, T # {}
  PROVE  \E x \in T : \A y \in T : x <= y
<1> DEFINE R == {ss \in Nat \X Nat : ss[1] < ss[2]}
<1>1. IsWellFoundedOn(R, Nat)
  BY NatLessThanWellFounded, Zenon DEF OpToRel
<1>2. \A x, y \in Nat : x < y => <<x, y>> \in R
  OBVIOUS
<1> HIDE DEF R
<1>3. PICK x \in T : \A y \in T : ~(<<y, x>> \in R)
  BY <1>1, WFMin, Zenon
<1>4. \A y \in T : ~(y < x)
  BY <1>2, <1>3
<1>5. \A y \in T : x <= y
  BY <1>4
<1> QED BY <1>5

(* The whole is a selection: what is selected is then what there is.       *)
LEMMA WholePicked ==
  ASSUME NEW S, NEW ops \in Seq(S)
  PROVE  Picked(ops, DOMAIN ops) = ops
  BY DEF Picked

(* The service keeps its transactions typed, and never unseals.            *)
LEMMA ServiceKeeps ==
  ASSUME AInv, TxTypes, AgentNext
  PROVE  TxTypes' /\ sealed \subseteq sealed'
<1>1. ASSUME NEW scope, NEW deps, Enqueue(scope, deps) PROVE UNCHANGED <<txs, sealed>>
  BY <1>1 DEF Enqueue
<1>2. ASSUME NEW id \in Ids, NEW ops \in Proposals(id), NEW t,
             \/ DriveInvalid(id, ops)
             \/ DriveSucceeds(id, ops, t)
             \/ Repair(id, ops, t)
      PROVE  TxTypes' /\ sealed' = sealed
  <2>1. ops \in Seq(Anchors)
    <3>1. rows[id].scope \subseteq Anchors
      <4>1. rows \in Seq(Row) /\ id \in 1 .. Len(rows)
        BY RowIds DEF AInv, AgentTypes
      <4>2. rows[id] \in Row
        BY <4>1
      <4> QED BY <4>2 DEF Row
    <3> QED BY <1>2, <3>1 DEF Proposals
  <2>2. CASE txs' = With(txs, id, [status |-> "Open", cur |-> ops])
    <3>1. /\ DOMAIN txs' = DOMAIN txs \cup {id}
          /\ txs'[id] = [status |-> "Open", cur |-> ops]
          /\ \A j \in DOMAIN txs \ {id} : txs'[j] = txs[j]
      BY <2>2 DEF With
    <3>2. [status |-> "Open", cur |-> ops] \in Change
      BY <2>1 DEF Change
    <3> QED BY <1>2, <3>1, <3>2 DEF TxTypes, DriveInvalid, DriveSucceeds, Repair
  <2>3. CASE id \in DOMAIN txs /\ txs' = [txs EXCEPT ![id].cur = @ \o ops]
    <3>1. txs[id] \in Change /\ txs[id].cur \o ops \in Seq(Anchors)
      BY <2>1, <2>3 DEF TxTypes, Change
    <3>2. [txs[id] EXCEPT !.cur = @ \o ops] \in Change
      BY <3>1 DEF Change
    <3>3. /\ DOMAIN txs' = DOMAIN txs /\ txs'[id] = [txs[id] EXCEPT !.cur = @ \o ops]
          /\ \A j \in DOMAIN txs \ {id} : txs'[j] = txs[j]
      BY <2>3
    <3> QED BY <1>2, <3>2, <3>3 DEF TxTypes, DriveInvalid, DriveSucceeds, Repair
  <2>4. CASE UNCHANGED txs
    BY <1>2, <2>4 DEF TxTypes, DriveInvalid, DriveSucceeds, Repair
  <2> QED BY <1>2, <2>2, <2>3, <2>4 DEF DriveInvalid, DriveSucceeds, Repair
<1>3. ASSUME NEW id \in Ids, Cancel(id) PROVE TxTypes' /\ sealed' = sealed
  BY <1>3 DEF Cancel, Without, TxTypes
<1>4. ASSUME NEW id \in Ids, Submit(id) PROVE TxTypes' /\ sealed' = sealed
  <2>1. /\ id \in DOMAIN txs /\ sealed' = sealed /\ txs[id] \in Change
        /\ txs' = [txs EXCEPT ![id] = [txs[id] EXCEPT !.status = "Submitted"]]
    BY <1>4 DEF Submit, TxTypes
  <2>2. [txs[id] EXCEPT !.status = "Submitted"] \in Change
    BY <2>1 DEF Change
  <2> QED BY <2>1, <2>2 DEF TxTypes
<1>5. ASSUME NEW id \in Ids, Evaluate(id) PROVE TxTypes' /\ sealed \subseteq sealed'
  BY <1>5 DEF Evaluate, TxTypes
<1>6. ASSUME NEW id \in Ids,
             \/ DriveFails(id) \/ DriveTimesOut(id) \/ DriveStops(id)
             \/ Pause(id) \/ Resume(id)
             \/ \E b \in sealed : AttachEvidence(id, b)
             \/ \E t \in 1..Tokens : RepairOverBudget(id, t)
      PROVE  UNCHANGED <<txs, sealed>>
  BY <1>6 DEF DriveFails, DriveTimesOut, DriveStops, Pause, Resume, AttachEvidence,
              RepairOverBudget
<1>7. UNCHANGED <<txs, sealed>> => TxTypes' /\ sealed \subseteq sealed'
  BY DEF TxTypes
<1> QED BY <1>1, <1>2, <1>3, <1>4, <1>5, <1>6, <1>7 DEF AgentNext, AgentStep

(* More seals and more reruns take nothing back.                           *)
LEMMA ShownLater ==
  ASSUME ReviewsShown, sealed \subseteq sealed', reruns \subseteq reruns',
         UNCHANGED reviews
  PROVE  ReviewsShown'
  BY DEF ReviewsShown, Shown

LEMMA InstallsLater ==
  ASSUME InstallsEvidenced, sealed \subseteq sealed', reruns \subseteq reruns',
         UNCHANGED doc
  PROVE  InstallsEvidenced'
  BY DEF InstallsEvidenced

(* One review opened or changed.                                           *)
LEMMA ReviewStep ==
  ASSUME RInv, NEW id, NEW r, Shown(id, r, sealed, reruns), UNCHANGED <<txs, sealed, reruns, doc>>,
         DOMAIN reviews' = DOMAIN reviews \cup {id}, reviews'[id] = r,
         \A j \in DOMAIN reviews \ {id} : reviews'[j] = reviews[j]
  PROVE  RInv'
<1>1. TxTypes' /\ InstallsEvidenced'
  BY InstallsLater DEF RInv, TxTypes
<1>2. ReviewsShown'
  BY DEF RInv, ReviewsShown
<1> QED BY <1>1, <1>2 DEF RInv

LEMMA OpenShows ==
  ASSUME AInv, RInv, NEW id \in Ids, Open(id)
  PROVE  RInv'
<1> DEFINE ops == txs[id].cur
           r == [ops |-> ops, sel |-> All(ops), doc |-> ops, full |-> evidence[id],
                 evidence |-> evidence[id], state |-> StateFor(evidence[id])]
<1>1. /\ id \in DOMAIN txs /\ ops \notin Broken /\ reviews' = With(reviews, id, r)
      /\ UNCHANGED <<txs, sealed, reruns, doc>>
  BY DEF Open, agentVars
<1>2. /\ DOMAIN reviews' = DOMAIN reviews \cup {id} /\ reviews'[id] = r
      /\ \A j \in DOMAIN reviews \ {id} : reviews'[j] = reviews[j]
  BY <1>1 DEF With
<1>3. ops \in Seq(Anchors)
  BY <1>1 DEF RInv, TxTypes, Change
<1>4. \A h \in evidence[id] : h = ops /\ [change |-> id, hash |-> h] \in sealed
  BY <1>1 DEF AInv, EvidenceFresh
<1>5. /\ DOMAIN r = {"ops", "sel", "doc", "full", "evidence", "state"}
      /\ r.ops = ops /\ r.sel = DOMAIN ops /\ r.doc = ops /\ r.full = evidence[id]
      /\ r.evidence = evidence[id]
  BY DEF All
<1> HIDE DEF r, ops
<1>6. SelectedOps(r) = ops
  BY <1>3, <1>5, WholePicked DEF SelectedOps
<1>7. Shown(id, r, sealed, reruns)
  BY <1>1, <1>3, <1>4, <1>5, <1>6 DEF Shown
<1> QED BY <1>1, <1>2, <1>7, ReviewStep

(* A selection that goes through: the document is the selection.           *)
LEMMA SelectShows ==
  ASSUME RInv, NEW id \in DOMAIN reviews, NEW sel \in SUBSET All(reviews[id].ops),
         SelectGroups(id, sel)
  PROVE  RInv'
<1> DEFINE old == reviews[id]
           ev == IF sel = All(old.ops) THEN old.full ELSE {}
           new == [old EXCEPT !.sel = sel, !.doc = Picked(old.ops, sel), !.evidence = ev,
                              !.state = StateFor(ev)]
<1>1. /\ reviews' = [reviews EXCEPT ![id] = new]
      /\ Picked(old.ops, sel) \notin Broken
      /\ UNCHANGED <<txs, sealed, reruns, doc>>
  BY DEF SelectGroups, agentVars
<1>2. Shown(id, old, sealed, reruns)
  BY DEF RInv, ReviewsShown
<1>3. sel = DOMAIN old.ops => Picked(old.ops, sel) = old.ops
  BY <1>2, WholePicked DEF Shown
<1>4. \A h \in ev : sel = DOMAIN old.ops /\ h \in old.full
  BY DEF All
<1> HIDE DEF ev
<1>5. /\ DOMAIN new = DOMAIN old /\ new.ops = old.ops /\ new.sel = sel /\ new.full = old.full
      /\ new.doc = Picked(old.ops, sel) /\ new.evidence = ev
  BY <1>2 DEF Shown
<1>6. /\ DOMAIN reviews' = DOMAIN reviews /\ id \in DOMAIN reviews /\ reviews'[id] = new
      /\ \A j \in DOMAIN reviews \ {id} : reviews'[j] = reviews[j]
  BY <1>1
<1> HIDE DEF new
<1>7. SelectedOps(new) = new.doc
  BY <1>5 DEF SelectedOps
<1>8. Shown(id, new, sealed, reruns)
  BY <1>1, <1>2, <1>3, <1>4, <1>5, <1>7 DEF Shown, All
<1> QED BY <1>1, <1>6, <1>8, ReviewStep

(* One that is refused is left without a document: that of the selection   *)
(* before stays, and so does its evidence.                                 *)
LEMMA RefusedShows ==
  ASSUME RInv, NEW id \in DOMAIN reviews, NEW sel \in SUBSET All(reviews[id].ops),
         SelectRefused(id, sel)
  PROVE  RInv'
<1> DEFINE old == reviews[id]
           new == [old EXCEPT !.sel = sel]
<1>1. /\ reviews' = [reviews EXCEPT ![id] = new]
      /\ Picked(old.ops, sel) \in Broken
      /\ UNCHANGED <<txs, sealed, reruns, doc>>
  BY DEF SelectRefused, agentVars
<1>2. Shown(id, old, sealed, reruns)
  BY DEF RInv, ReviewsShown
<1>3. /\ DOMAIN new = DOMAIN old /\ new.ops = old.ops /\ new.sel = sel /\ new.full = old.full
      /\ new.doc = old.doc /\ new.evidence = old.evidence
  BY <1>2 DEF Shown
<1>4. /\ DOMAIN reviews' = DOMAIN reviews /\ id \in DOMAIN reviews /\ reviews'[id] = new
      /\ \A j \in DOMAIN reviews \ {id} : reviews'[j] = reviews[j]
  BY <1>1
<1> HIDE DEF new
<1>5. SelectedOps(new) \in Broken
  BY <1>1, <1>3 DEF SelectedOps
<1>6. Shown(id, new, sealed, reruns)
  BY <1>2, <1>3, <1>5 DEF Shown, All
<1> QED BY <1>1, <1>4, <1>6, ReviewStep

LEMMA AttachShows ==
  ASSUME RInv, NEW id \in DOMAIN reviews, AttachRerun(id)
  PROVE  RInv'
<1> DEFINE old == reviews[id]
           new == [old EXCEPT !.evidence = {SelectedOps(old)}, !.state = "ReadyToPin"]
<1>1. /\ reviews' = [reviews EXCEPT ![id] = new]
      /\ SelectedOps(old) \in reruns
      /\ UNCHANGED <<txs, sealed, reruns, doc>>
  BY DEF AttachRerun, agentVars
<1>2. Shown(id, old, sealed, reruns)
  BY DEF RInv, ReviewsShown
<1>3. /\ DOMAIN new = DOMAIN old /\ new.ops = old.ops /\ new.sel = old.sel
      /\ new.full = old.full /\ new.doc = old.doc /\ new.evidence = {SelectedOps(old)}
  BY <1>2 DEF Shown
<1>4. /\ DOMAIN reviews' = DOMAIN reviews /\ id \in DOMAIN reviews /\ reviews'[id] = new
      /\ \A j \in DOMAIN reviews \ {id} : reviews'[j] = reviews[j]
  BY <1>1
<1> HIDE DEF new
<1>5. SelectedOps(new) = SelectedOps(old)
  BY <1>3 DEF SelectedOps
<1>6. Shown(id, new, sealed, reruns)
  BY <1>1, <1>2, <1>3, <1>5 DEF Shown
<1> QED BY <1>1, <1>4, <1>6, ReviewStep

(* Pin and Reject leave the selection, its document and its evidence.      *)
LEMMA StateShows ==
  ASSUME RInv, NEW id \in DOMAIN reviews, NEW s,
         reviews' = [reviews EXCEPT ![id] = [reviews[id] EXCEPT !.state = s]],
         UNCHANGED <<txs, sealed, reruns>>
  PROVE  TxTypes' /\ ReviewsShown'
<1> DEFINE old == reviews[id]
           new == [old EXCEPT !.state = s]
<1>1. Shown(id, old, sealed, reruns)
  BY DEF RInv, ReviewsShown
<1>2. /\ DOMAIN new = DOMAIN old /\ new.ops = old.ops /\ new.sel = old.sel
      /\ new.full = old.full /\ new.doc = old.doc /\ new.evidence = old.evidence
  BY <1>1 DEF Shown
<1>3. /\ DOMAIN reviews' = DOMAIN reviews /\ reviews'[id] = new
      /\ \A j \in DOMAIN reviews \ {id} : reviews'[j] = reviews[j]
  OBVIOUS
<1> HIDE DEF new
<1>4. SelectedOps(new) = SelectedOps(old)
  BY <1>2 DEF SelectedOps
<1>5. Shown(id, new, sealed, reruns)
  BY <1>1, <1>2, <1>4 DEF Shown
<1>6. ReviewsShown'
  BY <1>3, <1>5 DEF RInv, ReviewsShown
<1> QED BY <1>6 DEF RInv, TxTypes

LEMMA PinShows ==
  ASSUME RInv, NEW id \in DOMAIN reviews, PinReview(id)
  PROVE  RInv'
<1> DEFINE r == reviews[id]
<1>1. /\ r.evidence # {} /\ UNCHANGED <<txs, sealed, reruns>>
      /\ doc' = [ops |-> r.doc, change |-> id, evidence |-> r.evidence]
      /\ reviews' = [reviews EXCEPT ![id] = [reviews[id] EXCEPT !.state = "Pinned"]]
  BY DEF PinReview, agentVars
<1>2. Shown(id, r, sealed, reruns)
  BY DEF RInv, ReviewsShown
<1>3. /\ doc'.ops = r.doc /\ doc'.change = id /\ doc'.evidence = r.evidence
  BY <1>1
<1>4. InstallsEvidenced'
  BY <1>1, <1>2, <1>3 DEF Shown, InstallsEvidenced
<1> QED BY <1>1, <1>4, StateShows DEF RInv

LEMMA ReviewsPreserved == ASSUME AInv, RInv, [Next]_vars PROVE RInv'
<1>1. TxTypes /\ ReviewsShown /\ InstallsEvidenced
  BY DEF RInv
<1>2. CASE Agent
  <2>1. TxTypes' /\ sealed \subseteq sealed' /\ UNCHANGED <<reviews, reruns, doc>>
    BY <1>1, <1>2, ServiceKeeps DEF Agent
  <2> QED BY <1>1, <2>1, ShownLater, InstallsLater DEF RInv
<1>3. CASE UNCHANGED vars
  <2>1. UNCHANGED <<txs, sealed, reviews, reruns, doc>>
    BY <1>3 DEF vars, agentVars
  <2> QED BY <1>1, <2>1, ShownLater, InstallsLater DEF RInv, TxTypes
<1>4. ASSUME NEW id \in DOMAIN reviews, Rerun(id)
      PROVE  RInv'
  <2>1. UNCHANGED <<txs, sealed, reviews, doc>> /\ reruns \subseteq reruns'
    BY <1>4 DEF Rerun, agentVars
  <2> QED BY <1>1, <2>1, ShownLater, InstallsLater DEF RInv, TxTypes
<1>5. ASSUME NEW id \in DOMAIN reviews, Reject(id)
      PROVE  RInv'
  <2>1. /\ reviews' = [reviews EXCEPT ![id] = [reviews[id] EXCEPT !.state = "Rejected"]]
        /\ UNCHANGED <<txs, sealed, reruns, doc>>
    BY <1>5 DEF Reject, agentVars
  <2> QED BY <1>1, <2>1, StateShows, InstallsLater DEF RInv
<1> QED BY <1>2, <1>3, <1>4, <1>5, OpenShows, SelectShows, RefusedShows, AttachShows, PinShows
        DEF Next, Review

(* What a review installs applies and was evaluated as it is, however the  *)
(* candidate went on and whatever was selected in between; a selection     *)
(* that was refused may leave its own evidence behind the one before.      *)
THEOREM SpecInstallsEvidenced == Spec => []InstallsEvidenced
<1>1. Init => RInv
  BY DEF Init, AgentInit, RInv, TxTypes, ReviewsShown, InstallsEvidenced
<1>2. AInv /\ RInv /\ [Next]_vars => AInv' /\ RInv'
  BY Preserved, ReviewsPreserved
<1>3. RInv => InstallsEvidenced
  BY DEF RInv
<1> QED BY <1>1, <1>2, <1>3, AgentInitial, PTL DEF Spec

-----------------------------------------------------------------------------
(* The merge.                                                              *)

(* Two edits clash or not, whichever is looked at first (matrix_rule).     *)
LEMMA EditsClashSymmetric ==
  ASSUME NEW a, NEW b PROVE EditsClash(a, b) <=> EditsClash(b, a)
<1>1. {a.kind, b.kind} = {b.kind, a.kind} /\ Writes(a) \cap Writes(b) = Writes(b) \cap Writes(a)
  OBVIOUS
<1>2. CASE a.kind = "Rename" /\ b.kind = "Rename"
  BY <1>2 DEF EditsClash, PatternKinds
<1>3. CASE {a.kind, b.kind} \subseteq PatternKinds
  BY <1>3 DEF EditsClash, PatternKinds
<1>4. CASE a.kind = "AddLocus" /\ b.kind = "AddLocus"
  BY <1>4 DEF EditsClash, PatternKinds
<1>5. CASE a.kind = "BindAsset" /\ b.kind = "BindAsset"
  BY <1>5 DEF EditsClash, PatternKinds
<1>6. CASE /\ ~(a.kind = "Rename" /\ b.kind = "Rename")
           /\ ~({a.kind, b.kind} \subseteq PatternKinds)
           /\ ~(a.kind = "AddLocus" /\ b.kind = "AddLocus")
           /\ ~(a.kind = "BindAsset" /\ b.kind = "BindAsset")
  BY <1>1, <1>6 DEF EditsClash
<1> QED BY <1>2, <1>3, <1>4, <1>5, <1>6

LEMMA ConflictsSymmetric ==
  ASSUME NEW s, NEW a, NEW b PROVE Conflicts(s, a, b) <=> Conflicts(s, b, a)
BY EditsClashSymmetric DEF Conflicts, NoRemove

LEMMA CombinedSymmetric ==
  ASSUME NEW a, NEW x, NEW b, NEW y PROVE Combined(a, x, b, y) = Combined(b, y, a, x)
<1>1. Tagged(a, x) \cup Tagged(b, y) = Tagged(b, y) \cup Tagged(a, x)
  OBVIOUS
<1> QED BY <1>1 DEF Combined

LEMMA MergeOpsSymmetric ==
  ASSUME NEW s, NEW a, NEW b PROVE MergeOps(s, a, 1, b, 2) = MergeOps(s, b, 2, a, 1)
<1>1. (\E i \in DOMAIN a, j \in DOMAIN b : Conflicts(s, a[i], b[j]))
        <=> \E j \in DOMAIN b, i \in DOMAIN a : Conflicts(s, b[j], a[i])
  BY ConflictsSymmetric
<1> QED BY <1>1, CombinedSymmetric DEF MergeOps

(* Whatever two authors have done, merging their changes gives one         *)
(* snapshot or refuses, whichever of the two is the left one (merge_ops,   *)
(* classify_pair).                                                         *)
THEOREM SpecMergeSymmetric == MergeSpec => []MergeSymmetric
<1>1. MergeInit => MergeSymmetric
  BY MergeOpsSymmetric DEF MergeSymmetric
<1>2. MergeSymmetric /\ [MergeNext]_mergeVars => MergeSymmetric'
  BY MergeOpsSymmetric DEF MergeSymmetric
<1> QED BY <1>1, <1>2, PTL DEF MergeSpec

-----------------------------------------------------------------------------
(* What one operation does to a snapshot (apply.rs).                       *)

Creators == {"AddLocus", "Instantiate"}
Naming == Creators \cup {"Rename"}

(* What y undoes of x.                                                     *)
Opposed(y, x) ==
    \/ /\ y.kind = "Remove" /\ x.kind \notin {"Remove", "BindAsset"}
       /\ y.at = x.at \/ (x.kind = "Rel" /\ y.at = x.to)
    \/ y.kind = "Rename" /\ x.kind \in Naming /\ y.at = x.at /\ y.to # x.to
    \/ y.kind = x.kind /\ x.kind \in {"Qty", "SetArgument"} /\ y.at = x.at /\ y.to # x.to

Done(s, x) ==
    /\ Occupied(s, x.at)
    /\ x.kind = "Remove" => x.at \in s.tombs
    /\ x.kind \in Naming => Holds(s, x) \/ x.to \in s.used

LEMMA FailIsNone == \A s \in Snap : s # Fail
BY DEF Snap, Fail

LEMMA OpFields ==
  ASSUME NEW op, IsOp(op)
  PROVE  /\ op.kind \in OpKinds /\ op.at \in Objects /\ op.to \in Nat
         /\ op.kind = "Rel" => op.to \in Objects
         /\ op.kind \notin {"Rel", "BindAsset", "Remove"} => op.to # 0
BY DEF IsOp

Same(s, t, fields) == \A f \in {"name", "tombs", "used", "qty", "rels", "assets", "arg"} \ fields : t[f] = s[f]

(* What each operation does, field by field.                               *)
LEMMA Creates ==
  ASSUME NEW s, Sound(s), NEW op, IsOp(op), op.kind \in Creators, NEW t, t = ApplyOp(s, op), t # Fail
  PROVE  /\ ~Occupied(s, op.at) /\ t \in Snap
         /\ t.name = [s.name EXCEPT ![op.at] = op.to] /\ Same(s, t, {"name", "arg"})
         /\ t.arg = [s.arg EXCEPT ![op.at] = IF op.kind = "Instantiate" THEN 1 ELSE s.arg[op.at]]
<1>1. ~Occupied(s, op.at) /\ t = [s EXCEPT !.name[op.at] = op.to,
                   !.arg[op.at] = IF op.kind = "Instantiate" THEN 1 ELSE s.arg[op.at]]
  BY DEF ApplyOp, Created, Creators
<1>2. s \in Snap /\ op.at \in Objects /\ op.to \in Nat
  BY OpFields DEF Sound
<1>3. t.name = [s.name EXCEPT ![op.at] = op.to]
      /\ t.arg = [s.arg EXCEPT ![op.at] = IF op.kind = "Instantiate" THEN 1 ELSE s.arg[op.at]]
  BY <1>1, <1>2 DEF Snap
<1>4. t.tombs = s.tombs /\ t.used = s.used /\ t.qty = s.qty /\ t.rels = s.rels /\ t.assets = s.assets
  BY <1>1, <1>2 DEF Snap
<1>5. t \in Snap
  <2>1. t = [name |-> t.name, tombs |-> t.tombs, used |-> t.used, qty |-> t.qty, rels |-> t.rels,
             assets |-> t.assets, arg |-> t.arg]
    BY <1>1, <1>2 DEF Snap
  <2>2. t.name \in [Objects -> Nat] /\ t.arg \in [Objects -> Nat]
    BY <1>2, <1>3 DEF Snap
  <2> QED BY <1>2, <1>4, <2>1, <2>2 DEF Snap
<1> QED BY <1>1, <1>3, <1>4, <1>5 DEF Same

LEMMA Removes ==
  ASSUME NEW s, Sound(s), NEW op, IsOp(op), op.kind = "Remove", NEW t, t = ApplyOp(s, op), t # Fail
  PROVE  /\ Live(s, op.at) /\ t \in Snap
         /\ t.name = [s.name EXCEPT ![op.at] = 0] /\ t.qty = [s.qty EXCEPT ![op.at] = 0]
         /\ t.arg = [s.arg EXCEPT ![op.at] = 0] /\ t.tombs = s.tombs \cup {op.at}
         /\ t.used = s.used \cup {s.name[op.at]} /\ t.assets = s.assets
         /\ t.rels = {r \in s.rels : op.at \notin {r[1], r[2]}}
<1>1. Live(s, op.at) /\ t = Removed(s, op)
  BY DEF ApplyOp
<1>2. s \in Snap /\ op.at \in Objects
  BY OpFields DEF Sound
<1>3. /\ t.name = [s.name EXCEPT ![op.at] = 0] /\ t.qty = [s.qty EXCEPT ![op.at] = 0]
      /\ t.arg = [s.arg EXCEPT ![op.at] = 0] /\ t.tombs = s.tombs \cup {op.at}
      /\ t.used = s.used \cup {s.name[op.at]} /\ t.assets = s.assets
      /\ t.rels = {r \in s.rels : op.at \notin {r[1], r[2]}}
  BY <1>1, <1>2 DEF Removed, Snap
<1>4. t = [name |-> t.name, tombs |-> t.tombs, used |-> t.used, qty |-> t.qty, rels |-> t.rels,
           assets |-> t.assets, arg |-> t.arg]
  BY <1>1, <1>2 DEF Removed, Snap
<1>5. t \in Snap
  <2>1. t.name \in [Objects -> Nat] /\ t.qty \in [Objects -> Nat] /\ t.arg \in [Objects -> Nat]
    BY <1>2, <1>3 DEF Snap
  <2>2. t.tombs \in SUBSET Objects /\ t.used \in SUBSET Nat /\ t.assets \in SUBSET (Objects \X Nat)
        /\ t.rels \in SUBSET (Objects \X Objects)
    BY <1>2, <1>3 DEF Snap
  <2> QED BY <1>4, <2>1, <2>2 DEF Snap
<1> QED BY <1>1, <1>3, <1>5

LEMMA Renames ==
  ASSUME NEW s, Sound(s), NEW op, IsOp(op), op.kind = "Rename", NEW t, t = ApplyOp(s, op), t # Fail
  PROVE  /\ Live(s, op.at) /\ t \in Snap
         /\ t.name = [s.name EXCEPT ![op.at] = op.to] /\ Same(s, t, {"name", "used"})
         /\ s.used \subseteq t.used
         /\ s.name[op.at] # op.to => op.to \notin s.used /\ s.name[op.at] \in t.used
<1>1. Live(s, op.at) /\ t = Renamed(s, op)
  BY DEF ApplyOp
<1>2. s \in Snap /\ op.at \in Objects /\ op.to \in Nat
  BY OpFields DEF Sound
<1>3. CASE s.name[op.at] = op.to
  <2>1. t = s
    BY <1>1, <1>3 DEF Renamed
  <2>2. s.name = [s.name EXCEPT ![op.at] = op.to]
    BY <1>2, <1>3 DEF Snap
  <2> QED BY <1>1, <1>2, <1>3, <2>1, <2>2 DEF Same
<1>4. CASE s.name[op.at] # op.to
  <2>1. /\ ~Taken(s, op.to)
        /\ t = [s EXCEPT !.name[op.at] = op.to, !.used = @ \cup {s.name[op.at]}]
    BY <1>1, <1>4 DEF Renamed
  <2>2. t.name = [s.name EXCEPT ![op.at] = op.to] /\ t.used = s.used \cup {s.name[op.at]}
    BY <1>2, <2>1 DEF Snap
  <2>3. t.tombs = s.tombs /\ t.qty = s.qty /\ t.rels = s.rels /\ t.assets = s.assets /\ t.arg = s.arg
    BY <1>2, <2>1 DEF Snap
  <2>4. t \in Snap
    <3>1. t = [name |-> t.name, tombs |-> t.tombs, used |-> t.used, qty |-> t.qty,
               rels |-> t.rels, assets |-> t.assets, arg |-> t.arg]
      BY <1>2, <2>1 DEF Snap
    <3>2. t.name \in [Objects -> Nat] /\ t.used \in SUBSET Nat
      BY <1>2, <2>2 DEF Snap
    <3> QED BY <1>2, <2>3, <3>1, <3>2 DEF Snap
  <2> QED BY <1>1, <2>1, <2>2, <2>3, <2>4 DEF Same, Taken
<1> QED BY <1>3, <1>4

LEMMA SetsQty ==
  ASSUME NEW s, Sound(s), NEW op, IsOp(op), op.kind = "Qty", NEW t, t = ApplyOp(s, op), t # Fail
  PROVE  /\ Live(s, op.at) /\ t \in Snap
         /\ t.qty = [s.qty EXCEPT ![op.at] = op.to] /\ Same(s, t, {"qty"})
<1>1. Live(s, op.at) /\ s \in Snap /\ op.at \in Objects /\ op.to \in Nat
  BY OpFields DEF ApplyOp, Sound
<1>2. t = [s EXCEPT !.qty[op.at] = op.to]
  BY <1>1 DEF ApplyOp
<1>3. t.qty = [s.qty EXCEPT ![op.at] = op.to] /\ t \in Snap
  BY <1>1, <1>2 DEF Snap
<1>4. /\ t.name = s.name /\ t.tombs = s.tombs /\ t.used = s.used /\ t.rels = s.rels
      /\ t.assets = s.assets /\ t.arg = s.arg
  BY <1>1, <1>2 DEF Snap
<1> QED BY <1>1, <1>3, <1>4 DEF Same

LEMMA Relates ==
  ASSUME NEW s, Sound(s), NEW op, IsOp(op), op.kind = "Rel", NEW t, t = ApplyOp(s, op), t # Fail
  PROVE  /\ Live(s, op.at) /\ Live(s, op.to) /\ t \in Snap
         /\ t.rels = s.rels \cup {<<op.at, op.to>>} /\ Same(s, t, {"rels"})
<1>1. Live(s, op.at) /\ s \in Snap /\ op.at \in Objects /\ op.to \in Nat
  BY OpFields DEF ApplyOp, Sound
<1>2. Live(s, op.to) /\ t = [s EXCEPT !.rels = @ \cup {<<op.at, op.to>>}]
  BY <1>1 DEF ApplyOp
<1>3. t.rels = s.rels \cup {<<op.at, op.to>>} /\ op.to \in Objects
  BY <1>1, <1>2, OpFields DEF Snap
<1>4. /\ t.name = s.name /\ t.tombs = s.tombs /\ t.used = s.used /\ t.qty = s.qty
      /\ t.assets = s.assets /\ t.arg = s.arg /\ t \in Snap
  BY <1>1, <1>2, <1>3 DEF Snap
<1> QED BY <1>1, <1>2, <1>3, <1>4 DEF Same

LEMMA BindsAsset ==
  ASSUME NEW s, Sound(s), NEW op, IsOp(op), op.kind = "BindAsset", NEW t, t = ApplyOp(s, op), t # Fail
  PROVE  /\ Live(s, op.at) /\ t \in Snap
         /\ t.assets = s.assets \cup {<<op.at, op.to>>} /\ Same(s, t, {"assets"})
<1>1. Live(s, op.at) /\ s \in Snap /\ op.at \in Objects /\ op.to \in Nat
  BY OpFields DEF ApplyOp, Sound
<1>2. t = [s EXCEPT !.assets = @ \cup {<<op.at, op.to>>}]
  BY <1>1 DEF ApplyOp
<1>3. t.assets = s.assets \cup {<<op.at, op.to>>} /\ t \in Snap
  BY <1>1, <1>2 DEF Snap
<1>4. /\ t.name = s.name /\ t.tombs = s.tombs /\ t.used = s.used /\ t.rels = s.rels
      /\ t.qty = s.qty /\ t.arg = s.arg
  BY <1>1, <1>2 DEF Snap
<1> QED BY <1>1, <1>3, <1>4 DEF Same

LEMMA SetsArgument ==
  ASSUME NEW s, Sound(s), NEW op, IsOp(op), op.kind = "SetArgument", NEW t, t = ApplyOp(s, op), t # Fail
  PROVE  /\ Live(s, op.at) /\ t \in Snap
         /\ t.arg = [s.arg EXCEPT ![op.at] = op.to] /\ Same(s, t, {"arg"})
<1>1. Live(s, op.at) /\ s \in Snap /\ op.at \in Objects /\ op.to \in Nat
  BY OpFields DEF ApplyOp, Sound
<1>2. t = [s EXCEPT !.arg[op.at] = op.to]
  BY <1>1 DEF ApplyOp
<1>3. t.arg = [s.arg EXCEPT ![op.at] = op.to] /\ t \in Snap
  BY <1>1, <1>2 DEF Snap
<1>4. /\ t.name = s.name /\ t.tombs = s.tombs /\ t.used = s.used /\ t.rels = s.rels
      /\ t.assets = s.assets /\ t.qty = s.qty
  BY <1>1, <1>2 DEF Snap
<1> QED BY <1>1, <1>3, <1>4 DEF Same

LEMMA OpSound ==
  ASSUME NEW s, Sound(s), NEW op, IsOp(op), NEW t, t = ApplyOp(s, op), t # Fail
  PROVE  Sound(t)
<1>1. s \in Snap /\ op.at \in Objects /\ op.kind \in OpKinds /\ op.to \in Nat
  BY OpFields DEF Sound
<1>2. CASE op.kind \in Creators
  <2>1. /\ ~Occupied(s, op.at) /\ t \in Snap
         /\ t.name = [s.name EXCEPT ![op.at] = op.to] /\ Same(s, t, {"name", "arg"})
         /\ t.arg = [s.arg EXCEPT ![op.at] = IF op.kind = "Instantiate" THEN 1 ELSE s.arg[op.at]]
    BY <1>2, Creates
  <2>2. t.tombs = s.tombs /\ t.qty = s.qty /\ t.rels = s.rels /\ t.assets = s.assets
    BY <2>1 DEF Same
  <2>3. \A a \in Objects \ {op.at} : t.name[a] = s.name[a] /\ t.arg[a] = s.arg[a]
    BY <1>1, <2>1 DEF Snap
  <2>4. op.at \notin t.tombs /\ t.tombs \subseteq Objects /\ t.name[op.at] # 0
    BY <1>1, <1>2, <2>1, <2>2, OpFields DEF Snap, Occupied, Creators
  <2> QED BY <2>1, <2>2, <2>3, <2>4 DEF Sound, Live
<1>3. CASE op.kind = "Remove"
  <2>1. /\ Live(s, op.at) /\ t \in Snap
         /\ t.name = [s.name EXCEPT ![op.at] = 0] /\ t.qty = [s.qty EXCEPT ![op.at] = 0]
         /\ t.arg = [s.arg EXCEPT ![op.at] = 0] /\ t.tombs = s.tombs \cup {op.at}
         /\ t.used = s.used \cup {s.name[op.at]} /\ t.assets = s.assets
         /\ t.rels = {r \in s.rels : op.at \notin {r[1], r[2]}}
    BY <1>3, Removes
  <2>2. \A a \in Objects : t.name[a] = (IF a = op.at THEN 0 ELSE s.name[a])
           /\ t.qty[a] = (IF a = op.at THEN 0 ELSE s.qty[a])
           /\ t.arg[a] = (IF a = op.at THEN 0 ELSE s.arg[a])
    BY <1>1, <2>1 DEF Snap
  <2> QED BY <1>1, <2>1, <2>2 DEF Sound, Live, Snap
<1>4. CASE op.kind = "Rename"
  <2>1. /\ Live(s, op.at) /\ t \in Snap
         /\ t.name = [s.name EXCEPT ![op.at] = op.to] /\ Same(s, t, {"name", "used"})
    BY <1>4, Renames
  <2>2. t.tombs = s.tombs /\ t.qty = s.qty /\ t.rels = s.rels /\ t.assets = s.assets /\ t.arg = s.arg
    BY <2>1 DEF Same
  <2>3. \A a \in Objects \ {op.at} : t.name[a] = s.name[a]
    BY <1>1, <2>1 DEF Snap
  <2>4. t.name[op.at] # 0 /\ op.at \notin s.tombs /\ s.tombs \subseteq Objects
    BY <1>1, <1>4, <2>1, OpFields DEF Sound, Snap
  <2> QED BY <2>1, <2>2, <2>3, <2>4 DEF Sound, Live
<1>5. CASE op.kind = "Qty"
  <2>1. Live(s, op.at) /\ t \in Snap /\ t.qty = [s.qty EXCEPT ![op.at] = op.to] /\ Same(s, t, {"qty"})
    BY <1>5, SetsQty
  <2>2. t.tombs = s.tombs /\ t.name = s.name /\ t.rels = s.rels /\ t.assets = s.assets /\ t.arg = s.arg
    BY <2>1 DEF Same
  <2>3. op.at \notin s.tombs /\ s.tombs \subseteq Objects
    BY <1>1, <2>1 DEF Sound, Snap
  <2>4. \A a \in s.tombs : t.qty[a] = s.qty[a]
    BY <1>1, <2>1, <2>3 DEF Snap
  <2> QED BY <2>1, <2>2, <2>3, <2>4 DEF Sound, Live
<1>6. CASE op.kind = "Rel"
  <2>1. Live(s, op.at) /\ t \in Snap /\ Live(s, op.to) /\ t.rels = s.rels \cup {<<op.at, op.to>>}
        /\ Same(s, t, {"rels"})
    BY <1>6, Relates
  <2>2. t.tombs = s.tombs /\ t.name = s.name /\ t.qty = s.qty /\ t.assets = s.assets /\ t.arg = s.arg
    BY <2>1 DEF Same
  <2> QED BY <2>1, <2>2 DEF Sound, Live
<1>7. CASE op.kind = "BindAsset"
  <2>1. Live(s, op.at) /\ t \in Snap /\ t.assets = s.assets \cup {<<op.at, op.to>>}
        /\ Same(s, t, {"assets"})
    BY <1>7, BindsAsset
  <2>2. t.tombs = s.tombs /\ t.name = s.name /\ t.qty = s.qty /\ t.rels = s.rels /\ t.arg = s.arg
    BY <2>1 DEF Same
  <2>3. IsFiniteSet(t.assets)
    <3>1. PICK p : p = <<op.at, op.to>>
      OBVIOUS
    <3>2. IsFiniteSet(s.assets \cup {p})
      BY FS_AddElement DEF Sound
    <3> QED BY <2>1, <3>1, <3>2
  <2> QED BY <2>1, <2>2, <2>3 DEF Sound, Live
<1>8. CASE op.kind = "SetArgument"
  <2>1. Live(s, op.at) /\ t \in Snap /\ t.arg = [s.arg EXCEPT ![op.at] = op.to] /\ Same(s, t, {"arg"})
    BY <1>8, SetsArgument
  <2>2. t.tombs = s.tombs /\ t.name = s.name /\ t.rels = s.rels /\ t.assets = s.assets /\ t.qty = s.qty
    BY <2>1 DEF Same
  <2>3. \A a \in Objects : ~Live(s, a) => t.arg[a] = s.arg[a]
    BY <1>1, <2>1 DEF Snap
  <2> QED BY <2>1, <2>2, <2>3 DEF Sound, Live
<1> QED BY <1>1, <1>2, <1>3, <1>4, <1>5, <1>6, <1>7, <1>8 DEF OpKinds, Creators

(* The same, object by object.                                             *)
NameAfter(s, op, a) ==
    IF a # op.at THEN s.name[a] ELSE IF op.kind \in Naming THEN op.to
    ELSE IF op.kind = "Remove" THEN 0 ELSE s.name[a]
QtyAfter(s, op, a) ==
    IF a # op.at THEN s.qty[a] ELSE IF op.kind = "Qty" THEN op.to
    ELSE IF op.kind = "Remove" THEN 0 ELSE s.qty[a]
ArgAfter(s, op, a) ==
    IF a # op.at THEN s.arg[a] ELSE IF op.kind = "SetArgument" THEN op.to
    ELSE IF op.kind = "Instantiate" THEN 1 ELSE IF op.kind = "Remove" THEN 0 ELSE s.arg[a]
RelsAfter(s, op) ==
    IF op.kind = "Rel" THEN s.rels \cup {<<op.at, op.to>>}
    ELSE IF op.kind = "Remove" THEN {r \in s.rels : op.at \notin {r[1], r[2]}} ELSE s.rels

Did(s, op, t) ==
    /\ \A a \in Objects : /\ t.name[a] = NameAfter(s, op, a)
                          /\ t.qty[a] = QtyAfter(s, op, a)
                          /\ t.arg[a] = ArgAfter(s, op, a)
    /\ t.tombs = s.tombs \cup (IF op.kind = "Remove" THEN {op.at} ELSE {})
    /\ t.rels = RelsAfter(s, op)
    /\ t.assets = s.assets \cup (IF op.kind = "BindAsset" THEN {<<op.at, op.to>>} ELSE {})
    /\ s.used \subseteq t.used
    /\ op.kind \in {"Rename", "Remove"} /\ t.name[op.at] # s.name[op.at] => s.name[op.at] \in t.used
    /\ IF op.kind \in Creators THEN ~Occupied(s, op.at) ELSE Live(s, op.at)
    /\ op.kind = "Rel" => Live(s, op.to)
    /\ op.kind = "Rename" /\ s.name[op.at] # op.to => op.to \notin s.used

LEMMA OpDoes ==
  ASSUME NEW s, Sound(s), NEW op, IsOp(op), NEW t, t = ApplyOp(s, op), t # Fail
  PROVE  Did(s, op, t)
<1>1. s \in Snap /\ op.at \in Objects /\ op.kind \in OpKinds /\ op.to \in Nat
  BY OpFields DEF Sound
<1>2. CASE op.kind \in Creators
  <2>1. /\ ~Occupied(s, op.at) /\ t \in Snap
         /\ t.name = [s.name EXCEPT ![op.at] = op.to] /\ Same(s, t, {"name", "arg"})
         /\ t.arg = [s.arg EXCEPT ![op.at] = IF op.kind = "Instantiate" THEN 1 ELSE s.arg[op.at]]
    BY <1>2, Creates
  <2>2. t.tombs = s.tombs /\ t.qty = s.qty /\ t.rels = s.rels /\ t.assets = s.assets /\ t.used = s.used
    BY <2>1 DEF Same
  <2>3. \A a \in Objects : t.name[a] = NameAfter(s, op, a)
    BY <1>1, <1>2, <2>1 DEF Snap, NameAfter, Naming
  <2>4. \A a \in Objects : t.qty[a] = QtyAfter(s, op, a)
    BY <1>2, <2>2 DEF QtyAfter, Creators
  <2>5. \A a \in Objects : t.arg[a] = ArgAfter(s, op, a)
    BY <1>1, <1>2, <2>1 DEF Snap, ArgAfter, Creators
  <2> QED BY <1>2, <2>1, <2>2, <2>3, <2>4, <2>5 DEF Did, Creators, RelsAfter
<1>3. CASE op.kind = "Remove"
  <2>1. /\ Live(s, op.at) /\ t \in Snap
         /\ t.name = [s.name EXCEPT ![op.at] = 0] /\ t.qty = [s.qty EXCEPT ![op.at] = 0]
         /\ t.arg = [s.arg EXCEPT ![op.at] = 0] /\ t.tombs = s.tombs \cup {op.at}
         /\ t.used = s.used \cup {s.name[op.at]} /\ t.assets = s.assets
         /\ t.rels = {r \in s.rels : op.at \notin {r[1], r[2]}}
    BY <1>3, Removes
  <2>2. \A a \in Objects : t.name[a] = NameAfter(s, op, a) /\ t.qty[a] = QtyAfter(s, op, a)
                            /\ t.arg[a] = ArgAfter(s, op, a)
    BY <1>1, <1>3, <2>1 DEF Snap, NameAfter, QtyAfter, ArgAfter, Naming, Creators
  <2> QED BY <1>3, <2>1, <2>2 DEF Did, Creators, RelsAfter
<1>4. CASE op.kind = "Rename"
  <2>1. /\ Live(s, op.at) /\ t \in Snap
         /\ t.name = [s.name EXCEPT ![op.at] = op.to] /\ Same(s, t, {"name", "used"})
    BY <1>4, Renames
  <2>5. s.used \subseteq t.used
    BY <1>4, Renames
  <2>6. s.name[op.at] # op.to => op.to \notin s.used /\ s.name[op.at] \in t.used
    BY <1>4, Renames
  <2>2. t.tombs = s.tombs /\ t.qty = s.qty /\ t.rels = s.rels /\ t.assets = s.assets /\ t.arg = s.arg
    BY <2>1 DEF Same
  <2>3. \A a \in Objects : t.name[a] = NameAfter(s, op, a) /\ t.qty[a] = QtyAfter(s, op, a)
                            /\ t.arg[a] = ArgAfter(s, op, a)
    BY <1>1, <1>4, <2>1, <2>2 DEF Snap, NameAfter, QtyAfter, ArgAfter, Naming, Creators
  <2>4. t.name[op.at] # s.name[op.at] => s.name[op.at] \in t.used
    BY <1>1, <2>1, <2>6 DEF Snap
  <2> QED BY <1>4, <2>1, <2>2, <2>3, <2>4, <2>5, <2>6 DEF Did, Creators, RelsAfter
<1>5. CASE op.kind = "Qty"
  <2>1. Live(s, op.at) /\ t \in Snap /\ t.qty = [s.qty EXCEPT ![op.at] = op.to] /\ Same(s, t, {"qty"})
    BY <1>5, SetsQty
  <2>2. t.tombs = s.tombs /\ t.name = s.name /\ t.rels = s.rels /\ t.assets = s.assets /\ t.arg = s.arg
        /\ t.used = s.used
    BY <2>1 DEF Same
  <2>3. \A a \in Objects : t.name[a] = NameAfter(s, op, a) /\ t.qty[a] = QtyAfter(s, op, a)
                            /\ t.arg[a] = ArgAfter(s, op, a)
    BY <1>1, <1>5, <2>1, <2>2 DEF Snap, NameAfter, QtyAfter, ArgAfter, Naming, Creators
  <2> QED BY <1>5, <2>1, <2>2, <2>3 DEF Did, Creators, RelsAfter
<1>6. CASE op.kind = "Rel"
  <2>1. Live(s, op.at) /\ Live(s, op.to) /\ t \in Snap /\ t.rels = s.rels \cup {<<op.at, op.to>>}
        /\ Same(s, t, {"rels"})
    BY <1>6, Relates
  <2>2. t.tombs = s.tombs /\ t.name = s.name /\ t.qty = s.qty /\ t.assets = s.assets /\ t.arg = s.arg
        /\ t.used = s.used
    BY <2>1 DEF Same
  <2>3. \A a \in Objects : t.name[a] = NameAfter(s, op, a) /\ t.qty[a] = QtyAfter(s, op, a)
                            /\ t.arg[a] = ArgAfter(s, op, a)
    BY <1>6, <2>2 DEF NameAfter, QtyAfter, ArgAfter, Naming, Creators
  <2> QED BY <1>6, <2>1, <2>2, <2>3 DEF Did, Creators, RelsAfter
<1>7. CASE op.kind = "BindAsset"
  <2>1. Live(s, op.at) /\ t \in Snap /\ t.assets = s.assets \cup {<<op.at, op.to>>}
        /\ Same(s, t, {"assets"})
    BY <1>7, BindsAsset
  <2>2. t.tombs = s.tombs /\ t.name = s.name /\ t.qty = s.qty /\ t.rels = s.rels /\ t.arg = s.arg
        /\ t.used = s.used
    BY <2>1 DEF Same
  <2>3. \A a \in Objects : t.name[a] = NameAfter(s, op, a) /\ t.qty[a] = QtyAfter(s, op, a)
                            /\ t.arg[a] = ArgAfter(s, op, a)
    BY <1>7, <2>2 DEF NameAfter, QtyAfter, ArgAfter, Naming, Creators
  <2> QED BY <1>7, <2>1, <2>2, <2>3 DEF Did, Creators, RelsAfter
<1>8. CASE op.kind = "SetArgument"
  <2>1. Live(s, op.at) /\ t \in Snap /\ t.arg = [s.arg EXCEPT ![op.at] = op.to] /\ Same(s, t, {"arg"})
    BY <1>8, SetsArgument
  <2>2. t.tombs = s.tombs /\ t.name = s.name /\ t.rels = s.rels /\ t.assets = s.assets /\ t.qty = s.qty
        /\ t.used = s.used
    BY <2>1 DEF Same
  <2>3. \A a \in Objects : t.name[a] = NameAfter(s, op, a) /\ t.qty[a] = QtyAfter(s, op, a)
                            /\ t.arg[a] = ArgAfter(s, op, a)
    BY <1>1, <1>8, <2>1, <2>2 DEF Snap, NameAfter, QtyAfter, ArgAfter, Naming, Creators
  <2> QED BY <1>8, <2>1, <2>2, <2>3 DEF Did, Creators, RelsAfter
<1> QED BY <1>1, <1>2, <1>3, <1>4, <1>5, <1>6, <1>7, <1>8 DEF OpKinds, Creators

Kept == {"Qty", "SetArgument", "Rename"}

LEMMA Effect ==
  ASSUME NEW s, NEW op, IsOp(op), NEW t, Did(s, op, t) PROVE Holds(t, op) /\ Done(t, op)
<1>1. op.kind \in OpKinds /\ op.at \in Objects /\ (op.kind \notin {"Rel", "BindAsset", "Remove"} => op.to # 0)
  BY OpFields
<1>2. /\ t.name[op.at] = NameAfter(s, op, op.at) /\ t.qty[op.at] = QtyAfter(s, op, op.at)
      /\ t.arg[op.at] = ArgAfter(s, op, op.at)
  BY <1>1 DEF Did
<1>3. Holds(t, op)
  BY <1>1, <1>2 DEF Did, Holds, Live, NameAfter, QtyAfter, ArgAfter, RelsAfter, Naming, Creators, OpKinds
<1>4. Occupied(t, op.at)
  BY <1>1, <1>2 DEF Did, Occupied, Live, NameAfter, Naming, Creators, OpKinds
<1>5. op.kind = "Remove" => op.at \in t.tombs
  BY DEF Did
<1> QED BY <1>3, <1>4, <1>5 DEF Done

LEMMA OccupiedStays ==
  ASSUME NEW s, NEW op, IsOp(op), NEW t, Did(s, op, t), NEW a \in Objects, Occupied(s, a)
  PROVE  Occupied(t, a)
<1>1. op.kind \in Naming => op.to # 0
  BY OpFields DEF Naming, Creators
<1>2. t.name[a] = NameAfter(s, op, a)
  BY DEF Did
<1> QED BY <1>1, <1>2 DEF Did, Occupied, Live, NameAfter, Naming, Creators

LEMMA DoneStays ==
  ASSUME NEW s, NEW op, IsOp(op), NEW t, Did(s, op, t), NEW x, IsOp(x), Done(s, x)
  PROVE  Done(t, x)
<1>1. x.at \in Objects /\ x.to \in Nat
  BY OpFields
<1>2. Occupied(t, x.at)
  BY <1>1, OccupiedStays DEF Done
<1>3. x.kind = "Remove" => x.at \in t.tombs
  BY DEF Done, Did
<1>4. ASSUME x.kind \in Naming PROVE Holds(t, x) \/ x.to \in t.used
  <2>1. CASE x.to \in s.used
    BY <2>1 DEF Did
  <2>2. CASE Holds(s, x) /\ t.name[x.at] = s.name[x.at]
    BY <1>4, <2>2 DEF Holds, Naming, Creators
  <2>3. CASE Holds(s, x) /\ t.name[x.at] # s.name[x.at]
    <3>1. t.name[x.at] = NameAfter(s, op, x.at) /\ s.name[x.at] = x.to
      BY <1>1, <1>4, <2>3 DEF Did, Holds, Naming, Creators
    <3>2. op.at = x.at /\ op.kind \in Naming \cup {"Remove"}
      BY <2>3, <3>1 DEF NameAfter
    <3>3. op.kind \notin Creators
      BY <3>1, <3>2 DEF Did, Done
    <3> QED BY <2>3, <3>1, <3>2, <3>3 DEF Did, Naming
  <2> QED BY <1>4, <2>1, <2>2, <2>3 DEF Done
<1> QED BY <1>2, <1>3, <1>4 DEF Done

(* Only an opposed operation undoes what is there, and it does.            *)
LEMMA Undoes ==
  ASSUME NEW s, Sound(s), NEW y, IsOp(y), NEW t, Did(s, y, t), NEW x, IsOp(x),
         Holds(s, x), ~Holds(t, x)
  PROVE  Opposed(y, x)
<1>1. /\ x.kind \in OpKinds /\ x.at \in Objects /\ (x.kind \notin {"Rel", "BindAsset", "Remove"} => x.to # 0)
      /\ y.kind \in OpKinds /\ y.at \in Objects
  BY OpFields
<1>2. /\ t.name[x.at] = NameAfter(s, y, x.at) /\ t.qty[x.at] = QtyAfter(s, y, x.at)
      /\ t.arg[x.at] = ArgAfter(s, y, x.at)
  BY <1>1 DEF Did
<1>3. CASE x.kind \in Naming
  <2>1. s.name[x.at] = x.to /\ t.name[x.at] # x.to
    BY <1>3 DEF Holds, Naming, Creators
  <2>2. y.at = x.at /\ y.kind \in Naming \cup {"Remove"} /\ (y.kind \in Naming => y.to # x.to)
    BY <1>2, <2>1 DEF NameAfter
  <2>3. y.kind \notin Creators
    BY <1>1, <1>3, <2>1, <2>2 DEF Did, Occupied, Live, Naming, Creators
  <2> QED BY <1>3, <2>2, <2>3 DEF Opposed, Naming, Creators
<1>4. CASE x.kind = "Qty"
  BY <1>1, <1>2, <1>4 DEF Holds, QtyAfter, Opposed
<1>5. CASE x.kind = "SetArgument"
  <2>1. s.arg[x.at] = x.to /\ t.arg[x.at] # x.to
    BY <1>5 DEF Holds
  <2>2. y.at = x.at /\ y.kind \in {"SetArgument", "Instantiate", "Remove"}
        /\ (y.kind = "SetArgument" => y.to # x.to)
    BY <1>2, <2>1 DEF ArgAfter
  <2>3. y.kind # "Instantiate"
    BY <1>1, <1>5, <2>1, <2>2 DEF Did, Occupied, Live, Creators, Sound
  <2> QED BY <1>5, <2>2, <2>3 DEF Opposed
<1>6. CASE x.kind = "Rel"
  <2>1. <<x.at, x.to>> \in s.rels /\ <<x.at, x.to>> \notin t.rels
    BY <1>6 DEF Holds
  <2>2. y.kind = "Remove" /\ y.at \in {x.at, x.to}
    BY <2>1 DEF Did, RelsAfter
  <2> QED BY <1>6, <2>2 DEF Opposed
<1>7. x.kind # "BindAsset"
  BY DEF Holds, Did
<1>8. x.kind # "Remove"
  <2> SUFFICES ASSUME x.kind = "Remove" PROVE FALSE
    OBVIOUS
  <2>1. x.at \in s.tombs /\ s.name[x.at] = 0 /\ t.name[x.at] # 0
    BY DEF Holds, Did, Live
  <2>2. y.at = x.at
    BY <1>2, <2>1 DEF NameAfter
  <2> QED BY <2>1, <2>2 DEF Did, Occupied, Live
<1> QED BY <1>1, <1>3, <1>4, <1>5, <1>6, <1>7, <1>8 DEF OpKinds, Naming, Creators

LEMMA UndoesSurely ==
  ASSUME NEW s, NEW y, NEW t, Did(s, y, t), NEW x, IsOp(x), Opposed(y, x)
  PROVE  ~Holds(t, x)
<1>1. x.kind \in OpKinds /\ x.at \in Objects /\ (x.kind \notin {"Rel", "BindAsset", "Remove"} => x.to # 0)
  BY OpFields
<1>2. /\ t.name[x.at] = NameAfter(s, y, x.at) /\ t.qty[x.at] = QtyAfter(s, y, x.at)
      /\ t.arg[x.at] = ArgAfter(s, y, x.at) /\ t.rels = RelsAfter(s, y)
  BY <1>1 DEF Did
<1>3. CASE y.kind = "Remove" /\ y.at = x.at /\ x.kind \in Naming \cup {"Qty", "SetArgument"}
  BY <1>1, <1>2, <1>3 DEF Holds, NameAfter, QtyAfter, ArgAfter, Naming, Creators
<1>4. CASE y.kind = "Remove" /\ x.kind = "Rel" /\ y.at \in {x.at, x.to}
  BY <1>2, <1>4 DEF Holds, RelsAfter
<1>5. CASE y.kind = "Rename" /\ x.kind \in Naming /\ y.at = x.at /\ y.to # x.to
  BY <1>2, <1>5 DEF Holds, NameAfter, Naming, Creators
<1>6. CASE y.kind = x.kind /\ x.kind \in {"Qty", "SetArgument"} /\ y.at = x.at /\ y.to # x.to
  <2>1. CASE x.kind = "Qty"
    BY <1>2, <1>6, <2>1 DEF Holds, QtyAfter
  <2>2. CASE x.kind = "SetArgument"
    BY <1>2, <1>6, <2>2 DEF Holds, ArgAfter
  <2> QED BY <1>6, <2>1, <2>2
<1> QED BY <1>1, <1>3, <1>4, <1>5, <1>6 DEF Opposed, OpKinds, Naming, Creators

(* What was done and is gone comes back only when it is done again.        *)
LEMMA DoneAgain ==
  ASSUME NEW s, Sound(s), NEW y, IsOp(y), NEW t, Did(s, y, t), NEW x, IsOp(x), Done(s, x),
         ~Holds(s, x), Holds(t, x)
  PROVE  y = x
<1>1. /\ x.kind \in OpKinds /\ x.at \in Objects /\ (x.kind \notin {"Rel", "BindAsset", "Remove"} => x.to # 0)
      /\ y.kind \in OpKinds /\ y.at \in Objects
  BY OpFields
<1>2. /\ t.name[x.at] = NameAfter(s, y, x.at) /\ t.qty[x.at] = QtyAfter(s, y, x.at)
      /\ t.arg[x.at] = ArgAfter(s, y, x.at)
  BY <1>1 DEF Did
<1>3. x.kind \notin Naming
  <2> SUFFICES ASSUME x.kind \in Naming PROVE FALSE
    OBVIOUS
  <2>1. x.to \in s.used /\ Occupied(s, x.at) /\ s.name[x.at] # x.to /\ t.name[x.at] = x.to
    BY DEF Done, Holds, Naming, Creators
  <2>2. y.at = x.at /\ y.kind = "Rename" /\ y.to = x.to
    BY <1>1, <1>2, <2>1 DEF NameAfter, Did, Naming, Creators
  <2> QED BY <2>1, <2>2 DEF Did
<1>4. x.kind # "Remove"
  BY DEF Done, Holds, Sound, Live
<1>5. CASE x.kind \in {"Qty", "SetArgument"}
  <2>1. y.at = x.at /\ y.kind = x.kind /\ y.to = x.to
    <3>1. ~(y.kind = "Instantiate" /\ y.at = x.at)
      BY DEF Done, Did, Creators
    <3> QED BY <1>1, <1>2, <1>5, <3>1 DEF Holds, QtyAfter, ArgAfter
  <2> QED BY <2>1 DEF IsOp
<1>6. CASE x.kind = "Rel"
  <2>1. <<x.at, x.to>> \notin s.rels /\ <<x.at, x.to>> \in t.rels
    BY <1>6 DEF Holds
  <2>2. y.kind = "Rel" /\ y.at = x.at /\ y.to = x.to
    BY <2>1 DEF Did, RelsAfter
  <2> QED BY <1>6, <2>2 DEF IsOp
<1>7. CASE x.kind = "BindAsset"
  <2>1. y.kind = "BindAsset" /\ y.at = x.at /\ y.to = x.to
    BY <1>7 DEF Holds, Did
  <2> QED BY <1>7, <2>1 DEF IsOp
<1> QED BY <1>1, <1>3, <1>4, <1>5, <1>6, <1>7 DEF OpKinds, Naming, Creators

(* What an operation would undo of a later one is a cell both set.         *)
LEMMA SetLater ==
  ASSUME NEW s, Sound(s), NEW x, IsOp(x), NEW t, Did(s, x, t), NEW y, IsOp(y), Done(s, y),
         Opposed(y, x)
  PROVE  y.kind = x.kind /\ y.at = x.at /\ x.kind \in Kept
<1>1. x.kind \in OpKinds /\ x.at \in Objects
  BY OpFields
<1>2. y.kind # "Remove"
  <2> SUFFICES ASSUME y.kind = "Remove" PROVE FALSE
    OBVIOUS
  <2>1. y.at \in s.tombs /\ ~Live(s, y.at) /\ Occupied(s, y.at)
    BY DEF Done, Sound
  <2> QED BY <1>1, <2>1 DEF Opposed, Did, Creators, OpKinds
<1>3. ASSUME y.kind = "Rename", x.kind \in Naming, y.at = x.at
      PROVE  x.kind = "Rename"
  BY <1>3 DEF Done, Did, Naming
<1> QED BY <1>2, <1>3 DEF Opposed, Kept

-----------------------------------------------------------------------------
(* One author's work: operations ops took b to s.                          *)
Ran(b, ops, s) ==
    /\ Sound(s) /\ ops \in Seq(Ops)
    /\ \A i \in DOMAIN ops : Done(s, ops[i])
    /\ \A i, j \in DOMAIN ops :
          i < j => /\ Opposed(ops[j], ops[i]) /\ Holds(s, ops[i])
                      => \E k \in DOMAIN ops : j < k /\ ops[k] = ops[i]
                   /\ Opposed(ops[i], ops[j])
                      => ops[i].kind = ops[j].kind /\ ops[i].at = ops[j].at /\ ops[j].kind \in Kept
    /\ (\A i \in DOMAIN ops : ops[i].kind \notin PatternKinds)
          => \A a \in Objects : s.arg[a] \in {0, b.arg[a]}

LEMMA AppendIs ==
  ASSUME NEW S, NEW ops \in Seq(S), NEW op \in S, NEW new, new = Append(ops, op)
  PROVE  /\ new \in Seq(S) /\ Len(ops) \in Nat /\ DOMAIN ops = 1 .. Len(ops)
         /\ DOMAIN new = 1 .. Len(ops) + 1 /\ new[Len(ops) + 1] = op
         /\ \A i \in DOMAIN ops : new[i] = ops[i]
OBVIOUS

LEMMA RanOn ==
  ASSUME NEW b, NEW ops, NEW s, Ran(b, ops, s), NEW op \in Ops, NEW t, t = ApplyOp(s, op), t # Fail,
         NEW new, new = Append(ops, op)
  PROVE  Ran(b, new, t)
<1>0. IsOp(op) /\ \A i \in DOMAIN ops : IsOp(ops[i])
  BY EditsAssumption DEF Ran
<1>1. Sound(s) /\ Sound(t) /\ Did(s, op, t)
  BY <1>0, OpSound, OpDoes DEF Ran
<1> DEFINE n == Len(ops) + 1
<1>2. /\ new \in Seq(Ops) /\ Len(ops) \in Nat /\ DOMAIN ops = 1 .. Len(ops)
      /\ DOMAIN new = 1 .. n /\ new[n] = op /\ \A i \in DOMAIN ops : new[i] = ops[i]
  BY AppendIs DEF Ran
<1> HIDE DEF n
<1>3. DOMAIN new = DOMAIN ops \cup {n} /\ \A i \in DOMAIN ops : i < n
  BY <1>2 DEF n
<1>4. n \in DOMAIN new /\ n \notin DOMAIN ops
  BY <1>2 DEF n
<1>5. \A i \in DOMAIN new : Done(t, new[i])
  <2>1. Done(t, op)
    BY <1>0, <1>1, Effect
  <2>2. \A i \in DOMAIN ops : Done(t, ops[i])
    BY <1>0, <1>1, DoneStays DEF Ran
  <2> QED BY <1>2, <1>3, <2>1, <2>2
<1>6. ASSUME NEW i \in DOMAIN new, NEW j \in DOMAIN new, i < j, Opposed(new[j], new[i]), Holds(t, new[i])
      PROVE  \E k \in DOMAIN new : j < k /\ new[k] = new[i]
  <2>1. i \in DOMAIN ops /\ new[i] = ops[i]
    BY <1>2, <1>3, <1>6 DEF n
  <2>2. j # n
    BY <1>0, <1>1, <1>2, <1>6, <2>1, UndoesSurely
  <2>3. j \in DOMAIN ops /\ new[j] = ops[j]
    BY <1>2, <1>3, <2>2
  <2>4. CASE Holds(s, ops[i])
    <3>1. PICK k \in DOMAIN ops : j < k /\ ops[k] = ops[i]
      BY <1>6, <2>1, <2>3, <2>4 DEF Ran
    <3> QED BY <1>2, <1>3, <2>1, <3>1
  <2>5. CASE ~Holds(s, ops[i])
    <3>1. op = ops[i]
      BY <1>0, <1>1, <1>6, <2>1, <2>5, DoneAgain DEF Ran
    <3> QED BY <1>2, <1>3, <1>4, <2>1, <2>3, <3>1
  <2> QED BY <2>4, <2>5
<1>7. ASSUME NEW i \in DOMAIN new, NEW j \in DOMAIN new, i < j, Opposed(new[i], new[j])
      PROVE  new[i].kind = new[j].kind /\ new[i].at = new[j].at /\ new[j].kind \in Kept
  <2>1. i \in DOMAIN ops /\ new[i] = ops[i]
    BY <1>2, <1>3, <1>7 DEF n
  <2>2. CASE j = n
    BY <1>0, <1>1, <1>2, <1>7, <2>1, <2>2, SetLater DEF Ran
  <2>3. CASE j # n
    <3>1. j \in DOMAIN ops /\ new[j] = ops[j]
      BY <1>2, <1>3, <2>3
    <3> QED BY <1>7, <2>1, <3>1 DEF Ran
  <2> QED BY <2>2, <2>3
<1>8. ASSUME \A i \in DOMAIN new : new[i].kind \notin PatternKinds, NEW a \in Objects
       PROVE  t.arg[a] \in {0, b.arg[a]}
  <2>1. op.kind \notin PatternKinds /\ \A i \in DOMAIN ops : ops[i].kind \notin PatternKinds
    BY <1>2, <1>3, <1>4, <1>8
  <2>2. s.arg[a] \in {0, b.arg[a]}
    BY <2>1 DEF Ran
  <2>3. t.arg[a] \in {0, s.arg[a]}
    BY <1>1, <2>1 DEF Did, ArgAfter, PatternKinds
  <2> QED BY <2>2, <2>3
<1>9. \A i, j \in DOMAIN new :
          i < j => /\ Opposed(new[j], new[i]) /\ Holds(t, new[i])
                      => \E k \in DOMAIN new : j < k /\ new[k] = new[i]
                   /\ Opposed(new[i], new[j])
                      => new[i].kind = new[j].kind /\ new[i].at = new[j].at /\ new[j].kind \in Kept
  BY <1>6, <1>7, Zenon
<1> QED BY <1>1, <1>2, <1>5, <1>8, <1>9, Zenon DEF Ran

-----------------------------------------------------------------------------
(* The fold of apply_ops, turn by turn.                                    *)

(* Some of the operations, in order.                                       *)
Turns(s, ops, t, n, run) ==
    run = [k \in 0 .. n |-> IF k = 0 THEN s ELSE IF k \in t THEN Step(run[k - 1], ops[k]) ELSE run[k - 1]]

LEMMA TurnsExist ==
  ASSUME NEW s, NEW ops, NEW t, NEW n \in Nat
  PROVE  \E run : Turns(s, ops, t, n, run)
<1> DEFINE bad == {m \in Nat : \A run : ~Turns(s, ops, t, m, run)}
<1>1. SUFFICES ASSUME bad # {} PROVE FALSE
  OBVIOUS
<1>2. PICK m \in bad : \A k \in bad : m <= k
  BY <1>1, LeastOf
<1>3. CASE m = 0
  <2> DEFINE f == [k \in 0 .. 0 |-> s]
  <2>1. f = [k \in 0 .. 0 |-> IF k = 0 THEN s ELSE IF k \in t THEN Step(f[k - 1], ops[k]) ELSE f[k - 1]]
    OBVIOUS
  <2>2. Turns(s, ops, t, 0, f)
    BY <2>1 DEF Turns
  <2> QED BY <1>2, <1>3, <2>2
<1>4. CASE m # 0
  <2>1. m - 1 \in Nat /\ m \in Nat /\ m - 1 \notin bad
    BY <1>2, <1>4
  <2>2. PICK g : Turns(s, ops, t, m - 1, g)
    BY <2>1
  <2> DEFINE f == [k \in 0 .. m |-> IF k < m THEN g[k] ELSE IF m \in t THEN Step(g[m - 1], ops[m]) ELSE g[m - 1]]
  <2>3. ASSUME NEW k \in 0 .. m
        PROVE  f[k] = IF k = 0 THEN s ELSE IF k \in t THEN Step(f[k - 1], ops[k]) ELSE f[k - 1]
    <3>1. CASE k < m
      <4>1. k \in 0 .. m - 1 /\ f[k] = g[k]
        BY <2>1, <3>1
      <4>2. g[k] = IF k = 0 THEN s ELSE IF k \in t THEN Step(g[k - 1], ops[k]) ELSE g[k - 1]
        BY <2>2, <4>1 DEF Turns
      <4>3. k # 0 => f[k - 1] = g[k - 1]
        BY <2>1, <3>1
      <4> HIDE DEF f
      <4> QED BY <4>1, <4>2, <4>3
    <3>2. CASE k = m
      <4>1. f[k] = (IF m \in t THEN Step(g[m - 1], ops[m]) ELSE g[m - 1]) /\ f[m - 1] = g[m - 1]
        BY <2>1, <3>2
      <4> HIDE DEF f
      <4> QED BY <1>4, <3>2, <4>1
    <3> QED BY <2>1, <3>1, <3>2
  <2>4. f = [k \in 0 .. m |-> f[k]]
    OBVIOUS
  <2> HIDE DEF f
  <2>5. Turns(s, ops, t, m, f)
    BY <2>3, <2>4 DEF Turns
  <2> QED BY <1>2, <2>5
<1> QED BY <1>3, <1>4

LEMMA TurnsAre ==
  ASSUME NEW s, NEW ops, NEW t, NEW n \in Nat, NEW run, Turns(s, ops, t, n, run)
  PROVE  /\ run[0] = s
         /\ \A k \in 1 .. n : run[k] = IF k \in t THEN Step(run[k - 1], ops[k]) ELSE run[k - 1]
BY DEF Turns

(* Only the turns taken before matter.                                     *)
LEMMA TurnsAgree ==
  ASSUME NEW s, NEW ops, NEW t, NEW u, NEW n \in Nat, NEW m \in 0 .. n,
         NEW f, NEW g, Turns(s, ops, t, n, f), Turns(s, ops, u, n, g),
         \A k \in 1 .. n : k <= m => (k \in t <=> k \in u)
  PROVE  f[m] = g[m]
<1> DEFINE bad == {k \in 0 .. m : f[k] # g[k]}
<1>1. SUFFICES ASSUME bad # {} PROVE FALSE
  OBVIOUS
<1>0. bad \subseteq Nat
  OBVIOUS
<1>2. PICK k \in bad : \A j \in bad : k <= j
  BY <1>0, <1>1, LeastOf
<1>8. f[0] = s /\ g[0] = s
  BY TurnsAre
<1>3. k # 0
  BY <1>2, <1>8
<1>4. k - 1 \in 0 .. m /\ k - 1 \notin bad /\ k \in 1 .. n /\ k \in 1 .. m
  BY <1>2, <1>3
<1>5. f[k - 1] = g[k - 1]
  BY <1>4
<1>6. f[k] = (IF k \in t THEN Step(f[k - 1], ops[k]) ELSE f[k - 1])
      /\ g[k] = (IF k \in u THEN Step(g[k - 1], ops[k]) ELSE g[k - 1])
  BY <1>4, TurnsAre
<1>7. f[k] = g[k]
  BY <1>4, <1>5, <1>6
<1> QED BY <1>2, <1>7

Idle(t, m, n) == \A k \in 1 .. n : m < k => k \notin t

LEMMA TurnsRest ==
  ASSUME NEW s, NEW ops, NEW t, NEW n \in Nat, NEW m \in 0 .. n, NEW f, Turns(s, ops, t, n, f),
         Idle(t, m, n)
  PROVE  f[n] = f[m]
<1> DEFINE bad == {k \in m .. n : f[k] # f[m]}
<1>1. SUFFICES ASSUME bad # {} PROVE FALSE
  OBVIOUS
<1>2. bad \subseteq Nat
  OBVIOUS
<1>3. PICK k \in bad : \A j \in bad : k <= j
  BY <1>1, <1>2, LeastOf
<1>4. k # m /\ k - 1 \in m .. n /\ k - 1 \notin bad /\ k \in 1 .. n /\ m < k
  BY <1>3
<1>5. f[k - 1] = f[m] /\ f[k] = f[k - 1]
  BY <1>4, TurnsAre DEF Idle
<1> QED BY <1>3, <1>5

Fold(s, ops, iter) ==
    [t \in SUBSET DOMAIN ops |->
        IF t = {} THEN s ELSE Step(iter[t \ {Max(t)}], ops[Max(t)])]

LEMMA ApplyAllIsFold ==
  ASSUME NEW s, NEW ops
  PROVE  ApplyAll(s, ops) = (CHOOSE iter : iter = Fold(s, ops, iter))[DOMAIN ops]
BY DEF ApplyAll, FoldLeft, MapThenFoldSet, Fold

LEMMA MaxOf ==
  ASSUME NEW n \in Nat, NEW t \in SUBSET (1 .. n), t # {}
  PROVE  Max(t) \in t /\ \A k \in t : k <= Max(t)
<1>1. \E x \in t : \A y \in t : x >= y
  <2> DEFINE S == {n - k : k \in t}
  <2>1. S \subseteq Nat /\ S # {}
    <3>1. \A k \in t : n - k \in Nat
      OBVIOUS
    <3> QED BY <3>1
  <2>2. PICK x \in S : \A y \in S : x <= y
    BY <2>1, LeastOf
  <2>3. PICK k \in t : x = n - k
    BY <2>2
  <2>4. \A j \in t : k >= j
    <3> SUFFICES ASSUME NEW j \in t PROVE k >= j
      OBVIOUS
    <3>1. x <= n - j /\ n \in Nat /\ j \in Nat /\ k \in Nat
      BY <2>2
    <3> QED BY <2>3, <3>1
  <2> QED BY <2>4
<1> QED BY <1>1 DEF Max

LEMMA FoldExists ==
  ASSUME NEW s, NEW ops, NEW n \in Nat, DOMAIN ops = 1 .. n
  PROVE  \E iter : iter = Fold(s, ops, iter)
<1> DEFINE run == [t \in SUBSET (1 .. n) |-> CHOOSE r : Turns(s, ops, t, n, r)]
           g == [t \in SUBSET (1 .. n) |-> run[t][n]]
<1>1. \A t \in SUBSET (1 .. n) : Turns(s, ops, t, n, run[t])
  BY TurnsExist
<1>2. \A t \in SUBSET (1 .. n) : g[t] = run[t][n]
  OBVIOUS
<1>3. g = [t \in SUBSET (1 .. n) |-> g[t]]
  OBVIOUS
<1> HIDE DEF run, g
<1>4. g[{}] = s
  <2>1. {} \in SUBSET (1 .. n) /\ 0 \in 0 .. n /\ Idle({}, 0, n)
    BY DEF Idle
  <2>2. PICK r : r = run[{}]
    OBVIOUS
  <2>3. Turns(s, ops, {}, n, r)
    BY <1>1, <2>1, <2>2
  <2>4. r[n] = r[0]
    BY <2>1, <2>3, TurnsRest
  <2>5. r[0] = s
    BY <2>3, TurnsAre
  <2> QED BY <1>2, <2>1, <2>2, <2>4, <2>5
<1>5. ASSUME NEW t \in SUBSET (1 .. n), t # {}
      PROVE  g[t] = Step(g[t \ {Max(t)}], ops[Max(t)])
  <2>1. PICK m : m = Max(t)
    OBVIOUS
  <2>2. PICK u : u = t \ {m}
    OBVIOUS
  <2>12. Max(t) \in t /\ \A k \in t : k <= Max(t)
    BY <1>5, MaxOf
  <2>3. m \in t /\ m \in 1 .. n /\ m \in 0 .. n /\ m - 1 \in 0 .. n /\ \A k \in t : k <= m
    <3>1. m \in t /\ \A k \in t : k <= m
      BY <2>1, <2>12
    <3>2. m \in 1 .. n
      BY <3>1
    <3> QED BY <3>1, <3>2
  <2>4. PICK f : f = run[t]
    OBVIOUS
  <2>5. PICK h : h = run[u]
    OBVIOUS
  <2>6. u \in SUBSET (1 .. n) /\ Turns(s, ops, t, n, f) /\ Turns(s, ops, u, n, h)
    BY <1>1, <2>2, <2>4, <2>5
  <2>7. f[n] = f[m]
    <3>1. Idle(t, m, n)
      BY <2>3 DEF Idle
    <3> QED BY <2>3, <2>6, <3>1, TurnsRest
  <2>8. f[m] = Step(f[m - 1], ops[m])
    BY <2>3, <2>6, TurnsAre
  <2>9. PICK j : j = m - 1
    OBVIOUS
  <2>10. h[n] = h[j]
    <3>1. Idle(u, j, n)
      BY <2>2, <2>3, <2>9 DEF Idle
    <3>2. j \in 0 .. n
      BY <2>3, <2>9
    <3> QED BY <2>6, <3>1, <3>2, TurnsRest
  <2>11. f[j] = h[j]
    <3>1. \A k \in 1 .. n : k <= j => (k \in t <=> k \in u)
      BY <2>2, <2>3, <2>9
    <3>2. j \in 0 .. n
      BY <2>3, <2>9
    <3> QED BY <2>6, <3>1, <3>2, TurnsAgree
  <2> QED BY <1>2, <2>1, <2>2, <2>4, <2>5, <2>6, <2>7, <2>8, <2>9, <2>10, <2>11
<1>6. g = Fold(s, ops, g)
  BY <1>3, <1>4, <1>5 DEF Fold
<1> QED BY <1>6

(* The state after each operation.                                         *)
LEMMA ApplyAllRuns ==
  ASSUME NEW s, NEW ops, NEW n \in Nat, DOMAIN ops = 1 .. n
  PROVE  \E run : /\ run[0] = s /\ run[n] = ApplyAll(s, ops)
                  /\ \A k \in 1 .. n : run[k] = Step(run[k - 1], ops[k])
<1>1. PICK iter : iter = Fold(s, ops, iter) /\ ApplyAll(s, ops) = iter[1 .. n]
  BY FoldExists, ApplyAllIsFold
<1> DEFINE run == [k \in 0 .. n |-> iter[1 .. k]]
<1>2. run[0] = s
  <2>1. 1 .. 0 = {} /\ run[0] = iter[1 .. 0]
    OBVIOUS
  <2>2. iter[{}] = s
    BY <1>1 DEF Fold
  <2> QED BY <2>1, <2>2
<1>3. run[n] = ApplyAll(s, ops)
  BY <1>1
<1>4. ASSUME NEW k \in 1 .. n PROVE run[k] = Step(run[k - 1], ops[k])
  <2>1. PICK t : t = 1 .. k
    OBVIOUS
  <2>2. t \in SUBSET (1 .. n) /\ t # {} /\ k \in t
    BY <2>1
  <2>3. Max(t) = k
    <3>1. Max(t) \in t /\ \A j \in t : j <= Max(t)
      BY <2>2, MaxOf
    <3> QED BY <2>1, <2>2, <3>1
  <2>4. t \ {k} = 1 .. k - 1
    BY <2>1
  <2>5. iter[t] = Step(iter[t \ {Max(t)}], ops[Max(t)])
    BY <1>1, <2>2 DEF Fold
  <2>6. iter[t] = Step(iter[t \ {k}], ops[k])
    BY <2>3, <2>5
  <2>7. run[k] = iter[t] /\ run[k - 1] = iter[1 .. k - 1]
    BY <2>1
  <2> QED BY <2>4, <2>6, <2>7
<1> QED BY <1>2, <1>3, <1>4
-----------------------------------------------------------------------------
(* The order of a merge.                                                   *)

LEMMA AnchorsAreInt == Module \in Int /\ \A a \in Objects : a \in Int
<1>1. Objects \subseteq Nat /\ Module \in Nat
  BY AnchorsAssumption
<1>2. \A a \in Nat : a \in Int
  OBVIOUS
<1> QED BY <1>1, <1>2

LEMMA FieldNumbers ==
  /\ NameF = 0 /\ KindF = 1 /\ QtyF = 3 /\ RelF = 5 /\ AliasF = 8 /\ TombF = 9 /\ ArgF = 11
  /\ VersionF = 12 /\ AssetF = 13 /\ OrderF = 16
BY DEF NameF, KindF, QtyF, RelF, AliasF, TombF, ArgF, VersionF, AssetF, OrderF

(* A cell of the operation that none of its cells comes before.            *)
IsFirst(c, op) == c \in Writes(op) /\ \A d \in Writes(op) : d = c \/ CellLess(c, d)

LEMMA FirstCell ==
  ASSUME NEW op, IsOp(op) PROVE \E c : IsFirst(c, op)
<1>1. op.kind \in OpKinds /\ op.at \in Int /\ Module \in Int /\ (op.kind = "Rel" => op.to \in Int)
  BY OpFields, AnchorsAreInt
<1> DEFINE at(f) == <<op.at, f>>
<1>2. CASE op.kind = "AddLocus"
  <2>1. Writes(op) = {<<op.at, 0>>, <<op.at, 1>>, <<Module, 16>>}
    BY <1>2 DEF Writes, NameF, KindF, OrderF
  <2>2. CASE op.at <= Module
    <3>1. \A d \in Writes(op) : d = <<op.at, 0>> \/ CellLess(<<op.at, 0>>, d)
      BY <1>1, <2>1, <2>2 DEF CellLess
    <3> QED BY <2>1, <3>1 DEF IsFirst
  <2>3. CASE Module < op.at
    <3>1. \A d \in Writes(op) : d = <<Module, 16>> \/ CellLess(<<Module, 16>>, d)
      BY <1>1, <2>1, <2>3 DEF CellLess
    <3> QED BY <2>1, <3>1 DEF IsFirst
  <2> QED BY <1>1, <2>2, <2>3
<1>3. CASE op.kind = "Rel"
  <2>1. Writes(op) = {<<op.at, 5>>, <<op.to, 5>>}
    BY <1>3 DEF Writes, RelF
  <2>2. CASE op.at <= op.to
    <3>1. \A d \in Writes(op) : d = <<op.at, 5>> \/ CellLess(<<op.at, 5>>, d)
      BY <1>1, <1>3, <2>1, <2>2 DEF CellLess
    <3> QED BY <2>1, <3>1 DEF IsFirst
  <2>3. CASE op.to < op.at
    <3>1. \A d \in Writes(op) : d = <<op.to, 5>> \/ CellLess(<<op.to, 5>>, d)
      BY <1>1, <1>3, <2>1, <2>3 DEF CellLess
    <3> QED BY <2>1, <3>1 DEF IsFirst
  <2> QED BY <1>1, <1>3, <2>2, <2>3
<1>4. CASE op.kind = "Remove"
  <2>1. Writes(op) = {<<op.at, 9>>, <<op.at, 0>>}
    BY <1>4 DEF Writes, TombF, NameF
  <2>2. \A d \in Writes(op) : d = <<op.at, 0>> \/ CellLess(<<op.at, 0>>, d)
    BY <1>1, <2>1 DEF CellLess
  <2> QED BY <2>1, <2>2 DEF IsFirst
<1>5. CASE op.kind = "Rename"
  <2>1. Writes(op) = {<<op.at, 0>>, <<op.at, 8>>}
    BY <1>5 DEF Writes, NameF, AliasF
  <2>2. \A d \in Writes(op) : d = <<op.at, 0>> \/ CellLess(<<op.at, 0>>, d)
    BY <1>1, <2>1 DEF CellLess
  <2> QED BY <2>1, <2>2 DEF IsFirst
<1>6. CASE op.kind \in {"Qty", "BindAsset", "Instantiate", "SetArgument"}
  <2>1. \E c : Writes(op) = {c}
    BY <1>6 DEF Writes
  <2> QED BY <2>1 DEF IsFirst
<1> QED BY <1>1, <1>2, <1>3, <1>4, <1>5, <1>6 DEF OpKinds

LEMMA PrimaryIs ==
  ASSUME NEW op, IsOp(op)
  PROVE  PrimaryCell(op)[1] \in Int /\ PrimaryCell(op)[2] \in Int
         /\ PrimaryCell(op) = <<PrimaryCell(op)[1], PrimaryCell(op)[2]>>
<1>1. PrimaryCell(op) \in Writes(op)
  <2>1. \E c \in Writes(op) : \A d \in Writes(op) : d = c \/ CellLess(c, d)
    BY FirstCell DEF IsFirst
  <2> QED BY <2>1 DEF PrimaryCell
<1>2. op.kind \in OpKinds /\ op.at \in Int /\ Module \in Int /\ (op.kind = "Rel" => op.to \in Int)
  BY OpFields, AnchorsAreInt
<1>3. \A c \in Writes(op) : c[1] \in Int /\ c[2] \in Int /\ c = <<c[1], c[2]>>
  BY <1>2, FieldNumbers DEF Writes, OpKinds
<1> QED BY <1>1, <1>3

(* Tagged operations of which no two have the same place.                  *)
AreTagged(T) ==
    /\ IsFiniteSet(T)
    /\ \A x \in T : IsOp(x.op) /\ x.id \in Int /\ x.pos \in Int
    /\ \A x, y \in T : x.id = y.id /\ x.pos = y.pos => x = y

LEMMA TotalOrder ==
  ASSUME NEW T, AreTagged(T)
  PROVE  /\ \A x \in T : ~InOrder(x, x)
         /\ \A x, y \in T : x = y \/ InOrder(x, y) \/ InOrder(y, x)
         /\ \A x, y, z \in T : InOrder(x, y) /\ InOrder(y, z) => InOrder(x, z)
<1> DEFINE c(x) == PrimaryCell(x.op)[1]
           f(x) == PrimaryCell(x.op)[2]
<1>1. \A x \in T : c(x) \in Int /\ f(x) \in Int /\ x.id \in Int /\ x.pos \in Int
  BY PrimaryIs DEF AreTagged
<1>2. \A x, y \in T : PrimaryCell(x.op) = PrimaryCell(y.op) <=> c(x) = c(y) /\ f(x) = f(y)
  BY PrimaryIs DEF AreTagged
<1>3. \A x, y \in T : InOrder(x, y) <=> \/ c(x) < c(y)
                                        \/ c(x) = c(y) /\ f(x) < f(y)
                                        \/ c(x) = c(y) /\ f(x) = f(y) /\ x.id < y.id
                                        \/ c(x) = c(y) /\ f(x) = f(y) /\ x.id = y.id /\ x.pos < y.pos
  BY <1>1, <1>2 DEF InOrder, CellLess
<1>4. \A x, y \in T : x.id = y.id /\ x.pos = y.pos => x = y
  BY DEF AreTagged
<1> HIDE DEF c, f
<1>5. \A x \in T : ~InOrder(x, x)
  BY <1>1, <1>3
<1>6. \A x, y \in T : x = y \/ InOrder(x, y) \/ InOrder(y, x)
  BY <1>1, <1>3, <1>4
<1>7. ASSUME NEW x \in T, NEW y \in T, NEW z \in T, InOrder(x, y), InOrder(y, z)
      PROVE  InOrder(x, z)
  BY <1>1, <1>3, <1>7
<1> QED BY <1>5, <1>6, <1>7

Before(x, T) == {y \in T : InOrder(y, x)}

LEMMA RankIs ==
  ASSUME NEW T, AreTagged(T)
  PROVE  /\ Cardinality(T) \in Nat
         /\ \A x \in T : Rank(x, T) \in 1 .. Cardinality(T)
         /\ \A x, y \in T : InOrder(x, y) => Rank(x, T) < Rank(y, T)
<1>1. IsFiniteSet(T) /\ Cardinality(T) \in Nat
  BY FS_CardinalityType DEF AreTagged
<1>2. \A x \in T : IsFiniteSet(Before(x, T)) /\ Cardinality(Before(x, T)) \in Nat
                   /\ Rank(x, T) = Cardinality(Before(x, T)) + 1
  BY <1>1, FS_Subset, FS_CardinalityType DEF Before, Rank
<1>3. ASSUME NEW x \in T PROVE Rank(x, T) \in 1 .. Cardinality(T)
  <2>1. Before(x, T) \subseteq T /\ x \in T /\ x \notin Before(x, T)
    BY TotalOrder DEF Before
  <2>2. /\ Cardinality(Before(x, T)) <= Cardinality(T)
        /\ Cardinality(T) = Cardinality(Before(x, T)) => T = Before(x, T)
    BY <1>1, <2>1, FS_Subset
  <2>3. Cardinality(T) # Cardinality(Before(x, T))
    BY <2>1, <2>2
  <2> QED BY <1>1, <1>2, <2>2, <2>3
<1>4. ASSUME NEW x \in T, NEW y \in T, InOrder(x, y) PROVE Rank(x, T) < Rank(y, T)
  <2>1. Before(x, T) \subseteq Before(y, T) /\ x \in Before(y, T) /\ x \notin Before(x, T)
    BY <1>4, TotalOrder DEF Before
  <2>2. /\ Cardinality(Before(x, T)) <= Cardinality(Before(y, T))
        /\ Cardinality(Before(y, T)) = Cardinality(Before(x, T)) => Before(y, T) = Before(x, T)
    BY <1>2, <2>1, FS_Subset
  <2>3. Cardinality(Before(y, T)) # Cardinality(Before(x, T))
    BY <2>1, <2>2
  <2> QED BY <1>2, <2>2, <2>3
<1> QED BY <1>1, <1>3, <1>4

LEMMA RankedIs ==
  ASSUME NEW T, AreTagged(T), NEW n, n = Cardinality(T)
  PROVE  \A k \in 1 .. n : \E x \in T : Rank(x, T) = k
<1> DEFINE f == [x \in T |-> Rank(x, T)]
<1>1. n \in Nat /\ f \in [T -> 1 .. n]
  BY RankIs
<1>2. \A x, y \in T : f[x] = f[y] => x = y
  BY RankIs, TotalOrder
<1>3. IsFiniteSet(1 .. n) /\ Cardinality(1 .. n) = n /\ IsFiniteSet(T)
  BY <1>1, FS_Interval DEF AreTagged
<1>4. \A x \in T : f[x] = Rank(x, T)
  OBVIOUS
<1> HIDE DEF f
<1>5. f \in Injection(T, 1 .. n)
  BY <1>1, <1>2, Fun_IsInj
<1>6. f \in Surjection(T, 1 .. n)
  BY <1>3, <1>5, FS_Injection
<1>7. \A k \in 1 .. n : \E x \in T : f[x] = k
  BY <1>6, Fun_SurjectionProperties
<1> QED BY <1>4, <1>7

LEMMA ArrangedIs ==
  ASSUME NEW T, AreTagged(T), NEW n, n = Cardinality(T), NEW all, all = Arranged(T)
  PROVE  /\ n \in Nat /\ DOMAIN all = 1 .. n
         /\ \A k \in 1 .. n : all[k] \in T
         /\ \A x \in T : \E k \in 1 .. n : all[k] = x
         /\ \A k, m \in 1 .. n : k < m => InOrder(all[k], all[m])
<1>1. n \in Nat /\ DOMAIN all = 1 .. n
  BY RankIs DEF Arranged
<1>2. \A k \in 1 .. n : all[k] \in T /\ Rank(all[k], T) = k
  BY RankedIs DEF Arranged
<1>3. ASSUME NEW x \in T PROVE \E k \in 1 .. n : all[k] = x
  <2>1. PICK k \in 1 .. n : k = Rank(x, T)
    BY RankIs
  <2>2. all[k] \in T /\ Rank(all[k], T) = Rank(x, T)
    BY <1>2, <2>1
  <2>3. \A y \in T : Rank(y, T) \in Int
    BY RankIs
  <2>4. all[k] = x
    BY <2>2, <2>3, RankIs, TotalOrder
  <2> QED BY <2>4
<1>4. ASSUME NEW k \in 1 .. n, NEW m \in 1 .. n, k < m PROVE InOrder(all[k], all[m])
  <2>1. all[k] \in T /\ all[m] \in T /\ Rank(all[k], T) = k /\ Rank(all[m], T) = m
    BY <1>2
  <2>2. all[k] # all[m] /\ ~InOrder(all[m], all[k])
    BY <1>1, <1>4, <2>1, RankIs
  <2> QED BY <2>1, <2>2, TotalOrder
<1> QED BY <1>1, <1>2, <1>3, <1>4

LEMMA SameOpIs ==
  /\ \A a : SameOp(a, a)
  /\ \A a, b, c : SameOp(a, b) /\ SameOp(b, c) => SameOp(a, c)
  /\ \A a, b : SameOp(a, b) /\ a.kind # "Remove" => a = b
BY DEF SameOp

(* The first of those that coalesce is taken.                              *)
LEMMA FreshIs ==
  ASSUME NEW T, AreTagged(T)
  PROVE  /\ AreTagged(Fresh(T)) /\ Fresh(T) \subseteq T
         /\ \A x \in T : \E y \in Fresh(T) : SameOp(y.op, x.op)
<1>1. Fresh(T) \subseteq T
  BY DEF Fresh
<1>2. AreTagged(Fresh(T))
  <2>1. IsFiniteSet(Fresh(T))
    BY <1>1, FS_Subset DEF AreTagged
  <2> QED BY <1>1, <2>1 DEF AreTagged
<1>3. ASSUME NEW x \in T PROVE \E y \in Fresh(T) : SameOp(y.op, x.op)
  <2> DEFINE S == {y \in T : SameOp(y.op, x.op)}
             R == {Rank(y, T) : y \in S}
  <2>1. x \in S
    BY SameOpIs
  <2>2. R \subseteq Nat /\ R # {}
    BY <2>1, RankIs
  <2>3. PICK r \in R : \A q \in R : r <= q
    BY <2>2, LeastOf
  <2>4. PICK y \in S : Rank(y, T) = r
    BY <2>3
  <2>5. ASSUME NEW z \in T, InOrder(z, y), SameOp(z.op, y.op) PROVE FALSE
    <3>1. z \in S
      BY <2>4, <2>5, SameOpIs
    <3>2. Rank(y, T) <= Rank(z, T) /\ Rank(y, T) \in Int /\ Rank(z, T) \in Int
      BY <2>3, <2>4, <3>1, RankIs
    <3>3. Rank(z, T) < Rank(y, T)
      BY <2>5, RankIs
    <3> QED BY <3>2, <3>3
  <2>6. y \in Fresh(T)
    BY <2>5 DEF Fresh
  <2> QED BY <2>6
<1> QED BY <1>1, <1>2, <1>3

-----------------------------------------------------------------------------
(* A merge that goes through, state by state.                              *)

MergeRun(s, all, n, run, merged) ==
    /\ run[0] = s /\ run[n] = merged
    /\ \A k \in 0 .. n : Sound(run[k])
    /\ \A k \in 1 .. n : IsOp(all[k].op) /\ Did(run[k - 1], all[k].op, run[k])

LEMMA MergeRuns ==
  ASSUME NEW s, Sound(s), NEW T, AreTagged(T), NEW n, n = Cardinality(T),
         NEW all, all = Arranged(T), NEW merged,
         merged = ApplyAll(s, [k \in DOMAIN all |-> all[k].op]), merged # Fail
  PROVE  \E run : MergeRun(s, all, n, run, merged)
<1>1. n \in Nat /\ DOMAIN all = 1 .. n /\ \A k \in 1 .. n : all[k] \in T
  BY ArrangedIs
<1> DEFINE ops == [k \in DOMAIN all |-> all[k].op]
<1>2. DOMAIN ops = 1 .. n /\ \A k \in 1 .. n : ops[k] = all[k].op /\ IsOp(all[k].op)
  BY <1>1 DEF AreTagged
<1>3. merged = ApplyAll(s, ops)
  OBVIOUS
<1> HIDE DEF ops
<1>4. PICK run : /\ run[0] = s /\ run[n] = merged
                 /\ \A k \in 1 .. n : run[k] = Step(run[k - 1], ops[k])
  <2>1. n \in Nat /\ DOMAIN ops = 1 .. n
    BY <1>1, <1>2
  <2>2. \E run : /\ run[0] = s /\ run[n] = ApplyAll(s, ops)
                 /\ \A k \in 1 .. n : run[k] = Step(run[k - 1], ops[k])
    BY <2>1, ApplyAllRuns
  <2> QED BY <1>3, <2>2
<1>5. \A k \in 0 .. n : run[k] # Fail
  <2> DEFINE S == {j \in 0 .. n : run[n - j] = Fail}
  <2> SUFFICES ASSUME NEW k \in 0 .. n, run[k] = Fail PROVE FALSE
    OBVIOUS
  <2>1. S \subseteq Nat /\ n - k \in S
    <3>1. n - k \in 0 .. n /\ n - (n - k) = k
      BY <1>1
    <3> QED BY <1>1, <3>1
  <2>2. PICK j \in S : \A i \in S : j <= i
    BY <2>1, LeastOf
  <2>3. j # 0
    BY <1>1, <1>4, <2>2
  <2>4. j - 1 \in 0 .. n /\ j - 1 \notin S /\ n - j \in 0 .. n /\ n - (j - 1) \in 1 .. n
        /\ (n - (j - 1)) - 1 = n - j
    BY <1>1, <2>2, <2>3
  <2>5. PICK m : m = n - (j - 1)
    OBVIOUS
  <2>6. run[m] = Step(run[m - 1], ops[m]) /\ run[m - 1] = Fail /\ run[m] # Fail
    BY <1>4, <2>2, <2>4, <2>5
  <2> QED BY <2>6 DEF Step
<1>6. ASSUME NEW k \in 1 .. n, Sound(run[k - 1]) PROVE Sound(run[k]) /\ Did(run[k - 1], all[k].op, run[k])
  <2>1. k \in 0 .. n /\ k - 1 \in 0 .. n
    BY <1>1
  <2>2. run[k] = ApplyOp(run[k - 1], all[k].op) /\ run[k] # Fail
    BY <1>2, <1>4, <1>5, <2>1 DEF Step
  <2> QED BY <1>2, <1>6, <2>2, OpSound, OpDoes
<1>7. \A k \in 0 .. n : Sound(run[k])
  <2> DEFINE S == {k \in 0 .. n : ~Sound(run[k])}
  <2> SUFFICES ASSUME S # {} PROVE FALSE
    OBVIOUS
  <2>1. S \subseteq Nat
    OBVIOUS
  <2>2. PICK k \in S : \A i \in S : k <= i
    BY <2>1, LeastOf
  <2>3. k # 0
    BY <1>4, <2>2
  <2>4. k \in 1 .. n /\ k - 1 \in 0 .. n /\ k - 1 \notin S
    BY <1>1, <2>2, <2>3
  <2> QED BY <1>6, <2>2, <2>4
<1>8. \A k \in 1 .. n : Did(run[k - 1], all[k].op, run[k])
  <2> SUFFICES ASSUME NEW k \in 1 .. n PROVE Did(run[k - 1], all[k].op, run[k])
    OBVIOUS
  <2>1. k - 1 \in 0 .. n
    BY <1>1
  <2> QED BY <1>6, <1>7, <2>1
<1> QED BY <1>2, <1>4, <1>7, <1>8 DEF MergeRun

(* What was done is there to the end, unless something opposes it later.   *)
LEMMA HeldOn ==
  ASSUME NEW s, NEW all, NEW n \in Nat, NEW run, NEW merged, MergeRun(s, all, n, run, merged),
         NEW k \in 1 .. n, \A m \in 1 .. n : k < m => ~Opposed(all[m].op, all[k].op)
  PROVE  Holds(merged, all[k].op)
<1> DEFINE S == {m \in k .. n : ~Holds(run[m], all[k].op)}
<1>1. SUFFICES ASSUME S # {} PROVE FALSE
  BY DEF MergeRun
<1>2. S \subseteq Nat
  OBVIOUS
<1>3. PICK m \in S : \A i \in S : m <= i
  BY <1>1, <1>2, LeastOf
<1>4. m # k
  BY <1>3, Effect DEF MergeRun
<1>5. m \in 1 .. n /\ k < m /\ m - 1 \in 0 .. n /\ m - 1 \in k .. n /\ m - 1 \notin S
  BY <1>3, <1>4
<1>6. Holds(run[m - 1], all[k].op) /\ ~Holds(run[m], all[k].op)
  BY <1>3, <1>5
<1>7. Opposed(all[m].op, all[k].op)
  BY <1>5, <1>6, Undoes DEF MergeRun
<1> QED BY <1>5, <1>7

(* What opposes across the authors is a conflict, but for the rename of an *)
(* object the other side made.                                             *)
LEMMA OpposedConflicts ==
  ASSUME NEW s, NEW x, IsOp(x), NEW y, IsOp(y), Opposed(y, x),
         ~(y.kind = "Rename" /\ x.kind = "Instantiate")
  PROVE  Conflicts(s, y, x)
<1>1. x.at \in Involved(x) /\ (x.kind = "Rel" => x.to \in Involved(x))
  BY DEF Involved, Writes
<1>2. CASE y.kind = "Remove"
  BY <1>1, <1>2 DEF Opposed, Conflicts, ClashesWithRemove
<1>3. CASE y.kind = "Rename" /\ x.kind = "Rename" /\ y.at = x.at /\ y.to # x.to
  BY <1>3 DEF Conflicts, NoRemove, EditsClash, PatternKinds
<1>4. CASE y.kind = "Rename" /\ x.kind = "AddLocus" /\ y.at = x.at
  <2>1. <<x.at, NameF>> \in Writes(x) /\ <<x.at, NameF>> \in Writes(y)
    BY <1>4 DEF Writes
  <2> QED BY <1>4, <2>1 DEF Conflicts, NoRemove, EditsClash, PatternKinds
<1>5. CASE y.kind = "Qty" /\ x.kind = "Qty" /\ y.at = x.at /\ y.to # x.to
  <2>1. <<x.at, QtyF>> \in Writes(x) /\ <<x.at, QtyF>> \in Writes(y)
    BY <1>5 DEF Writes
  <2> QED BY <1>5, <2>1 DEF Conflicts, NoRemove, EditsClash, PatternKinds
<1>6. CASE y.kind = "SetArgument" /\ x.kind = "SetArgument" /\ y.at = x.at /\ y.to # x.to
  BY <1>6 DEF Conflicts, NoRemove, EditsClash, PatternKinds
<1> QED BY <1>2, <1>3, <1>4, <1>5, <1>6 DEF Opposed, Naming, Creators

(* Both authors' operations, each with its place.                          *)
Listed(ops) == \E n \in Nat : DOMAIN ops = 1 .. n /\ \A i \in 1 .. n : IsOp(ops[i])

LEMMA TaggedIs ==
  ASSUME NEW ops, Listed(ops), NEW id \in Int, NEW T, T = Tagged(ops, id)
  PROVE  /\ AreTagged(T)
         /\ \A i \in DOMAIN ops : \E x \in T : x.op = ops[i] /\ x.id = id /\ x.pos = i
         /\ \A x \in T : x.id = id /\ x.pos \in DOMAIN ops /\ x.op = ops[x.pos]
<1>1. PICK n \in Nat : DOMAIN ops = 1 .. n /\ \A i \in 1 .. n : IsOp(ops[i])
  BY DEF Listed
<1> DEFINE f == [i \in 1 .. n |-> [op |-> ops[i], id |-> id, pos |-> i]]
<1>2. T = {f[i] : i \in 1 .. n}
  BY <1>1 DEF Tagged
<1>3. \A i \in 1 .. n : f[i].op = ops[i] /\ f[i].id = id /\ f[i].pos = i
  OBVIOUS
<1>4. f \in [1 .. n -> T]
  BY <1>2
<1> HIDE DEF f
<1>5. f \in Surjection(1 .. n, T)
  BY <1>2, <1>4, Fun_IsSurj
<1>6. IsFiniteSet(T)
  <2>1. IsFiniteSet(1 .. n)
    BY FS_Interval
  <2> QED BY <1>5, <2>1, FS_Surjection
<1>7. \A x \in T : x.id = id /\ x.pos \in 1 .. n /\ x.op = ops[x.pos] /\ x = f[x.pos]
  BY <1>2, <1>3
<1>8. AreTagged(T)
  <2>1. \A x \in T : IsOp(x.op) /\ x.id \in Int /\ x.pos \in Int
    BY <1>1, <1>7
  <2>2. \A x, y \in T : x.id = y.id /\ x.pos = y.pos => x = y
    BY <1>7
  <2> QED BY <1>6, <2>1, <2>2 DEF AreTagged
<1>9. \A i \in DOMAIN ops : \E x \in T : x.op = ops[i] /\ x.id = id /\ x.pos = i
  BY <1>1, <1>2, <1>3
<1> QED BY <1>1, <1>7, <1>8, <1>9

LEMMA BothTagged ==
  ASSUME NEW S, AreTagged(S), NEW T, AreTagged(T), \A x \in S, y \in T : x.id # y.id
  PROVE  AreTagged(S \cup T)
<1>1. IsFiniteSet(S \cup T)
  BY FS_Union DEF AreTagged
<1> QED BY <1>1 DEF AreTagged

-----------------------------------------------------------------------------
(* Two changes merged: nothing either author had at the end is lost.       *)

From(x, ops, id) == x.id = id /\ x.pos \in DOMAIN ops /\ x.op = ops[x.pos]

Merging(s, a, p, b, q, all, n, run, merged) ==
    /\ n \in Nat /\ MergeRun(s, all, n, run, merged)
    /\ \A i \in DOMAIN a, j \in DOMAIN b : ~Conflicts(s, a[i], b[j]) /\ ~Conflicts(s, b[j], a[i])
    /\ \A k \in 1 .. n : From(all[k], a, p) \/ From(all[k], b, q)
    /\ \A i \in DOMAIN a : \E k \in 1 .. n : SameOp(all[k].op, a[i])
    /\ \A j \in DOMAIN b : \E k \in 1 .. n : SameOp(all[k].op, b[j])
    /\ \A k, m \in 1 .. n : k < m => ~InOrder(all[m], all[k])

LEMMA MergeParts ==
  ASSUME NEW s, Sound(s), NEW a, Listed(a), NEW b, Listed(b), NEW p \in Int, NEW q \in Int, p # q,
         NEW merged, merged = MergeOps(s, a, p, b, q), merged # Fail
  PROVE  \E all, n, run : Merging(s, a, p, b, q, all, n, run, merged)
<1>1. \A i \in DOMAIN a, j \in DOMAIN b : ~Conflicts(s, a[i], b[j]) /\ ~Conflicts(s, b[j], a[i])
  BY ConflictsSymmetric DEF MergeOps
<1>2. PICK T : T = Tagged(a, p) \cup Tagged(b, q)
  OBVIOUS
<1>3. AreTagged(T)
  BY <1>2, TaggedIs, BothTagged
<1>4. PICK F : F = Fresh(T)
  OBVIOUS
<1>5. AreTagged(F) /\ F \subseteq T /\ \A x \in T : \E y \in F : SameOp(y.op, x.op)
  BY <1>3, <1>4, FreshIs
<1>6. PICK all, n : all = Arranged(F) /\ n = Cardinality(F)
  OBVIOUS
<1>7. /\ n \in Nat /\ DOMAIN all = 1 .. n
      /\ \A k \in 1 .. n : all[k] \in F
      /\ \A x \in F : \E k \in 1 .. n : all[k] = x
      /\ \A k, m \in 1 .. n : k < m => InOrder(all[k], all[m])
  BY <1>5, <1>6, ArrangedIs
<1>8. merged = ApplyAll(s, [k \in DOMAIN all |-> all[k].op])
  BY <1>1, <1>2, <1>4, <1>6 DEF MergeOps, Combined
<1>9. PICK run : MergeRun(s, all, n, run, merged)
  BY <1>5, <1>6, <1>8, MergeRuns
<1>10. \A x \in T : From(x, a, p) \/ From(x, b, q)
  BY <1>2, TaggedIs DEF From
<1>11. \A k \in 1 .. n : From(all[k], a, p) \/ From(all[k], b, q)
  BY <1>5, <1>7, <1>10
<1>12. \A i \in DOMAIN a : \E k \in 1 .. n : SameOp(all[k].op, a[i])
  <2> TAKE i \in DOMAIN a
  <2>1. PICK x \in T : x.op = a[i]
    BY <1>2, TaggedIs
  <2>2. PICK y \in F : SameOp(y.op, x.op)
    BY <1>5
  <2> QED BY <1>7, <2>1, <2>2
<1>13. \A j \in DOMAIN b : \E k \in 1 .. n : SameOp(all[k].op, b[j])
  <2> TAKE j \in DOMAIN b
  <2>1. PICK x \in T : x.op = b[j]
    BY <1>2, TaggedIs
  <2>2. PICK y \in F : SameOp(y.op, x.op)
    BY <1>5
  <2> QED BY <1>7, <2>1, <2>2
<1>14. \A k, m \in 1 .. n : k < m => ~InOrder(all[m], all[k])
  BY <1>5, <1>7, TotalOrder
<1> QED BY <1>1, <1>7, <1>9, <1>11, <1>12, <1>13, <1>14, Zenon DEF Merging

LEMMA MergingEither ==
  ASSUME NEW s, NEW a, NEW p, NEW b, NEW q, NEW all, NEW n, NEW run, NEW merged,
         Merging(s, a, p, b, q, all, n, run, merged)
  PROVE  Merging(s, b, q, a, p, all, n, run, merged)
BY Zenon DEF Merging

(* A rename sorts before the instance it is of, and the two are in no      *)
(* conflict otherwise.                                                     *)
LEMMA RenameFirst ==
  ASSUME NEW x, IsOp(x.op), NEW y, IsOp(y.op), y.op.kind = "Rename", x.op.kind = "Instantiate",
         x.op.at = y.op.at
  PROVE  InOrder(y, x)
<1> DEFINE cell(f) == <<x.op.at, f>>
<1>1. Writes(x.op) = {cell(VersionF)} /\ Writes(y.op) = {cell(NameF), cell(AliasF)}
  BY DEF Writes
<1>2. CellLess(cell(NameF), cell(AliasF)) /\ CellLess(cell(NameF), cell(VersionF))
      /\ ~CellLess(cell(AliasF), cell(NameF)) /\ cell(NameF) # cell(AliasF)
  <2>1. x.op.at \in Int
    BY OpFields, AnchorsAreInt
  <2> QED BY <2>1, FieldNumbers DEF CellLess
<1> HIDE DEF cell
<1>3. PrimaryCell(x.op) = cell(VersionF)
  BY <1>1 DEF PrimaryCell
<1>4. PrimaryCell(y.op) = cell(NameF)
  BY <1>1, <1>2 DEF PrimaryCell
<1> QED BY <1>2, <1>3, <1>4 DEF InOrder

LEMMA SetInOrder ==
  ASSUME NEW x, NEW y, x.op.kind = y.op.kind, x.op.at = y.op.at, y.op.kind \in Kept,
         x.id = y.id, NEW i \in Int, NEW j \in Int, j < i, y.pos = j, x.pos = i
  PROVE  InOrder(y, x)
<1>1. Writes(x.op) = Writes(y.op)
  BY DEF Writes, Kept
<1>2. PrimaryCell(x.op) = PrimaryCell(y.op)
  BY <1>1 DEF PrimaryCell
<1> QED BY <1>2 DEF InOrder

LEMMA SameHeld ==
  ASSUME NEW s, NEW x, NEW y, SameOp(x, y), Holds(s, x) PROVE Holds(s, y)
BY DEF SameOp, Holds

LEMMA OpposedSame ==
  ASSUME NEW x, NEW y, NEW z, SameOp(x, y), Opposed(z, x) PROVE x = y
BY DEF SameOp, Opposed, Naming, Creators

LEMMA AuthorKept ==
  ASSUME NEW s, NEW a, Listed(a), NEW p, NEW b, Listed(b), NEW q, p # q,
         NEW all, NEW n, NEW run, NEW merged, Merging(s, a, p, b, q, all, n, run, merged),
         NEW h, Ran(s, a, h), ~Repeats(a), NEW i \in DOMAIN a, Holds(h, a[i])
  PROVE  Holds(merged, a[i])
<1>1. n \in Nat /\ MergeRun(s, all, n, run, merged)
  BY DEF Merging
<1>2. PICK k \in 1 .. n : SameOp(all[k].op, a[i])
  BY DEF Merging
<1>3. DOMAIN a \subseteq Nat /\ (\A j \in DOMAIN a : IsOp(a[j])) /\ \A j \in DOMAIN b : IsOp(b[j])
  BY DEF Listed
<1>4. \A m \in 1 .. n : IsOp(all[m].op)
  BY <1>3 DEF Merging, From
<1>5. ASSUME NEW m \in 1 .. n, k < m, Opposed(all[m].op, all[k].op) PROVE FALSE
  <2>1. all[k].op = a[i]
    BY <1>2, <1>5, OpposedSame
  <2>2. ~InOrder(all[m], all[k])
    BY <1>5 DEF Merging
  <2>3. ~(all[m].op.kind = "Rename" /\ all[k].op.kind = "Instantiate")
    <3>1. all[m].op.kind = "Rename" /\ all[k].op.kind = "Instantiate" => all[k].op.at = all[m].op.at
      BY <1>5 DEF Opposed
    <3> QED BY <1>4, <2>2, <3>1, RenameFirst
  <2>4. CASE From(all[m], b, q)
    <3>1. PICK j \in DOMAIN b : all[m].op = b[j]
      BY <2>4 DEF From
    <3>2. Conflicts(s, b[j], a[i])
      BY <1>3, <1>5, <2>1, <2>3, <3>1, OpposedConflicts
    <3> QED BY <3>2 DEF Merging
  <2>5. CASE From(all[m], a, p)
    <3>1. PICK j \in DOMAIN a : all[m].op = a[j] /\ all[m].pos = j /\ all[m].id = p
      BY <2>5 DEF From
    <3>2. Opposed(a[j], a[i])
      BY <1>5, <2>1, <3>1
    <3>3. ~(i < j)
      <4> SUFFICES ASSUME i < j PROVE FALSE
        OBVIOUS
      <4>1. PICK l \in DOMAIN a : j < l /\ a[l] = a[i]
        BY <3>2 DEF Ran
      <4>2. i < l
        BY <1>3, <4>1
      <4> QED BY <4>1, <4>2 DEF Repeats, SameOp
    <3>4. i # j
      BY <3>2 DEF Opposed, Naming, Creators
    <3>5. j < i
      BY <1>3, <3>3, <3>4
    <3>6. a[j].kind = a[i].kind /\ a[j].at = a[i].at /\ a[i].kind \in Kept
      BY <3>2, <3>5 DEF Ran
    <3>7. CASE From(all[k], a, p)
      <4>1. PICK l \in DOMAIN a : all[k].op = a[l] /\ all[k].pos = l /\ all[k].id = p
        BY <3>7 DEF From
      <4>2. ~(l < i) /\ ~(i < l)
        BY <2>1, <4>1 DEF Repeats, SameOp
      <4>3. l = i
        BY <1>3, <4>2
      <4>4. j \in Int /\ i \in Int
        BY <1>3
      <4>5. InOrder(all[m], all[k])
        BY <2>1, <3>1, <3>5, <3>6, <4>1, <4>3, <4>4, SetInOrder
      <4> QED BY <2>2, <4>5
    <3>8. CASE From(all[k], b, q)
      <4>1. PICK l \in DOMAIN b : all[k].op = b[l]
        BY <3>8 DEF From
      <4>2. Conflicts(s, a[j], b[l])
        BY <1>3, <2>1, <2>3, <3>1, <3>2, <4>1, OpposedConflicts
      <4> QED BY <4>2 DEF Merging
    <3> QED BY <3>7, <3>8 DEF Merging
  <2> QED BY <2>4, <2>5 DEF Merging
<1>6. Holds(merged, all[k].op)
  BY <1>1, <1>5, HeldOn
<1> QED BY <1>2, <1>6, SameHeld

LEMMA RanIsListed ==
  ASSUME NEW s, NEW ops, NEW h, Ran(s, ops, h) PROVE Listed(ops)
<1>1. ops \in Seq(Ops)
  BY DEF Ran
<1>2. Len(ops) \in Nat /\ DOMAIN ops = 1 .. Len(ops) /\ \A i \in 1 .. Len(ops) : ops[i] \in Ops
  BY <1>1
<1> QED BY <1>2, EditsAssumption DEF Listed

LEMMA BothKept ==
  ASSUME NEW s, Sound(s), NEW a, NEW ha, Ran(s, a, ha), NEW b, NEW hb, Ran(s, b, hb),
         ~Repeats(a), ~Repeats(b), NEW merged, merged = MergeOps(s, a, 1, b, 2), merged # Fail
  PROVE  /\ \A i \in DOMAIN a : Holds(ha, a[i]) => Holds(merged, a[i])
         /\ \A j \in DOMAIN b : Holds(hb, b[j]) => Holds(merged, b[j])
<1>1. Listed(a) /\ Listed(b)
  BY RanIsListed
<1>2. PICK all, n, run : Merging(s, a, 1, b, 2, all, n, run, merged)
  BY <1>1, MergeParts
<1>3. Merging(s, b, 2, a, 1, all, n, run, merged)
  BY <1>2, MergingEither
<1>4. \A i \in DOMAIN a : Holds(ha, a[i]) => Holds(merged, a[i])
  BY <1>1, <1>2, AuthorKept
<1>5. \A j \in DOMAIN b : Holds(hb, b[j]) => Holds(merged, b[j])
  BY <1>1, <1>3, AuthorKept
<1> QED BY <1>4, <1>5

(* What each author has is what its operations made of the base.           *)
MInv == base \in Bases /\ Ran(base, mine, mySnap) /\ Ran(base, live, liveSnap)

LEMMA MergeInitial == MergeInit => MInv
<1> SUFFICES ASSUME MergeInit PROVE MInv
  OBVIOUS
<1>1. Sound(base)
  BY EditsAssumption DEF MergeInit
<1>2. \A a \in Objects : base.arg[a] \in {0, base.arg[a]}
  OBVIOUS
<1>3. Ran(base, <<>>, base)
  BY <1>1, <1>2 DEF Ran
<1> QED BY <1>3 DEF MInv, MergeInit

LEMMA MergeStep == ASSUME MInv, [MergeNext]_mergeVars PROVE MInv'
<1>1. ASSUME NEW op \in Ops, Edit(op) PROVE MInv'
  <2>1. Ran(base, mine', mySnap')
    BY <1>1, RanOn DEF MInv, Edit
  <2> QED BY <1>1, <2>1 DEF MInv, Edit
<1>2. ASSUME NEW op \in Ops, LiveEdit(op) PROVE MInv'
  <2>1. Ran(base, live', liveSnap')
    BY <1>2, RanOn DEF MInv, LiveEdit
  <2> QED BY <1>2, <2>1 DEF MInv, LiveEdit
<1>3. CASE UNCHANGED mergeVars
  BY <1>3 DEF MInv, mergeVars
<1> QED BY <1>1, <1>2, <1>3 DEF MergeNext

LEMMA SpecMInv == MergeSpec => []MInv
<1>1. MInv /\ [MergeNext]_mergeVars => MInv'
  BY MergeStep
<1> QED BY <1>1, MergeInitial, PTL DEF MergeSpec

(* However two authors work on one base, a merge of theirs that goes       *)
(* through keeps every change either of them still had: an operation of    *)
(* one side is undone by none of the other's (the conflict matrix), nor by *)
(* an earlier one of its own (the canonical order of merge_ops).           *)
THEOREM SpecNothingLost == MergeSpec => []NothingLost
<1>1. MInv => NothingLost
  <2> SUFFICES ASSUME MInv, NEW merged, merged = MergeOps(base, mine, 1, live, 2), merged # Fail,
                      ~Repeats(mine), ~Repeats(live)
               PROVE  Keeps(merged, mySnap, mine) /\ Keeps(merged, liveSnap, live)
    BY DEF NothingLost
  <2>1. Sound(base)
    BY EditsAssumption DEF MInv
  <2> QED BY <2>1, BothKept DEF MInv, Keeps
<1> QED BY <1>1, SpecMInv, PTL

-----------------------------------------------------------------------------
(* A rebase: the diff of what an author has against the base.              *)

LEMMA ImageFinite ==
  ASSUME NEW X, IsFiniteSet(X), NEW f, DOMAIN f = X, f = [x \in X |-> f[x]], NEW T, T = {f[x] : x \in X}
  PROVE  IsFiniteSet(T)
<1>1. f \in [X -> T]
  OBVIOUS
<1>2. f \in Surjection(X, T)
  BY <1>1, Fun_IsSurj
<1> QED BY <1>2, FS_Surjection

LEMMA SequenceOf ==
  ASSUME NEW S, IsFiniteSet(S), \A x \in S : IsOp(x), NEW ops, ops = SetToSeq(S)
  PROVE  /\ Listed(ops) /\ \A i \in DOMAIN ops : ops[i] \in S
         /\ \A x \in S : \E i \in DOMAIN ops : ops[i] = x
<1>1. PICK n : n = Cardinality(S)
  OBVIOUS
<1>2. n \in Nat /\ ExistsBijection(1 .. n, S)
  BY <1>1, FS_CardinalityType
<1>3. PICK g : g \in Bijection(1 .. n, S)
  BY <1>2, Fun_ExistsBij
<1>4. g \in [1 .. n -> S] /\ IsInjective(g)
  <2>1. g \in [1 .. n -> S] /\ \A a, b \in 1 .. n : g[a] = g[b] => a = b
    BY <1>3, Fun_BijectionProperties
  <2> QED BY <2>1 DEF IsInjective
<1>5. ops \in [1 .. n -> S] /\ IsInjective(ops)
  BY <1>1, <1>4, Zenon DEF SetToSeq
<1>6. ops \in Injection(1 .. n, S)
  BY <1>5, Fun_IsInj DEF IsInjective
<1>7. IsFiniteSet(1 .. n) /\ Cardinality(1 .. n) = n
  <2>1. 1 \in Int /\ n \in Int
    BY <1>2
  <2>2. IsFiniteSet(1 .. n) /\ Cardinality(1 .. n) = IF 1 > n THEN 0 ELSE n - 1 + 1
    BY <2>1, FS_Interval
  <2> QED BY <1>2, <2>2
<1>8. ops \in Surjection(1 .. n, S)
  BY <1>1, <1>6, <1>7, FS_Injection
<1>9. \A x \in S : \E i \in 1 .. n : ops[i] = x
  BY <1>8 DEF Surjection
<1> QED BY <1>2, <1>5, <1>9 DEF Listed

LEMMA ChangesAre ==
  ASSUME NEW s, Sound(s), NEW h, Sound(h), NEW C, C = Changes(s, h)
  PROVE  IsFiniteSet(C) /\ \A op \in C : IsOp(op)
<1>0. s \in Snap /\ h \in Snap /\ IsFiniteSet(h.assets) /\ IsFiniteSet(Objects)
  BY AnchorsAssumption DEF Sound
<1>1. \A X \in SUBSET Objects : IsFiniteSet(X)
  BY <1>0, FS_Subset
<1> DEFINE Made == {y \in Objects : ~Live(s, y) /\ Live(h, y) /\ h.arg[y] = 0}
           Named == {y \in Objects : Live(s, y) /\ Live(h, y) /\ s.name[y] # h.name[y]}
           Counted == {y \in Objects : h.qty[y] # 0 /\ s.qty[y] # h.qty[y]}
           Related == h.rels \ s.rels
           Gone == h.tombs \ s.tombs
           Bound == h.assets \ s.assets
           made == [x \in Made |-> [kind |-> "AddLocus", at |-> x, to |-> h.name[x]]]
           named == [x \in Named |-> [kind |-> "Rename", at |-> x, to |-> h.name[x]]]
           counted == [x \in Counted |-> [kind |-> "Qty", at |-> x, to |-> h.qty[x]]]
           related == [r \in Related |-> [kind |-> "Rel", at |-> r[1], to |-> r[2]]]
           gone == [x \in Gone |-> [kind |-> "Remove", at |-> x, to |-> 0]]
           bound == [r \in Bound |-> [kind |-> "BindAsset", at |-> r[1], to |-> r[2]]]
<1>2. IsFiniteSet(Made) /\ IsFiniteSet(Named) /\ IsFiniteSet(Counted) /\ IsFiniteSet(Gone)
  <2>1. Gone \subseteq Objects
    BY <1>0 DEF Snap
  <2> QED BY <1>1, <2>1
<1>3. IsFiniteSet(Related) /\ IsFiniteSet(Bound)
  <2>1. IsFiniteSet(Objects \X Objects)
    BY <1>0, FS_Product
  <2>2. Related \in SUBSET (Objects \X Objects)
    BY <1>0 DEF Snap
  <2>3. Bound \in SUBSET h.assets
    OBVIOUS
  <2> QED BY <1>0, <2>1, <2>2, <2>3, FS_Subset
<1>4. C = {made[x] : x \in Made} \cup {named[x] : x \in Named} \cup {counted[x] : x \in Counted}
            \cup {related[r] : r \in Related} \cup {gone[x] : x \in Gone} \cup {bound[r] : r \in Bound}
  BY DEF Changes
<1>5. IsFiniteSet(C)
  <2>1. IsFiniteSet({made[x] : x \in Made})
    <3>1. DOMAIN made = Made /\ made = [x \in Made |-> made[x]]
      OBVIOUS
    <3> HIDE DEF Made, made
    <3> QED BY <1>2, <3>1, ImageFinite
  <2>2. IsFiniteSet({named[x] : x \in Named})
    <3>1. DOMAIN named = Named /\ named = [x \in Named |-> named[x]]
      OBVIOUS
    <3> HIDE DEF Named, named
    <3> QED BY <1>2, <3>1, ImageFinite
  <2>3. IsFiniteSet({counted[x] : x \in Counted})
    <3>1. DOMAIN counted = Counted /\ counted = [x \in Counted |-> counted[x]]
      OBVIOUS
    <3> HIDE DEF Counted, counted
    <3> QED BY <1>2, <3>1, ImageFinite
  <2>4. IsFiniteSet({related[r] : r \in Related})
    <3>1. DOMAIN related = Related /\ related = [r \in Related |-> related[r]]
      OBVIOUS
    <3> HIDE DEF Related, related
    <3> QED BY <1>3, <3>1, ImageFinite
  <2>5. IsFiniteSet({gone[x] : x \in Gone})
    <3>1. DOMAIN gone = Gone /\ gone = [x \in Gone |-> gone[x]]
      OBVIOUS
    <3> HIDE DEF Gone, gone
    <3> QED BY <1>2, <3>1, ImageFinite
  <2>6. IsFiniteSet({bound[r] : r \in Bound})
    <3>1. DOMAIN bound = Bound /\ bound = [r \in Bound |-> bound[r]]
      OBVIOUS
    <3> HIDE DEF Bound, bound
    <3> QED BY <1>3, <3>1, ImageFinite
  <2>7. PICK C1, C2, C3, C4, C5, C6 :
               /\ C1 = {made[x] : x \in Made} /\ C2 = {named[x] : x \in Named}
               /\ C3 = {counted[x] : x \in Counted} /\ C4 = {related[r] : r \in Related}
               /\ C5 = {gone[x] : x \in Gone} /\ C6 = {bound[r] : r \in Bound}
    OBVIOUS
  <2>8. C = C1 \cup C2 \cup C3 \cup C4 \cup C5 \cup C6
    BY <1>4, <2>7
  <2>9. /\ IsFiniteSet(C1) /\ IsFiniteSet(C2) /\ IsFiniteSet(C3)
        /\ IsFiniteSet(C4) /\ IsFiniteSet(C5) /\ IsFiniteSet(C6)
    BY <2>1, <2>2, <2>3, <2>4, <2>5, <2>6, <2>7
  <2>10. \A S, T : IsFiniteSet(S) /\ IsFiniteSet(T) => IsFiniteSet(S \cup T)
    BY FS_Union
  <2> QED BY <2>8, <2>9, <2>10, Zenon
<1>6. ASSUME NEW op \in C PROVE IsOp(op)
  <2>1. CASE \E x \in Made : op = made[x]
    BY <1>0, <2>1 DEF IsOp, OpKinds, Snap, Live
  <2>2. CASE \E x \in Named : op = named[x]
    BY <1>0, <2>2 DEF IsOp, OpKinds, Snap, Live
  <2>3. CASE \E x \in Counted : op = counted[x]
    BY <1>0, <2>3 DEF IsOp, OpKinds, Snap
  <2>4. CASE \E r \in Related : op = related[r]
    <3>1. PICK r \in Related : op = related[r]
      BY <2>4
    <3>2. r[1] \in Objects /\ r[2] \in Objects /\ r[2] \in Nat
      BY <1>0, AnchorsAssumption DEF Snap
    <3> QED BY <3>1, <3>2 DEF IsOp, OpKinds
  <2>5. CASE \E x \in Gone : op = gone[x]
    BY <1>0, <2>5 DEF IsOp, OpKinds, Snap
  <2>6. CASE \E r \in Bound : op = bound[r]
    <3>1. PICK r \in Bound : op = bound[r]
      BY <2>6
    <3>2. r[1] \in Objects /\ r[2] \in Nat
      BY <1>0 DEF Snap
    <3> QED BY <3>1, <3>2 DEF IsOp, OpKinds
  <2> QED BY <1>4, <2>1, <2>2, <2>3, <2>4, <2>5, <2>6
<1> QED BY <1>5, <1>6

LEMMA ChangeIs ==
  ASSUME NEW s, NEW h, NEW op, op \in Changes(s, h)
  PROVE  \/ op.kind = "AddLocus" /\ op.at \in Objects /\ ~Live(s, op.at) /\ Live(h, op.at) /\ op.to = h.name[op.at]
         \/ op.kind = "Rename" /\ op.at \in Objects /\ Live(s, op.at) /\ Live(h, op.at) /\ op.to = h.name[op.at]
         \/ op.kind = "Qty" /\ op.at \in Objects /\ h.qty[op.at] # 0 /\ op.to = h.qty[op.at]
         \/ op.kind = "Rel" /\ \E r \in h.rels : op.at = r[1] /\ op.to = r[2]
         \/ op.kind = "Remove" /\ op.at \in h.tombs
         \/ op.kind = "BindAsset"
BY DEF Changes

(* Of the changes one author made of the base, none undoes another.        *)
LEMMA NoneOpposed ==
  ASSUME NEW s, NEW h, Sound(h), NEW x \in Changes(s, h), NEW y \in Changes(s, h)
  PROVE  ~Opposed(y, x)
<1>1. CASE y.kind = "Remove"
  <2>1. y.at \in h.tombs /\ ~Live(h, y.at) /\ h.qty[y.at] = 0 /\ \A r \in h.rels : y.at \notin {r[1], r[2]}
    BY <1>1, ChangeIs DEF Sound
  <2> QED BY <1>1, <2>1, ChangeIs DEF Opposed
<1>2. CASE y.kind = "Rename"
  BY <1>2, ChangeIs DEF Opposed, Naming, Creators
<1>3. CASE y.kind \notin {"Remove", "Rename"}
  BY <1>3, ChangeIs DEF Opposed
<1> QED BY <1>1, <1>2, <1>3

(* What an operation did, and the author still has, is a change of the     *)
(* base the diff sees.                                                     *)
LEMMA ChangeSeen ==
  ASSUME NEW s, Sound(s), NEW h, Sound(h), NEW op, IsOp(op), op.kind \notin PatternKinds,
         Holds(h, op), ~Holds(s, op), h.arg[op.at] \in {0, s.arg[op.at]}
  PROVE  \E d \in Changes(s, h) : \A t : Holds(t, d) => Holds(t, op)
<1>1. /\ op.kind \in OpKinds /\ op.at \in Objects
      /\ op.kind \notin {"Rel", "BindAsset", "Remove"} => op.to # 0
      /\ s \in Snap /\ h \in Snap
  BY OpFields DEF Sound
<1>2. CASE op.kind \in {"AddLocus", "Rename"}
  <2>1. h.name[op.at] = op.to /\ Live(h, op.at) /\ s.name[op.at] # op.to
    BY <1>1, <1>2 DEF Holds, Live
  <2>2. CASE Live(s, op.at)
    <3> DEFINE d == [kind |-> "Rename", at |-> op.at, to |-> h.name[op.at]]
    <3>1. d \in Changes(s, h)
      BY <1>1, <2>1, <2>2 DEF Changes
    <3>2. \A t : Holds(t, d) => Holds(t, op)
      BY <1>2, <2>1 DEF Holds
    <3> QED BY <3>1, <3>2
  <2>3. CASE ~Live(s, op.at)
    <3> DEFINE d == [kind |-> "AddLocus", at |-> op.at, to |-> h.name[op.at]]
    <3>1. h.arg[op.at] = 0
      BY <1>1, <2>3 DEF Sound
    <3>2. d \in Changes(s, h)
      BY <1>1, <2>1, <2>3, <3>1 DEF Changes
    <3>3. \A t : Holds(t, d) => Holds(t, op)
      BY <1>2, <2>1 DEF Holds
    <3> QED BY <3>2, <3>3
  <2> QED BY <2>2, <2>3
<1>3. CASE op.kind = "Qty"
  <2> DEFINE d == [kind |-> "Qty", at |-> op.at, to |-> h.qty[op.at]]
  <2>1. h.qty[op.at] = op.to /\ s.qty[op.at] # op.to /\ op.to # 0
    BY <1>1, <1>3 DEF Holds
  <2>2. d \in Changes(s, h)
    BY <1>1, <2>1 DEF Changes
  <2>3. \A t : Holds(t, d) => Holds(t, op)
    BY <1>3, <2>1 DEF Holds
  <2> QED BY <2>2, <2>3
<1>4. CASE op.kind = "Rel"
  <2> DEFINE r == <<op.at, op.to>>
             d == [kind |-> "Rel", at |-> r[1], to |-> r[2]]
  <2>1. r \in h.rels \ s.rels
    BY <1>4 DEF Holds
  <2>2. d \in Changes(s, h)
    BY <2>1 DEF Changes
  <2>3. \A t : Holds(t, d) => Holds(t, op)
    BY <1>4 DEF Holds
  <2> QED BY <2>2, <2>3
<1>5. CASE op.kind = "BindAsset"
  <2> DEFINE r == <<op.at, op.to>>
             d == [kind |-> "BindAsset", at |-> r[1], to |-> r[2]]
  <2>1. r \in h.assets \ s.assets
    BY <1>5 DEF Holds
  <2>2. d \in Changes(s, h)
    BY <2>1 DEF Changes
  <2>3. \A t : Holds(t, d) => Holds(t, op)
    BY <1>5 DEF Holds
  <2> QED BY <2>2, <2>3
<1>6. CASE op.kind = "Remove"
  <2> DEFINE d == [kind |-> "Remove", at |-> op.at, to |-> 0]
  <2>1. op.at \in h.tombs \ s.tombs
    BY <1>6 DEF Holds, Sound
  <2>2. d \in Changes(s, h)
    BY <2>1 DEF Changes
  <2>3. \A t : Holds(t, d) => Holds(t, op)
    BY <1>6 DEF Holds
  <2> QED BY <2>2, <2>3
<1> QED BY <1>1, <1>2, <1>3, <1>4, <1>5, <1>6 DEF OpKinds, PatternKinds

LEMMA DiffKept ==
  ASSUME NEW s, NEW a, Listed(a), NEW p, NEW b, Listed(b), NEW q,
         \A i, j \in DOMAIN a : ~Opposed(a[j], a[i]),
         NEW all, NEW n, NEW run, NEW merged, Merging(s, a, p, b, q, all, n, run, merged),
         NEW i \in DOMAIN a
  PROVE  Holds(merged, a[i])
<1>1. n \in Nat /\ MergeRun(s, all, n, run, merged)
  BY DEF Merging
<1>2. PICK k \in 1 .. n : SameOp(all[k].op, a[i])
  BY DEF Merging
<1>3. (\A j \in DOMAIN a : IsOp(a[j])) /\ \A j \in DOMAIN b : IsOp(b[j])
  BY DEF Listed
<1>4. \A m \in 1 .. n : IsOp(all[m].op)
  BY <1>3 DEF Merging, From
<1>5. ASSUME NEW m \in 1 .. n, k < m, Opposed(all[m].op, all[k].op) PROVE FALSE
  <2>1. all[k].op = a[i]
    BY <1>2, <1>5, OpposedSame
  <2>2. ~InOrder(all[m], all[k])
    BY <1>5 DEF Merging
  <2>3. ~(all[m].op.kind = "Rename" /\ all[k].op.kind = "Instantiate")
    <3>1. all[m].op.kind = "Rename" /\ all[k].op.kind = "Instantiate" => all[k].op.at = all[m].op.at
      BY <1>5 DEF Opposed
    <3> QED BY <1>4, <2>2, <3>1, RenameFirst
  <2>4. CASE From(all[m], b, q)
    <3>1. PICK j \in DOMAIN b : all[m].op = b[j]
      BY <2>4 DEF From
    <3>2. Conflicts(s, b[j], a[i])
      BY <1>3, <1>5, <2>1, <2>3, <3>1, OpposedConflicts
    <3> QED BY <3>2 DEF Merging
  <2>5. CASE From(all[m], a, p)
    BY <1>5, <2>1, <2>5 DEF From
  <2> QED BY <2>4, <2>5 DEF Merging
<1>6. Holds(merged, all[k].op)
  BY <1>1, <1>5, HeldOn
<1> QED BY <1>2, <1>6, SameHeld

LEMMA DiffIs ==
  ASSUME NEW s, Sound(s), NEW h, Sound(h), NEW d, d = DiffOps(s, h)
  PROVE  /\ Listed(d) /\ \A i \in DOMAIN d : d[i] \in Changes(s, h)
         /\ \A x \in Changes(s, h) : \E i \in DOMAIN d : d[i] = x
         /\ \A i, j \in DOMAIN d : ~Opposed(d[j], d[i])
<1>1. PICK C : C = Changes(s, h)
  OBVIOUS
<1>2. IsFiniteSet(C) /\ \A op \in C : IsOp(op)
  BY <1>1, ChangesAre
<1>3. d = SetToSeq(C)
  BY <1>1 DEF DiffOps
<1>4. /\ Listed(d) /\ \A i \in DOMAIN d : d[i] \in C
      /\ \A x \in C : \E i \in DOMAIN d : d[i] = x
  BY <1>2, <1>3, SequenceOf
<1>5. \A x, y \in C : ~Opposed(y, x)
  BY <1>1, NoneOpposed
<1> QED BY <1>1, <1>4, <1>5

(* One author's changes, worked out again from the diff.                   *)
LEMMA DiffKeeps ==
  ASSUME NEW s, Sound(s), NEW ops, NEW h, Ran(s, ops, h), \A i \in DOMAIN ops : ops[i].kind \notin PatternKinds,
         NEW d, d = DiffOps(s, h), NEW p, NEW b, Listed(b), NEW q,
         NEW all, NEW n, NEW run, NEW merged, Merging(s, d, p, b, q, all, n, run, merged),
         NEW i \in DOMAIN ops, Holds(h, ops[i]), ~Holds(s, ops[i])
  PROVE  Holds(merged, ops[i])
<1>1. Sound(h) /\ IsOp(ops[i]) /\ ops[i].at \in Objects
  BY RanIsListed, OpFields DEF Ran, Listed
<1>2. h.arg[ops[i].at] \in {0, s.arg[ops[i].at]}
  BY <1>1 DEF Ran
<1>3. PICK c \in Changes(s, h) : \A t : Holds(t, c) => Holds(t, ops[i])
  BY <1>1, <1>2, ChangeSeen
<1>4. Listed(d) /\ (\A j, k \in DOMAIN d : ~Opposed(d[k], d[j])) /\ \E j \in DOMAIN d : d[j] = c
  BY <1>1, DiffIs
<1>5. PICK j \in DOMAIN d : d[j] = c
  BY <1>4
<1>6. Holds(merged, d[j])
  BY <1>4, DiffKept
<1> QED BY <1>3, <1>5, <1>6

(* A rebase that goes through keeps what the transaction did and what the  *)
(* live project gained (TransactionStore::rebase): the diffs it merges     *)
(* have every change of the base that is no pattern instance, and none     *)
(* that undoes another.                                                    *)
THEOREM SpecRebaseKeeps == MergeSpec => []RebaseKeeps
<1>1. MInv => RebaseKeeps
  <2> SUFFICES ASSUME MInv, NEW merged, merged = Rebase(mySnap, mine, liveSnap), merged # Fail,
                      \A i \in DOMAIN mine : mine[i].kind \notin PatternKinds,
                      \A i \in DOMAIN live : live[i].kind \notin PatternKinds
               PROVE  Keeps(merged, mySnap, mine) /\ Keeps(merged, liveSnap, live)
    BY DEF RebaseKeeps
  <2>1. Sound(base) /\ Ran(base, mine, mySnap) /\ Ran(base, live, liveSnap)
    BY EditsAssumption DEF MInv
  <2>2. PICK d, e : d = DiffOps(base, liveSnap) /\ e = DiffOps(base, mySnap)
    OBVIOUS
  <2>3. Listed(d) /\ Listed(e)
    BY <2>1, <2>2, DiffIs DEF Ran
  <2>4. merged = MergeOps(base, d, 1, e, 2)
    BY <2>2 DEF Rebase
  <2>5. PICK all, n, run : Merging(base, d, 1, e, 2, all, n, run, merged)
    BY <2>1, <2>3, <2>4, MergeParts
  <2>6. Merging(base, e, 2, d, 1, all, n, run, merged)
    BY <2>5, MergingEither
  <2>7. Keeps(merged, liveSnap, live)
    BY <2>1, <2>2, <2>3, <2>5, DiffKeeps DEF Keeps
  <2>8. Keeps(merged, mySnap, mine)
    BY <2>1, <2>2, <2>3, <2>6, DiffKeeps DEF Keeps
  <2> QED BY <2>7, <2>8
<1> QED BY <1>1, SpecMInv, PTL
=============================================================================
