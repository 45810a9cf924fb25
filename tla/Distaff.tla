------------------------------- MODULE Distaff -------------------------------
(***************************************************************************)
(* klotho-editor: the review of an AI candidate (assistant.rs) and what it *)
(* installs in the editor session (session.rs), composed with the AI       *)
(* service that goes on working on the candidate under review.             *)
(*                                                                         *)
(* A review holds copies taken when it was opened.  The document is what   *)
(* was installed last: operations on the project the candidates start      *)
(* from.  What a designer edits by hand is in no review and left out.      *)
(***************************************************************************)
EXTENDS AuthorAgents

CONSTANT Broken         \* selections that do not apply to the project or do not flatten

VARIABLES doc,          \* EditorSession::doc: the operations installed; ghost: the review's
                        \* change and the evidence shown
          reviews,      \* DistaffReview by change, at most one each
          reruns        \* EvaluationBroker: selections a passed record was sealed for

vars == <<agentVars, doc, reviews, reruns>>

\* Nothing installed.
Project == [ops |-> <<>>, change |-> 0, evidence |-> {}]

Init ==
    /\ AgentInit
    /\ doc = Project
    /\ reviews = <<>>
    /\ reruns = {}

\* A selection is the operations picked, by their index; it is its own hash.  The whole is the
\* candidate.
All(ops) == DOMAIN ops
Picked(ops, sel) == [i \in sel |-> ops[i]]
SelectedOps(r) == Picked(r.ops, r.sel)
StateFor(ev) == IF ev = {} THEN "EvidenceRequired" ELSE "ReadyToPin"

\* Copies the diff, the snapshots and the evidence of the candidate as they are now.
Open(id) ==
    /\ rows[id].change /\ id \in DOMAIN txs
    /\ txs[id].cur \notin Broken
    /\ LET ops == txs[id].cur
       IN reviews' = With(reviews, id, [ops |-> ops, sel |-> All(ops), doc |-> ops,
                                        full |-> evidence[id], evidence |-> evidence[id],
                                        state |-> StateFor(evidence[id])])
    /\ UNCHANGED <<agentVars, doc, reruns>>

\* mutant: a partial selection keeps the evidence of the whole
SelectKeepsEvidence(id, sel) ==
    LET r == reviews[id] IN
    /\ Picked(r.ops, sel) \notin Broken
    /\ reviews' = [reviews EXCEPT ![id] = [r EXCEPT !.sel = sel, !.doc = Picked(r.ops, sel),
                                               !.evidence = r.full, !.state = StateFor(r.full)]]
    /\ UNCHANGED <<agentVars, doc, reruns>>

\* The whole takes back the evidence the review was opened with; a proper subset has none.
SelectGroups(id, sel) ==
    LET r  == reviews[id]
        ev == IF sel = All(r.ops) THEN r.full ELSE {}
    IN
    /\ Picked(r.ops, sel) \notin Broken
    /\ reviews' = [reviews EXCEPT ![id] = [r EXCEPT !.sel = sel, !.doc = Picked(r.ops, sel),
                                               !.evidence = ev, !.state = StateFor(ev)]]
    /\ UNCHANGED <<agentVars, doc, reruns>>

\* The selection and its hash are set before apply_ops or flatten_bundle refuses it: document,
\* evidence and state stay those of the selection before.
SelectRefused(id, sel) ==
    /\ Picked(reviews[id].ops, sel) \in Broken
    /\ reviews' = [reviews EXCEPT ![id] = [@ EXCEPT !.sel = sel]]
    /\ UNCHANGED <<agentVars, doc, reruns>>

\* A passed record for the selection.  Nothing keeps the broker from holding one for a
\* selection that was refused.
Rerun(id) ==
    /\ reruns' = reruns \cup {SelectedOps(reviews[id])}
    /\ UNCHANGED <<agentVars, doc, reviews>>

\* Only the hash of the selection is compared.
AttachRerun(id) ==
    LET r == reviews[id] IN
    /\ SelectedOps(r) \in reruns
    /\ reviews' = [reviews EXCEPT ![id] = [r EXCEPT !.evidence = {SelectedOps(r)},
                                               !.state = "ReadyToPin"]]
    /\ UNCHANGED <<agentVars, doc, reruns>>

\* pin and pin_ai_document: what is installed is the document the review keeps.
PinReview(id) ==
    /\ reviews[id].state = "ReadyToPin" /\ reviews[id].evidence # {}
    /\ doc' = [ops |-> reviews[id].doc, change |-> id, evidence |-> reviews[id].evidence]
    /\ reviews' = [reviews EXCEPT ![id] = [@ EXCEPT !.state = "Pinned"]]
    /\ UNCHANGED <<agentVars, reruns>>

Reject(id) ==
    /\ reviews' = [reviews EXCEPT ![id] = [@ EXCEPT !.state = "Rejected"]]
    /\ UNCHANGED <<agentVars, doc, reruns>>

Agent ==
    /\ AgentNext
    /\ UNCHANGED <<doc, reviews, reruns>>

Review ==
    \/ \E id \in Ids : Open(id)
    \/ \E id \in DOMAIN reviews :
          \/ Rerun(id) \/ AttachRerun(id) \/ PinReview(id) \/ Reject(id)
          \/ \E sel \in SUBSET All(reviews[id].ops) \ {{}} :
                SelectGroups(id, sel) \/ SelectRefused(id, sel)

Next == Agent \/ Review

Spec == Init /\ [][Next]_vars
-----------------------------------------------------------------------------
(* Properties.                                                             *)

\* What a review installs applies to the project and was evaluated as it is: every piece of
\* evidence behind a Pin was sealed for exactly the document installed, although the candidate
\* may have been repaired, submitted or cancelled since the review copied it and the selection
\* changed, or failed to change, any number of times.  One case is left, and is the code's: a
\* record of a selection that was refused stands behind the document of the one before.
InstallsEvidenced ==
    doc # Project =>
        /\ doc.ops \notin Broken
        /\ doc.evidence # {}
        /\ \A h \in doc.evidence :
              /\ h = doc.ops \/ h \in Broken
              /\ h \in reruns \/ [change |-> doc.change, hash |-> h] \in sealed
=============================================================================
