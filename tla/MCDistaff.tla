------------------------------ MODULE MCDistaff ------------------------------
(* Two requests that share anchors without an editor, or one request whose *)
(* candidate a designer reviews while the service goes on working on it.   *)
EXTENDS Distaff

CONSTANTS a, b

\* The second operation of a candidate does not stand without the first.
Alone == {[i \in {2} |-> a]}

VARIABLE designer   \* a session is open, chosen with the initial state

MixNext ==
    /\ \/ Agent
       \/ designer /\ Review
    /\ designer => \A id \in DOMAIN rows' : id = 1 /\ rows'[id].scope = {a}
    /\ UNCHANGED designer

MixInit == Init /\ designer \in BOOLEAN

MixSpec == MixInit /\ [][MixNext]_<<vars, designer>>
=============================================================================
