---------------------------- MODULE MCPoseStream ----------------------------
(* Two movers on the lossless wire; one mover where poses are lost or      *)
(* overtake dictionaries; one where control packets come in any order.     *)
EXTENDS PoseStream

CONSTANTS m1, m2

(* With faults the second mover stays away.                                *)
Within ==
    /\ faults # {} => pose'[m2] \in {0, None} /\ m2 \notin ToSet(dict')
    /\ faults = {"shuffle"} => pose'[m1] \in {0, None}
    /\ sets' <= CASE faults = {} -> 1 [] "loss" \in faults -> 2 [] OTHER -> 3

MixSpec == PoseInit /\ [][Kept(PoseNext) /\ Within]_<<poseVars, faults>> /\ Fairness
=============================================================================
