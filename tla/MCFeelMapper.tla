---------------------------- MODULE MCFeelMapper ----------------------------
(* The Spindle contract of klotho-ir with its windows brought closer, and  *)
(* one that toggles; the second has the smaller coyote.                    *)
EXTENDS FeelMapper

Window(start, end, verb) == [start |-> start, end |-> end, verb |-> verb]

MCContracts ==
    {[buffer |-> 2, coyote |-> 2, toggle |-> FALSE,
      windows |-> {Window(0, 1, "Drop"), Window(2, 4, "Use")}],
     [buffer |-> 2, coyote |-> 1, toggle |-> TRUE,
      windows |-> {Window(1, 2, "Use"), Window(1, 5, "Fire")}]}
=============================================================================
