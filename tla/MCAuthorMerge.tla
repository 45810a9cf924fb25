---------------------------- MODULE MCAuthorMerge ----------------------------
(* Instances of AuthorMerge: anchors 1 and 3 are loci of the base, the module's anchor is  *)
(* 2, a new locus is 4, a pattern instance 5.  Names 1 and 3 are those of the loci.         *)
EXTENDS AuthorMerge

Op(k, at, to) == [kind |-> k, at |-> at, to |-> to]
Plain == [name |-> [a \in Objects |-> IF a \in {1, 3} THEN a ELSE 0], tombs |-> {}, used |-> {},
          qty |-> [a \in Objects |-> 0], rels |-> {}, assets |-> {}, arg |-> [a \in Objects |-> 0]]
BasesMC == {Plain, [Plain EXCEPT !.rels = {<<1, 3>>}, !.qty[3] = 1]}

Loci == {1, 3, 4}
Facts == {Op("Qty", a, v) : a \in Loci, v \in {1, 2}}
             \cup {Op("Rel", r[1], r[2]) : r \in {<<1, 3>>, <<1, 4>>, <<4, 3>>}}
Edits == {Op("Rename", a, n) : a \in Loci, n \in {6, 7}} \cup {Op("Remove", a, 0) : a \in Loci}
Adds == {Op("AddLocus", 4, n) : n \in {4, 6}}
Binds == {Op("BindAsset", 1, v) : v \in {1, 2}}
Patterns == {Op("Instantiate", 5, 5), Op("SetArgument", 5, 2)}
OpsMC == Facts \cup Edits \cup Adds \cup Binds \cup Patterns
=============================================================================
