----------------------------- MODULE LocusRows -----------------------------
(***************************************************************************)
(* What the packed projection promises its readers: a map from loci to     *)
(* rows.  A setter changes the row it names and no other; rows that go     *)
(* leave no reference behind in the rows that stay; a Place snapshot is    *)
(* applied whole or not at all; a world that is saved and read back is the *)
(* same world.                                                             *)
(***************************************************************************)
EXTENDS Integers, FiniteSets

CONSTANTS Loci, Kinds, None,
          Blank(_),      \* the row of a new locus of a kind
          Snaps(_),      \* the snapshots cooked for a Canon: rows by locus
          Canons,
          Carried(_, _, _), \* a row of one Canon under another
          ProcessCap

VARIABLES rows,   \* the rows by locus
          cap,    \* how many there may be
          canon,  \* the Canon they are packed for
          held    \* the snapshot captured last under it, if any

vars == <<rows, cap, canon, held>>

Init ==
    /\ cap \in 0 .. ProcessCap
    /\ DOMAIN rows \subseteq Loci
    /\ canon \in Canons /\ held = {}

Fits(S) == Cardinality(DOMAIN rows \cup S) <= cap

Same(S) == \A l \in S : rows'[l] = rows[l]

(* The members of p and p itself; the members that go with p: those no     *)
(* host outside carries.                                                   *)
In(p) == {p} \cup {l \in DOMAIN rows : rows[l].within = p}
Hosts(l) == {e[2] : e \in {x \in rows[l].rels : x[1] \in {"AttachedTo", "PilotedBy"}}}
Owned(p) == {l \in In(p) \ {p} : Hosts(l) \subseteq In(p)}

(* A row without its references to S.                                      *)
Without(row, S) ==
    [row EXCEPT !.rels = {e \in @ : e[2] \notin S},
                !.within = IF @ \in S THEN None ELSE @]

Drop(S) == rows' = [l \in DOMAIN rows \ S |-> Without(rows[l], S)]

Insert(l, k) ==
    /\ l \notin DOMAIN rows /\ Fits({l})
    /\ rows' = [m \in DOMAIN rows \cup {l} |-> IF m = l THEN Blank(k) ELSE rows[m]]
    /\ UNCHANGED <<cap, canon, held>>

Set(l) ==
    /\ l \in DOMAIN rows /\ DOMAIN rows' = DOMAIN rows
    /\ Same(DOMAIN rows \ {l})
    /\ rows'[l].kind = rows[l].kind
    /\ UNCHANGED <<cap, canon, held>>

(* An island's bodies move; a body there was no row for is a new Relic.    *)
Move(S) ==
    /\ DOMAIN rows \subseteq DOMAIN rows' /\ DOMAIN rows' \subseteq DOMAIN rows \cup S
    /\ DOMAIN rows' # DOMAIN rows => Cardinality(DOMAIN rows') <= cap
    /\ Same(DOMAIN rows \ S)
    /\ \A l \in DOMAIN rows' \cap S :
          LET was == IF l \in DOMAIN rows THEN rows[l] ELSE Blank("relic")
          IN  rows'[l] = [was EXCEPT !.pose = rows'[l].pose, !.body = rows'[l].body]
    /\ UNCHANGED <<cap, canon, held>>

Remove(l) == l \in DOMAIN rows /\ Drop({l}) /\ UNCHANGED <<cap, canon, held>>

Evict(p) == p \in DOMAIN rows /\ Drop(Owned(p)) /\ UNCHANGED <<cap, canon, held>>

Capture(p) ==
    /\ p \in DOMAIN rows
    /\ held' = {[l \in In(p) |-> rows[l]]}
    /\ UNCHANGED <<rows, cap, canon>>

Load(snap) ==
    /\ Fits(DOMAIN snap)
    /\ rows' = [l \in DOMAIN rows \cup DOMAIN snap |->
                    IF l \in DOMAIN snap THEN snap[l] ELSE rows[l]]
    /\ UNCHANGED <<cap, canon, held>>

(* Another Canon: every row is carried over, no snapshot is.                *)
Epoch(c) ==
    /\ c # canon /\ canon' = c
    /\ rows' = [l \in DOMAIN rows |-> Carried(canon, c, rows[l])]
    /\ held' = {}
    /\ UNCHANGED cap

(* The rows outlive a save; the world's own cap does not.                  *)
Reload == cap' = ProcessCap /\ UNCHANGED <<rows, canon, held>>

Next ==
    \/ \E l \in Loci : Set(l) \/ Remove(l) \/ Evict(l) \/ Capture(l)
    \/ \E l \in Loci, k \in Kinds : Insert(l, k)
    \/ \E S \in SUBSET Loci : Move(S)
    \/ \E snap \in Snaps(canon) \cup held : Load(snap)
    \/ \E c \in Canons : Epoch(c)
    \/ Reload

Spec == Init /\ [][Next]_vars
=============================================================================
