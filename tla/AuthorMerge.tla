----------------------------- MODULE AuthorMerge -----------------------------
(***************************************************************************)
(* klotho-ai and klotho-author: what an authoring operation declares       *)
(* (cells.rs), how two operations are classified (conflict.rs), how they   *)
(* are applied (exec.rs, apply.rs), and the three-way merge behind         *)
(* TransactionStore::rebase (merge.rs).  Two authors edit private copies   *)
(* of one base, in any order; the invariants compare what each of them saw *)
(* with what the merge of their work would be at that moment.              *)
(*                                                                         *)
(* One module.  Facts name loci in the code and are resolved through the   *)
(* name of an anchor; names are unique, so they are kept by anchor here.   *)
(* Anchors are hashes: only their order matters.                           *)
(***************************************************************************)
EXTENDS Integers, Sequences, SequencesExt, FiniteSets, FiniteSetsExt

CONSTANTS Ops,          \* the operations authors may use
          Bases,        \* snapshots to start from
          Module,       \* the module's anchor
          Objects,      \* every other anchor
          MaxOps        \* bound of the model: operations of both authors

ASSUME AnchorsAssumption == Objects \subseteq Nat /\ IsFiniteSet(Objects) /\ Module \in Nat

VARIABLES base, mine, live, mySnap, liveSnap
mergeVars == <<base, mine, live, mySnap, liveSnap>>

\* FieldId, in its order.
NameF == 0
KindF == 1
QtyF == 3
RelF == 5
AliasF == 8
TombF == 9
ArgF == 11
VersionF == 12
AssetF == 13
OrderF == 16


(* A snapshot: names of the live objects (0: none), tombstoned anchors, names that can    *)
(* not be used again (aliases and tombstones), facts, asset candidates, pattern arguments  *)
(* (0: no instance).                                                                       *)
Fail == [err |-> TRUE]
Live(s, a) == s.name[a] # 0
Taken(s, n) == n \in s.used \/ \E a \in Objects : s.name[a] = n
Occupied(s, a) == Live(s, a) \/ a \in s.tombs

Snap == [name : [Objects -> Nat], tombs : SUBSET Objects, used : SUBSET Nat,
         qty : [Objects -> Nat], rels : SUBSET (Objects \X Objects),
         assets : SUBSET (Objects \X Nat), arg : [Objects -> Nat]]

\* What a removal leaves of an object, and of the facts about it; only what is there has
\* arguments.
Sound(s) ==
    /\ s \in Snap /\ IsFiniteSet(s.assets)
    /\ \A a \in s.tombs : ~Live(s, a) /\ s.qty[a] = 0 /\ \A r \in s.rels : a \notin {r[1], r[2]}
    /\ \A a \in Objects : ~Live(s, a) => s.arg[a] = 0

OpKinds == {"AddLocus", "Qty", "Rel", "BindAsset", "Remove", "Rename", "Instantiate", "SetArgument"}

\* A removal names nothing but its target; a name, a quantity or an argument of 0 is none.
IsOp(op) ==
    /\ op = [kind |-> op.kind, at |-> op.at, to |-> op.to]
    /\ op.kind \in OpKinds /\ op.at \in Objects /\ op.to \in Nat
    /\ op.kind = "Rel" => op.to \in Objects
    /\ op.kind \notin {"Rel", "BindAsset", "Remove"} => op.to # 0

ASSUME EditsAssumption == (\A op \in Ops : IsOp(op)) /\ \A s \in Bases : Sound(s)

Dependents(s, a) == {b \in Objects : <<a, b>> \in s.rels \/ <<b, a>> \in s.rels}

\* declare: the cells an operation writes and reads.  Cells are <<anchor, field>>.
Writes(op) ==
    CASE op.kind = "AddLocus" -> {<<op.at, NameF>>, <<op.at, KindF>>, <<Module, OrderF>>}
      [] op.kind = "Qty" -> {<<op.at, QtyF>>}
      [] op.kind = "Rel" -> {<<op.at, RelF>>, <<op.to, RelF>>}
      [] op.kind = "BindAsset" -> {<<op.at, AssetF>>}
      [] op.kind = "Remove" -> {<<op.at, TombF>>, <<op.at, NameF>>}
      [] op.kind = "Rename" -> {<<op.at, NameF>>, <<op.at, AliasF>>}
      [] op.kind = "Instantiate" -> {<<op.at, VersionF>>}
      [] op.kind = "SetArgument" -> {<<op.at, ArgF>>}

\* The anchors read or written, the dependents of a removed target aside.
Involved(op) == {c[1] : c \in Writes(op)} \cup {op.at}
                    \cup (IF op.kind = "AddLocus" THEN {Module} ELSE {})

\* The operation as apply_one_inner runs it: its preconditions, then the edit.
Created(s, op) ==
    IF Occupied(s, op.at) \/ Taken(s, op.to) THEN Fail
    ELSE [s EXCEPT !.name[op.at] = op.to,
                   !.arg[op.at] = IF op.kind = "Instantiate" THEN 1 ELSE @]

Renamed(s, op) ==
    IF s.name[op.at] = op.to THEN s
    ELSE IF Taken(s, op.to) THEN Fail
    ELSE [s EXCEPT !.name[op.at] = op.to, !.used = @ \cup {s.name[op.at]}]

Removed(s, op) ==
    [s EXCEPT !.name[op.at] = 0, !.qty[op.at] = 0, !.arg[op.at] = 0,
              !.tombs = @ \cup {op.at}, !.used = @ \cup {s.name[op.at]},
              !.rels = {r \in @ : op.at \notin {r[1], r[2]}}]

ApplyOp(s, op) ==
    IF op.kind \in {"AddLocus", "Instantiate"} THEN Created(s, op)
    ELSE IF ~Live(s, op.at) THEN Fail
    ELSE CASE op.kind = "Qty" -> [s EXCEPT !.qty[op.at] = op.to]
           [] op.kind = "Rel" -> IF Live(s, op.to)
                                 THEN [s EXCEPT !.rels = @ \cup {<<op.at, op.to>>}] ELSE Fail
           [] op.kind = "BindAsset" -> [s EXCEPT !.assets = @ \cup {<<op.at, op.to>>}]
           [] op.kind = "SetArgument" -> IF s.arg[op.at] = 0 THEN Fail
                                         ELSE [s EXCEPT !.arg[op.at] = op.to]
           [] op.kind = "Rename" -> Renamed(s, op)
           [] op.kind = "Remove" -> Removed(s, op)

Step(s, op) == IF s = Fail THEN Fail ELSE ApplyOp(s, op)
ApplyAll(s, ops) == FoldLeft(Step, s, ops)
-----------------------------------------------------------------------------
(* The conflict matrix, matrix_rule and classify_pair as one.                *)

PatternKinds == {"Instantiate", "SetArgument"}

\* A remove against the rest: the same target coalesces, another remove commutes, the rest
\* conflicts if it touches the target or one of the target's dependents in the base.
ClashesWithRemove(s, remove, other) ==
    /\ other.kind # "Remove"
    /\ Involved(other) \cap ({remove.at} \cup Dependents(s, remove.at)) # {}

\* Two edits, neither of them a removal.  A rename ranks last in OpKind, so its row for edits
\* of the same object is never taken and the pair commutes by its disjoint cells.
EditsClash(a, b) ==
    CASE a.kind = "Rename" /\ b.kind = "Rename" -> a.at = b.at \/ a.to = b.to
      [] {a.kind, b.kind} \subseteq PatternKinds -> TRUE
      [] a.kind = "AddLocus" /\ b.kind = "AddLocus" -> a.at = b.at
      [] a.kind = "BindAsset" /\ b.kind = "BindAsset" -> FALSE
      [] OTHER -> Writes(a) \cap Writes(b) # {}

NoRemove(a, b) == "Remove" \notin {a.kind, b.kind}

\* mutant: only the left operation is looked at for a removal
ConflictsLeftOnly(s, a, b) ==
    \/ a.kind = "Remove" /\ ClashesWithRemove(s, a, b)
    \/ a.kind # "Remove" /\ a # b /\ EditsClash(a, b)

\* mutant: a fact on a cell the other side wrote is taken
ConflictsNotFacts(s, a, b) ==
    \/ a.kind = "Remove" /\ ClashesWithRemove(s, a, b)
    \/ b.kind = "Remove" /\ ClashesWithRemove(s, b, a)
    \/ NoRemove(a, b) /\ a # b /\ a.kind = "Rename" /\ EditsClash(a, b)

\* The pairs merge_ops refuses: identical edits coalesce.
Conflicts(s, a, b) ==
    \/ a.kind = "Remove" /\ ClashesWithRemove(s, a, b)
    \/ b.kind = "Remove" /\ ClashesWithRemove(s, b, a)
    \/ NoRemove(a, b) /\ a # b /\ EditsClash(a, b)

CellLess(c, d) == c[1] < d[1] \/ (c[1] = d[1] /\ c[2] < d[2])
PrimaryCell(op) == CHOOSE c \in Writes(op) : \A d \in Writes(op) : d = c \/ CellLess(c, d)

\* The canonical order: primary cell, then change; the sort is stable.
InOrder(x, y) ==
    LET c == PrimaryCell(x.op)  d == PrimaryCell(y.op)
    IN CellLess(c, d) \/ (c = d /\ (x.id < y.id \/ (x.id = y.id /\ x.pos < y.pos)))

Tagged(ops, id) == {[op |-> ops[i], id |-> id, pos |-> i] : i \in DOMAIN ops}
SameOp(a, b) == a = b \/ (a.kind = "Remove" /\ b.kind = "Remove" /\ a.at = b.at)

\* Every operation but the repeats of one that comes before it.
Fresh(tagged) == {x \in tagged : ~\E y \in tagged : InOrder(y, x) /\ SameOp(y.op, x.op)}

\* The k-th is the one with k - 1 before it.
Rank(x, tagged) == Cardinality({y \in tagged : InOrder(y, x)}) + 1
Arranged(tagged) ==
    [k \in 1 .. Cardinality(tagged) |-> CHOOSE x \in tagged : Rank(x, tagged) = k]

Combined(a, aId, b, bId) ==
    LET all == Arranged(Fresh(Tagged(a, aId) \cup Tagged(b, bId)))
    IN [k \in DOMAIN all |-> all[k].op]

MergeOps(s, a, aId, b, bId) ==
    IF \E i \in DOMAIN a, j \in DOMAIN b : Conflicts(s, a[i], b[j]) THEN Fail
    ELSE ApplyAll(s, Combined(a, aId, b, bId))

\* mutant: asset candidates and relations are not looked at
ChangesNamesOnly(s, head) ==
    {[kind |-> "Rename", at |-> x, to |-> head.name[x]] :
        x \in {y \in Objects : Live(s, y) /\ Live(head, y) /\ s.name[y] # head.name[y]}}

\* diff_ops: what turned base into head, as far as it can tell: pattern instances and their
\* arguments are not looked at, and an object added and removed again is a removal.
Changes(s, head) ==
    {[kind |-> "AddLocus", at |-> x, to |-> head.name[x]] :
        x \in {y \in Objects : ~Live(s, y) /\ Live(head, y) /\ head.arg[y] = 0}}
    \cup {[kind |-> "Rename", at |-> x, to |-> head.name[x]] :
        x \in {y \in Objects : Live(s, y) /\ Live(head, y) /\ s.name[y] # head.name[y]}}
    \cup {[kind |-> "Qty", at |-> x, to |-> head.qty[x]] :
        x \in {y \in Objects : head.qty[y] # 0 /\ s.qty[y] # head.qty[y]}}
    \cup {[kind |-> "Rel", at |-> r[1], to |-> r[2]] : r \in head.rels \ s.rels}
    \cup {[kind |-> "Remove", at |-> x, to |-> 0] : x \in head.tombs \ s.tombs}
    \cup {[kind |-> "BindAsset", at |-> r[1], to |-> r[2]] : r \in head.assets \ s.assets}

DiffOps(s, head) == SetToSeq(Changes(s, head))

\* check_prepared: each operation, on the new base with the earlier ones, under the value
\* its cell had when it was first applied; an identical value passes.
Unstale(s, seen, op) == op.kind = "Qty" => s.qty[op.at] \in {seen.qty[op.at], op.to}
CheckPrepared(s, ops) ==
    /\ ApplyAll(s, ops) # Fail
    /\ \A i \in DOMAIN ops :
          LET before == SubSeq(ops, 1, i - 1)
          IN Unstale(ApplyAll(s, before), ApplyAll(base, before), ops[i])

\* TransactionStore::rebase of a transaction with operations ops onto current.
Rebase(proposed, ops, current) ==
    IF ~CheckPrepared(current, ops) THEN Fail
    ELSE MergeOps(base, DiffOps(base, current), 1, DiffOps(base, proposed), 2)
-----------------------------------------------------------------------------
MergeInit ==
    /\ base \in Bases
    /\ mine = <<>> /\ live = <<>>
    /\ mySnap = base /\ liveSnap = base

Edit(op) ==
    /\ Len(mine) + Len(live) < MaxOps /\ ApplyOp(mySnap, op) # Fail
    /\ mine' = Append(mine, op) /\ mySnap' = ApplyOp(mySnap, op)
    /\ UNCHANGED <<base, live, liveSnap>>

LiveEdit(op) ==
    /\ Len(mine) + Len(live) < MaxOps /\ ApplyOp(liveSnap, op) # Fail
    /\ live' = Append(live, op) /\ liveSnap' = ApplyOp(liveSnap, op)
    /\ UNCHANGED <<base, mine, mySnap>>

MergeNext == \E op \in Ops : Edit(op) \/ LiveEdit(op)
MergeSpec == MergeInit /\ [][MergeNext]_mergeVars
-----------------------------------------------------------------------------
(* Properties.                                                             *)

\* The operation's effect is there.
Holds(s, op) ==
    CASE op.kind \in {"AddLocus", "Instantiate", "Rename"} -> s.name[op.at] = op.to
      [] op.kind = "Qty" -> s.qty[op.at] = op.to
      [] op.kind = "Rel" -> <<op.at, op.to>> \in s.rels
      [] op.kind = "BindAsset" -> <<op.at, op.to>> \in s.assets
      [] op.kind = "SetArgument" -> s.arg[op.at] = op.to
      [] op.kind = "Remove" -> op.at \in s.tombs /\ ~Live(s, op.at)

\* What an author changed of the base, and still had when last seen, is in the merge.
Keeps(merged, seen, ops) ==
    \A i \in DOMAIN ops : Holds(seen, ops[i]) /\ ~Holds(base, ops[i]) => Holds(merged, ops[i])

\* Merging two changes does not depend on which is the left one: same snapshot, or refused
\* both ways.
MergeSymmetric == MergeOps(base, mine, 1, live, 2) = MergeOps(base, live, 2, mine, 1)

\* merge_ops takes an operation once, where it comes first: of a value set, overwritten and
\* set again by one author it keeps the one in between.
Repeats(ops) == \E i, j \in DOMAIN ops : i < j /\ SameOp(ops[i], ops[j])

\* Those changes aside, a merge that goes through drops nothing either author had at the end:
\* there is no last writer that wins.
NothingLost ==
    LET merged == MergeOps(base, mine, 1, live, 2)
    IN merged # Fail /\ ~Repeats(mine) /\ ~Repeats(live)
       => Keeps(merged, mySnap, mine) /\ Keeps(merged, liveSnap, live)

\* Nor does a rebase, as far as the diff it works from sees (diff_ops passes pattern instances
\* over): not what the transaction did, not what the live project gained.
RebaseKeeps ==
    LET merged == Rebase(mySnap, mine, liveSnap)
    IN /\ merged # Fail
       /\ \A i \in DOMAIN mine : mine[i].kind \notin PatternKinds
       /\ \A i \in DOMAIN live : live[i].kind \notin PatternKinds
       => Keeps(merged, mySnap, mine) /\ Keeps(merged, liveSnap, live)
=============================================================================
