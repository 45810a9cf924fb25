--------------------------- MODULE ProjectionProofs ---------------------------
(***************************************************************************)
(* Proofs about Projection for any loci, Canons, snapshots and numbers of  *)
(* calls.                                                                  *)
(***************************************************************************)
EXTENDS Projection, FiniteSetTheorems, NaturalsInduction, WellFoundedInduction, TLAPS

Fields == Cols \cup Maps

(* The row at an index.                                                    *)
At(p, i) ==
    [f \in Fields |-> IF f \in Cols THEN p.cols[f][i] ELSE Item(p, f, i)]

Slots(p) == 1 .. Len(p.sigils)

(* Parallel columns, maps keyed by indices there are, and a table that is  *)
(* the inverse of the list of Sigils.                                      *)
Shaped(p) ==
    /\ p = [by |-> p.by, sigils |-> p.sigils, cols |-> p.cols, maps |-> p.maps]
    /\ p.by = [l \in DOMAIN p.by |-> p.by[l]]
    /\ p.cols = [c \in Cols |-> p.cols[c]]
    /\ p.maps = [m \in Maps |-> p.maps[m]]
Tabled(p) ==
    /\ p.sigils \in Seq(Loci)
    /\ \A i \in Slots(p) : p.sigils[i] \in DOMAIN p.by /\ p.by[p.sigils[i]] = i
    /\ \A l \in DOMAIN p.by : p.by[l] \in Slots(p) /\ p.sigils[p.by[l]] = l
Parallel(p) == \A c \in Cols : p.cols[c] = [i \in Slots(p) |-> p.cols[c][i]]
Anchored(p) == \A m \in Maps : \A e \in p.maps[m] : e[1] \in Slots(p) /\ e = <<e[1], e[2]>>
Filled(p) == \A i \in Slots(p) : IsRow(At(p, i))
Packed(p) == Shaped(p) /\ Tabled(p) /\ Parallel(p) /\ Anchored(p) /\ Filled(p)

(* The rows by Sigil are the rows at the indices of the table.             *)
LEMMA RowsAreAt ==
  ASSUME NEW p
  PROVE  RowsOf(p) = [l \in DOMAIN p.by |-> At(p, p.by[l])]
BY DEF RowsOf, RowOf, At, Fields

LEMMA FieldFacts ==
  /\ Cols \cap Maps = {} /\ Cols \subseteq Fields /\ Maps \subseteq Fields
  /\ Fields = Cols \cup Maps
BY DEF Cols, Maps, Fields

LEMMA RowFields ==
  ASSUME NEW row, IsRow(row)
  PROVE  /\ row = [f \in Fields |-> row[f]] /\ DOMAIN row = Fields
BY DEF IsRow, Fields

(* The row at i is known from its columns and its maps.                    *)
LEMMA AtIs ==
  ASSUME NEW p, NEW i, NEW row, row = [f \in Fields |-> row[f]],
         \A f \in Cols : p.cols[f][i] = row[f],
         \A f \in Maps : Item(p, f, i) = row[f]
  PROVE  At(p, i) = row
<1>1. \A f \in Fields : (IF f \in Cols THEN p.cols[f][i] ELSE Item(p, f, i)) = row[f]
  BY FieldFacts
<1> QED BY <1>1 DEF At

LEMMA AtFields ==
  ASSUME NEW p, NEW i
  PROVE  /\ At(p, i) = [f \in Fields |-> At(p, i)[f]]
         /\ \A f \in Cols : At(p, i)[f] = p.cols[f][i]
         /\ \A f \in Maps : At(p, i)[f] = Item(p, f, i)
BY FieldFacts DEF At

LEMMA AtSame ==
  ASSUME NEW p, NEW i, NEW q, NEW j,
         \A f \in Cols : p.cols[f][i] = q.cols[f][j],
         \A f \in Maps : Item(p, f, i) = Item(q, f, j)
  PROVE  At(p, i) = At(q, j)
<1> DEFINE row == At(q, j)
<1>1. row = [f \in Fields |-> row[f]]
  BY AtFields
<1>2. \A f \in Cols : p.cols[f][i] = row[f]
  BY AtFields
<1>3. \A f \in Maps : Item(p, f, i) = row[f]
  BY AtFields
<1> HIDE DEF row
<1>4. At(p, i) = row
  BY <1>1, <1>2, <1>3, AtIs
<1> QED BY <1>4 DEF row

(* A list with one more.                                                   *)
LEMMA Appended ==
  ASSUME NEW n \in Nat, NEW f, f = [i \in 1 .. n |-> f[i]], NEW v
  PROVE  /\ Append(f, v) = [i \in 1 .. n + 1 |-> IF i = n + 1 THEN v ELSE f[i]]
         /\ Len(Append(f, v)) = n + 1
<1> DEFINE V == {f[i] : i \in 1 .. n} \cup {v}
<1>1. f \in Seq(V) /\ Len(f) = n /\ v \in V
  <2>1. f \in [1 .. n -> V]
    OBVIOUS
  <2> HIDE DEF V
  <2> QED BY <2>1 DEF V
<1> HIDE DEF V
<1> QED BY <1>1

(* push_snap_row: one row more, the others where they were.                *)
LEMMA PushAt ==
  ASSUME NEW p, Packed(p), NEW l \in Loci \ DOMAIN p.by, NEW row, IsRow(row)
  PROVE  LET q == Push(p, l, row)
             n == Len(p.sigils) + 1 IN
         /\ Packed(q)
         /\ Len(q.sigils) = n /\ q.sigils = Append(p.sigils, l)
         /\ q.by = [m \in DOMAIN p.by \cup {l} |-> IF m = l THEN n ELSE p.by[m]]
         /\ At(q, n) = row /\ \A i \in Slots(p) : At(q, i) = At(p, i)
<1> DEFINE q == Push(p, l, row)
           n == Len(p.sigils) + 1
<1>1. n \in Nat \ {0} /\ Slots(p) = 1 .. n - 1 /\ p.sigils \in Seq(Loci)
  BY DEF Packed, Tabled, Slots
<1>2. /\ q.sigils = Append(p.sigils, l)
      /\ q.by = [m \in DOMAIN p.by \cup {l} |-> IF m = l THEN n ELSE p.by[m]]
      /\ q.cols = [c \in Cols |-> Append(p.cols[c], row[c])]
      /\ q.maps = [m \in Maps |-> p.maps[m] \cup {<<n, e>> : e \in row[m]}]
      /\ q = [by |-> q.by, sigils |-> q.sigils, cols |-> q.cols, maps |-> q.maps]
  BY DEF Push
<1> HIDE DEF q, n
<1>3. /\ q.sigils \in Seq(Loci) /\ Len(q.sigils) = n
      /\ q.sigils[n] = l /\ \A i \in Slots(p) : q.sigils[i] = p.sigils[i]
      /\ Slots(q) = 1 .. n
  BY <1>1, <1>2 DEF n, Slots
<1>4. \A c \in Cols : q.cols[c] = [i \in 1 .. n |-> IF i = n THEN row[c] ELSE p.cols[c][i]]
  <2> SUFFICES ASSUME NEW c \in Cols
               PROVE q.cols[c] = [i \in 1 .. n |-> IF i = n THEN row[c] ELSE p.cols[c][i]]
    OBVIOUS
  <2>1. p.cols[c] = [i \in 1 .. n - 1 |-> p.cols[c][i]]
    BY <1>1 DEF Packed, Parallel
  <2>2. q.cols[c] = Append(p.cols[c], row[c])
    BY <1>2
  <2>3. n - 1 \in Nat /\ n - 1 + 1 = n
    BY <1>1
  <2> QED BY <2>1, <2>2, <2>3, Appended
<1>5. \A m \in Maps : /\ Item(q, m, n) = row[m]
                      /\ \A i \in Slots(p) : Item(q, m, i) = Item(p, m, i)
  <2> SUFFICES ASSUME NEW m \in Maps
               PROVE  /\ Item(q, m, n) = row[m]
                      /\ \A i \in Slots(p) : Item(q, m, i) = Item(p, m, i)
    OBVIOUS
  <2>1. q.maps[m] = p.maps[m] \cup {<<n, e>> : e \in row[m]}
    BY <1>2
  <2>2. \A e \in p.maps[m] : e[1] \in 1 .. n - 1
    BY <1>1 DEF Packed, Anchored
  <2>3. {x \in q.maps[m] : x[1] = n} = {<<n, e>> : e \in row[m]}
    BY <1>1, <2>1, <2>2
  <2>4. \A i \in Slots(p) : {x \in q.maps[m] : x[1] = i} = {x \in p.maps[m] : x[1] = i}
    BY <1>1, <2>1, <2>2
  <2>5. {e[2] : e \in {<<n, x>> : x \in row[m]}} = row[m]
    <3>1. \A x \in row[m] : <<n, x>> \in {<<n, y>> : y \in row[m]} /\ <<n, x>>[2] = x
      OBVIOUS
    <3>2. \A e \in {<<n, y>> : y \in row[m]} : e[2] \in row[m]
      OBVIOUS
    <3> QED BY <3>1, <3>2
  <2>6. Item(q, m, n) = row[m]
    BY <2>3, <2>5 DEF Item
  <2> QED BY <2>4, <2>6 DEF Item
<1>6. At(q, n) = row
  <2>1. ASSUME NEW f \in Cols PROVE q.cols[f][n] = row[f]
    <3>1. q.cols[f] = [i \in 1 .. n |-> IF i = n THEN row[f] ELSE p.cols[f][i]]
      BY <1>4
    <3> QED BY <1>1, <3>1
  <2> QED BY <1>5, <2>1, AtIs, RowFields
<1>7. \A i \in Slots(p) : At(q, i) = At(p, i)
  <2> SUFFICES ASSUME NEW i \in Slots(p) PROVE At(q, i) = At(p, i)
    OBVIOUS
  <2>1. ASSUME NEW f \in Cols PROVE q.cols[f][i] = p.cols[f][i]
    <3>1. q.cols[f] = [j \in 1 .. n |-> IF j = n THEN row[f] ELSE p.cols[f][j]]
      BY <1>4
    <3> QED BY <1>1, <3>1
  <2>2. \A f \in Maps : Item(q, f, i) = Item(p, f, i)
    BY <1>5
  <2> QED BY <2>1, <2>2, AtSame
<1>8. Packed(q)
  <2>1. Shaped(q)
    BY <1>2 DEF Shaped
  <2>2. Tabled(q)
    BY <1>1, <1>2, <1>3 DEF Packed, Tabled
  <2>3. Parallel(q)
    BY <1>3, <1>4 DEF Parallel
  <2>4. Anchored(q)
    <3> SUFFICES ASSUME NEW m \in Maps, NEW e \in q.maps[m]
                 PROVE e[1] \in 1 .. n /\ e = <<e[1], e[2]>>
      BY <1>3 DEF Anchored
    <3>1. q.maps[m] = p.maps[m] \cup {<<n, x>> : x \in row[m]}
      BY <1>2
    <3>2. CASE e \in p.maps[m]
      BY <1>1, <3>2 DEF Packed, Anchored
    <3>3. CASE e \in {<<n, x>> : x \in row[m]}
      BY <1>1, <3>3
    <3> QED BY <3>1, <3>2, <3>3
  <2>5. Filled(q)
    BY <1>1, <1>3, <1>6, <1>7 DEF Packed, Filled
  <2> QED BY <2>1, <2>2, <2>3, <2>4, <2>5 DEF Packed
<1> QED BY <1>2, <1>3, <1>6, <1>7, <1>8 DEF q, n

(* What is written to one index leaves the table and the other rows.       *)
LEMMA Retouched ==
  ASSUME NEW p, Packed(p), NEW q, NEW i \in Slots(p), Shaped(q),
         q.by = p.by, q.sigils = p.sigils, Parallel(q), Anchored(q),
         IsRow(At(q, i)), \A j \in Slots(p) \ {i} : At(q, j) = At(p, j)
  PROVE  /\ Packed(q)
         /\ RowsOf(q) = [l \in DOMAIN p.by |-> IF p.by[l] = i THEN At(q, i) ELSE RowsOf(p)[l]]
<1>1. Slots(q) = Slots(p)
  BY DEF Slots
<1>2. Tabled(q)
  BY <1>1 DEF Packed, Tabled
<1>3. Filled(q)
  BY <1>1 DEF Packed, Filled
<1>4. \A l \in DOMAIN p.by : At(q, p.by[l]) = IF p.by[l] = i THEN At(q, i) ELSE At(p, p.by[l])
  BY DEF Packed, Tabled
<1> QED BY <1>2, <1>3, <1>4, RowsAreAt DEF Packed

(* A row with another value in a field; the entries of an index.           *)
Amended(row, f, v) == [row EXCEPT ![f] = v]
ItemsOf(M, i) == {e[2] : e \in {x \in M : x[1] = i}}

(* A set_* of a column.                                                    *)
LEMMA CellAt ==
  ASSUME NEW p, Packed(p), NEW l \in DOMAIN p.by, NEW c \in Cols, NEW v,
         c = "hull" => v = None \/ v \in Int \X Int,
         c = "pose" => v = None \/ v \in Int
  PROVE  LET q == SetCell(p, l, c, v)
             i == p.by[l] IN
         /\ Packed(q) /\ q.by = p.by /\ q.sigils = p.sigils
         /\ At(q, i) = Amended(At(p, i), c, v)
         /\ \A j \in Slots(p) \ {i} : At(q, j) = At(p, j)
<1> DEFINE q == SetCell(p, l, c, v)
           i == p.by[l]
           row == Amended(At(p, i), c, v)
<1>1. i \in Slots(p) /\ l \in Loci
  <2>1. i \in Slots(p) /\ p.sigils[i] = l /\ p.sigils \in Seq(Loci)
    BY DEF Packed, Tabled
  <2> QED BY <2>1 DEF Slots
<1>2. /\ q.by = p.by /\ q.sigils = p.sigils /\ q.maps = p.maps /\ Shaped(q)
      /\ q.cols = [d \in Cols |-> IF d = c THEN [p.cols[c] EXCEPT ![i] = v] ELSE p.cols[d]]
  <2>1. Shaped(p)
    BY DEF Packed
  <2>2. /\ q.by = p.by /\ q.sigils = p.sigils /\ q.maps = p.maps
        /\ q.cols = [p.cols EXCEPT ![c] = [@ EXCEPT ![i] = v]]
        /\ q = [by |-> q.by, sigils |-> q.sigils, cols |-> q.cols, maps |-> q.maps]
    BY <2>1 DEF SetCell, Shaped
  <2> HIDE DEF q, i
  <2>3. q.cols = [d \in Cols |-> IF d = c THEN [p.cols[c] EXCEPT ![i] = v] ELSE p.cols[d]]
    BY <2>1, <2>2 DEF Shaped
  <2> QED BY <2>1, <2>2, <2>3 DEF Shaped
<1> HIDE DEF q
<1>3. \A d \in Cols : q.cols[d] =
        [j \in Slots(p) |-> IF d = c /\ j = i THEN v ELSE p.cols[d][j]]
  <2> SUFFICES ASSUME NEW d \in Cols
               PROVE q.cols[d] = [j \in Slots(p) |-> IF d = c /\ j = i THEN v ELSE p.cols[d][j]]
    OBVIOUS
  <2>1. p.cols[d] = [j \in Slots(p) |-> p.cols[d][j]]
    BY DEF Packed, Parallel
  <2>2. q.cols[d] = IF d = c THEN [p.cols[d] EXCEPT ![i] = v] ELSE p.cols[d]
    BY <1>2
  <2> HIDE DEF i
  <2> QED BY <1>1, <2>1, <2>2
<1>4. Slots(q) = Slots(p) /\ Parallel(q) /\ Anchored(q)
  <2>1. Slots(q) = Slots(p)
    BY <1>2 DEF Slots
  <2> QED BY <1>2, <1>3, <2>1 DEF Packed, Parallel, Anchored
<1>5. \A m \in Maps : \A j : Item(q, m, j) = Item(p, m, j)
  BY <1>2 DEF Item
<1>6. \A j \in Slots(p) \ {i} : At(q, j) = At(p, j)
  <2> TAKE j \in Slots(p) \ {i}
  <2>1. ASSUME NEW d \in Cols PROVE q.cols[d][j] = p.cols[d][j]
    <3>1. q.cols[d] = [k \in Slots(p) |-> IF d = c /\ k = i THEN v ELSE p.cols[d][k]]
      BY <1>3
    <3> HIDE DEF i
    <3> QED BY <3>1
  <2> QED BY <1>5, <2>1, AtSame
<1>7. At(q, i) = row
  <2> DEFINE old == At(p, i)
  <2>1. /\ old = [f \in Fields |-> old[f]]
        /\ \A f \in Cols : old[f] = p.cols[f][i]
        /\ \A f \in Maps : old[f] = Item(p, f, i)
    BY AtFields
  <2>2. row = [old EXCEPT ![c] = v]
    BY DEF Amended
  <2> HIDE DEF old, row
  <2>3. row = [f \in Fields |-> IF f = c THEN v ELSE old[f]]
    BY <2>1, <2>2
  <2>4. ASSUME NEW f \in Cols PROVE q.cols[f][i] = row[f]
    <3>1. q.cols[f] = [k \in Slots(p) |-> IF f = c /\ k = i THEN v ELSE p.cols[f][k]]
      BY <1>3
    <3> HIDE DEF i
    <3>2. q.cols[f][i] = IF f = c THEN v ELSE p.cols[f][i]
      BY <1>1, <3>1
    <3> QED BY <2>1, <2>3, <3>2, FieldFacts
  <2>5. \A f \in Maps : Item(q, f, i) = row[f]
    BY <1>5, <2>1, <2>3, FieldFacts
  <2>6. row = [f \in Fields |-> row[f]]
    BY <2>3
  <2> HIDE DEF i
  <2> QED BY <2>4, <2>5, <2>6, AtIs
<1>8. IsRow(row)
  <2>1. IsRow(At(p, i))
    BY <1>1 DEF Packed, Filled
  <2> DEFINE old == At(p, i)
  <2> HIDE DEF old
  <2>2. row = [f \in Fields |-> IF f = c THEN v ELSE old[f]]
    BY <2>1, RowFields DEF old, Amended
  <2>3. "hull" \in Fields /\ "pose" \in Fields
    BY DEF Fields, Cols
  <2> HIDE DEF row
  <2> QED BY <2>1, <2>2, <2>3 DEF IsRow, old, Fields
<1>9. Packed(q)
  <2>1. At(q, i) = row /\ IsRow(row) /\ i \in Slots(p)
    BY <1>1, <1>7, <1>8
  <2> HIDE DEF row, i
  <2> QED BY <1>2, <1>4, <1>6, <2>1, Retouched
<1> HIDE DEF i, row
<1> QED BY <1>2, <1>6, <1>7, <1>9 DEF q, i, row

(* A write to the entries of one index in one map.                         *)
Remapped(p, m, M) == [p EXCEPT !.maps[m] = M]

LEMMA MapAt ==
  ASSUME NEW p, Packed(p), NEW i \in Slots(p), NEW m \in Maps, NEW M, NEW q,
         q = Remapped(p, m, M),
         \A e \in M : e[1] \in Slots(p) /\ e = <<e[1], e[2]>>,
         {e \in M : e[1] # i} = {e \in p.maps[m] : e[1] # i}
  PROVE  /\ Packed(q) /\ q.by = p.by /\ q.sigils = p.sigils
         /\ At(q, i) = Amended(At(p, i), m, ItemsOf(M, i))
         /\ \A j \in Slots(p) \ {i} : At(q, j) = At(p, j)
<1> DEFINE items == ItemsOf(M, i)
           row == Amended(At(p, i), m, items)
<1>1. /\ q.by = p.by /\ q.sigils = p.sigils /\ q.cols = p.cols /\ Shaped(q)
      /\ q.maps = [k \in Maps |-> IF k = m THEN M ELSE p.maps[k]]
  <2>1. Shaped(p)
    BY DEF Packed
  <2>2. /\ q.by = p.by /\ q.sigils = p.sigils /\ q.cols = p.cols
        /\ q.maps = [p.maps EXCEPT ![m] = M]
        /\ q = [by |-> q.by, sigils |-> q.sigils, cols |-> q.cols, maps |-> q.maps]
    BY <2>1 DEF Shaped, Remapped
  <2>3. q.maps = [k \in Maps |-> IF k = m THEN M ELSE p.maps[k]]
    BY <2>1, <2>2 DEF Shaped
  <2> QED BY <2>1, <2>2, <2>3 DEF Shaped
<1>2. Slots(q) = Slots(p) /\ Parallel(q) /\ Anchored(q)
  <2>1. Slots(q) = Slots(p)
    BY <1>1 DEF Slots
  <2> QED BY <1>1, <2>1 DEF Packed, Parallel, Anchored
<1>3. ASSUME NEW k \in Maps, NEW j, j # i PROVE Item(q, k, j) = Item(p, k, j)
  <2>1. {x \in q.maps[k] : x[1] = j} = {x \in p.maps[k] : x[1] = j}
    BY <1>1, <1>3
  <2> QED BY <2>1 DEF Item
<1>4. ASSUME NEW k \in Maps PROVE Item(q, k, i) = IF k = m THEN items ELSE Item(p, k, i)
  BY <1>1 DEF Item, ItemsOf
<1>5. \A j \in Slots(p) \ {i} : At(q, j) = At(p, j)
  <2> TAKE j \in Slots(p) \ {i}
  <2>1. \A f \in Cols : q.cols[f][j] = p.cols[f][j]
    BY <1>1
  <2>2. \A f \in Maps : Item(q, f, j) = Item(p, f, j)
    BY <1>3
  <2> QED BY <2>1, <2>2, AtSame
<1>6. row = [f \in Fields |-> IF f = m THEN items ELSE At(p, i)[f]]
  <2> DEFINE old == At(p, i)
  <2>1. old = [f \in Fields |-> old[f]]
    BY AtFields
  <2> HIDE DEF old, items
  <2>2. [old EXCEPT ![m] = items] = [f \in Fields |-> IF f = m THEN items ELSE old[f]]
    BY <2>1
  <2> QED BY <2>2 DEF old, Amended
<1> HIDE DEF items, row
<1>7. At(q, i) = row
  <2>1. \A f \in Cols : q.cols[f][i] = row[f]
    BY <1>1, <1>6, FieldFacts, AtFields
  <2>2. \A f \in Maps : Item(q, f, i) = row[f]
    BY <1>4, <1>6, FieldFacts, AtFields
  <2>3. row = [f \in Fields |-> row[f]]
    BY <1>6
  <2> QED BY <2>1, <2>2, <2>3, AtIs
<1>8. IsRow(row)
  <2>1. IsRow(At(p, i))
    BY DEF Packed, Filled
  <2>2. m # "hull" /\ m # "pose" /\ "hull" \in Fields /\ "pose" \in Fields
    BY DEF Fields, Cols, Maps
  <2> QED BY <1>6, <2>1, <2>2 DEF IsRow, Fields
<1>9. Packed(q)
  BY <1>1, <1>2, <1>5, <1>7, <1>8, Retouched
<1> QED BY <1>1, <1>5, <1>7, <1>9 DEF items, row

(* write_snap_row: the row becomes the snapshot's.                         *)
LEMMA OverwriteAt ==
  ASSUME NEW p, Packed(p), NEW l \in DOMAIN p.by, NEW row, IsRow(row)
  PROVE  LET q == Overwrite(p, l, row)
             i == p.by[l] IN
         /\ Packed(q) /\ q.by = p.by /\ q.sigils = p.sigils
         /\ At(q, i) = row /\ \A j \in Slots(p) \ {i} : At(q, j) = At(p, j)
<1> DEFINE q == Overwrite(p, l, row)
           i == p.by[l]
<1>1. i \in Slots(p)
  BY DEF Packed, Tabled
<1>2. /\ q.by = p.by /\ q.sigils = p.sigils /\ Shaped(q)
      /\ q.cols = [c \in Cols |-> [p.cols[c] EXCEPT ![i] = row[c]]]
      /\ q.maps = [m \in Maps |-> {e \in p.maps[m] : e[1] # i} \cup {<<i, e>> : e \in row[m]}]
  <2>1. Shaped(p)
    BY DEF Packed
  <2>2. q.maps = [m \in Maps |-> Strip(p.maps, {i})[m] \cup {<<i, e>> : e \in row[m]}]
    BY <2>1 DEF Overwrite, Shaped
  <2>3. \A m \in Maps : Strip(p.maps, {i})[m] = {e \in p.maps[m] : e[1] # i}
    BY DEF Strip
  <2>4. \A m \in Maps : q.maps[m] = {e \in p.maps[m] : e[1] # i} \cup {<<i, e>> : e \in row[m]}
    BY <2>2, <2>3
  <2>5. /\ q.by = p.by /\ q.sigils = p.sigils
        /\ q.cols = [c \in Cols |-> [p.cols[c] EXCEPT ![i] = row[c]]]
        /\ q = [by |-> q.by, sigils |-> q.sigils, cols |-> q.cols, maps |-> q.maps]
    <3> DEFINE C == [c \in Cols |-> [p.cols[c] EXCEPT ![i] = row[c]]]
               M == [m \in Maps |-> Strip(p.maps, {i})[m] \cup {<<i, e>> : e \in row[m]}]
    <3>1. q = [p EXCEPT !.cols = C, !.maps = M]
      BY DEF Overwrite
    <3> HIDE DEF q, C, M
    <3>2. q = [by |-> p.by, sigils |-> p.sigils, cols |-> C, maps |-> M]
      BY <2>1, <3>1 DEF Shaped
    <3>3. q.cols = C
      BY <3>2
    <3> QED BY <3>2, <3>3 DEF C
  <2> HIDE DEF q, i
  <2>6. q.maps = [m \in Maps |-> q.maps[m]] /\ q.cols = [c \in Cols |-> q.cols[c]]
    BY <2>2, <2>5
  <2>7. q.maps = [m \in Maps |-> {e \in p.maps[m] : e[1] # i} \cup {<<i, e>> : e \in row[m]}]
    BY <2>4, <2>6
  <2> QED BY <2>1, <2>5, <2>6, <2>7 DEF Shaped
<1> HIDE DEF q, i
<1>3. \A c \in Cols : q.cols[c] = [j \in Slots(p) |-> IF j = i THEN row[c] ELSE p.cols[c][j]]
  <2> TAKE c \in Cols
  <2>1. p.cols[c] = [j \in Slots(p) |-> p.cols[c][j]]
    BY DEF Packed, Parallel
  <2> QED BY <1>2, <2>1
<1>4. Slots(q) = Slots(p) /\ Parallel(q)
  BY <1>2, <1>3 DEF Slots, Parallel
<1>5. Anchored(q)
  <2> SUFFICES ASSUME NEW m \in Maps, NEW e \in q.maps[m]
               PROVE e[1] \in Slots(p) /\ e = <<e[1], e[2]>>
    BY <1>4 DEF Anchored
  <2>1. CASE e \in p.maps[m]
    BY <2>1 DEF Packed, Anchored
  <2>2. CASE e \in {<<i, x>> : x \in row[m]}
    BY <1>1, <2>2
  <2> QED BY <1>2, <2>1, <2>2
<1>6. ASSUME NEW m \in Maps PROVE Item(q, m, i) = row[m]
  <2>1. {x \in q.maps[m] : x[1] = i} = {<<i, x>> : x \in row[m]}
    BY <1>2
  <2>2. {e[2] : e \in {<<i, x>> : x \in row[m]}} = row[m]
    <3>1. \A x \in row[m] : <<i, x>> \in {<<i, y>> : y \in row[m]} /\ <<i, x>>[2] = x
      OBVIOUS
    <3>2. \A e \in {<<i, y>> : y \in row[m]} : e[2] \in row[m]
      OBVIOUS
    <3> QED BY <3>1, <3>2
  <2> QED BY <2>1, <2>2 DEF Item
<1>7. ASSUME NEW m \in Maps, NEW j, j # i PROVE Item(q, m, j) = Item(p, m, j)
  <2>1. {x \in q.maps[m] : x[1] = j} = {x \in p.maps[m] : x[1] = j}
    BY <1>2, <1>7
  <2> QED BY <2>1 DEF Item
<1>8. At(q, i) = row
  <2>1. ASSUME NEW f \in Cols PROVE q.cols[f][i] = row[f]
    <3>1. q.cols[f] = [j \in Slots(p) |-> IF j = i THEN row[f] ELSE p.cols[f][j]]
      BY <1>3
    <3> QED BY <1>1, <3>1
  <2> QED BY <1>6, <2>1, AtIs, RowFields
<1>9. \A j \in Slots(p) \ {i} : At(q, j) = At(p, j)
  <2> TAKE j \in Slots(p) \ {i}
  <2>1. ASSUME NEW f \in Cols PROVE q.cols[f][j] = p.cols[f][j]
    <3>1. q.cols[f] = [k \in Slots(p) |-> IF k = i THEN row[f] ELSE p.cols[f][k]]
      BY <1>3
    <3> QED BY <3>1
  <2> QED BY <1>7, <2>1, AtSame
<1>10. Packed(q)
  BY <1>1, <1>2, <1>4, <1>5, <1>8, <1>9, Retouched
<1> QED BY <1>2, <1>8, <1>9, <1>10 DEF q, i

(* A list without its last.                                                *)
LEMMA Fronted ==
  ASSUME NEW n \in Nat \ {0}, NEW f, f = [i \in 1 .. n |-> f[i]]
  PROVE  Front(f) = [i \in 1 .. n - 1 |-> f[i]]
<1> DEFINE V == {f[i] : i \in 1 .. n}
<1>1. f \in Seq(V) /\ Len(f) = n
  <2>1. f \in [1 .. n -> V]
    OBVIOUS
  <2> HIDE DEF V
  <2> QED BY <2>1
<1> HIDE DEF V
<1>2. Front(f) = SubSeq(f, 1, n - 1)
  BY <1>1 DEF Front
<1>3. SubSeq(f, 1, n - 1) = [i \in 1 .. n - 1 |-> f[i]]
  BY <1>1
<1> QED BY <1>2, <1>3

(* swap_out_locus, of a row that is stripped of its entries: the last row  *)
(* takes its place, the others stay.                                       *)
Source(j, i, n) == IF j = i THEN n ELSE j

LEMMA SwappedList ==
  ASSUME NEW n \in Nat \ {0}, NEW i \in 1 .. n, NEW f, f = [j \in 1 .. n |-> f[j]]
  PROVE  LET g == Front(Exchanged(f, i, n)) IN
         /\ g = [j \in 1 .. n - 1 |-> g[j]]
         /\ \A j \in 1 .. n - 1 : g[j] = f[Source(j, i, n)]
<1> DEFINE g == Exchanged(f, i, n)
<1>1. DOMAIN f = 1 .. n
  OBVIOUS
<1>2. g = [k \in 1 .. n |-> CASE k = i -> f[n] [] k = n -> f[i] [] OTHER -> f[k]]
  BY <1>1 DEF Exchanged
<1> HIDE DEF g
<1>3. \A k \in 1 .. n - 1 : g[k] = f[Source(k, i, n)]
  BY <1>2 DEF Source
<1>4. Front(g) = [k \in 1 .. n - 1 |-> g[k]]
  <2>1. g = [k \in 1 .. n |-> g[k]]
    BY <1>2
  <2> QED BY <2>1, Fronted
<1>5. /\ Front(g) = [k \in 1 .. n - 1 |-> Front(g)[k]]
      /\ \A k \in 1 .. n - 1 : Front(g)[k] = f[Source(k, i, n)]
  BY <1>3, <1>4
<1> QED BY <1>5 DEF g

LEMMA SwapOutAt ==
  ASSUME NEW p, Packed(p), NEW l \in DOMAIN p.by, \A m \in Maps : Item(p, m, p.by[l]) = {}
  PROVE  LET q == SwapOut(p, l) IN
         /\ Packed(q) /\ DOMAIN q.by = DOMAIN p.by \ {l}
         /\ \A m \in DOMAIN q.by : At(q, q.by[m]) = At(p, p.by[m])
<1> DEFINE q == SwapOut(p, l)
           i == p.by[l]
           n == Len(p.sigils)
<1>1. n \in Nat \ {0} /\ i \in 1 .. n /\ Slots(p) = 1 .. n /\ p.sigils[i] = l
  BY DEF Packed, Tabled, Slots
<1>2. p.sigils = [j \in 1 .. n |-> p.sigils[j]]
  BY DEF Packed, Tabled
<1>3. /\ p.sigils[n] \in DOMAIN p.by /\ p.by[p.sigils[n]] = n
      /\ \A m \in DOMAIN p.by : p.by[m] \in 1 .. n /\ p.sigils[p.by[m]] = m
  <2>1. n \in 1 .. n
    BY <1>1
  <2> HIDE DEF n
  <2> QED BY <1>1, <2>1 DEF Packed, Tabled
<1> DEFINE by == IF i = n THEN p.by ELSE [p.by EXCEPT ![p.sigils[n]] = i]
<1>4. /\ q.by = [m \in DOMAIN by \ {l} |-> by[m]]
      /\ q.sigils = Front(Exchanged(p.sigils, i, n))
      /\ q.cols = [c \in Cols |-> Front(Exchanged(p.cols[c], i, n))]
      /\ q.maps = (IF i = n THEN p.maps ELSE Remap(p.maps, n, i))
      /\ q = [by |-> q.by, sigils |-> q.sigils, cols |-> q.cols, maps |-> q.maps]
  BY DEF SwapOut
<1> HIDE DEF q
<1>5. q.by = [m \in DOMAIN p.by \ {l} |-> IF p.by[m] = n THEN i ELSE p.by[m]]
  <2>1. p.by = [m \in DOMAIN p.by |-> p.by[m]]
    BY DEF Packed, Shaped
  <2>2. by = [m \in DOMAIN p.by |-> IF i # n /\ m = p.sigils[n] THEN i ELSE p.by[m]]
    <3> HIDE DEF i, n
    <3> QED BY <1>3, <2>1
  <2>3. \A m \in DOMAIN p.by \ {l} : (i # n /\ m = p.sigils[n]) <=> p.by[m] = n
    <3> HIDE DEF n
    <3> QED BY <1>1, <1>3
  <2> HIDE DEF by
  <2>4. \A m \in DOMAIN p.by \ {l} : by[m] = IF p.by[m] = n THEN i ELSE p.by[m]
    BY <2>2, <2>3
  <2> QED BY <1>4, <2>2, <2>4
<1> HIDE DEF by
<1>6. /\ q.sigils = [j \in 1 .. n - 1 |-> q.sigils[j]]
      /\ \A j \in 1 .. n - 1 : q.sigils[j] = p.sigils[Source(j, i, n)]
  <2>1. n \in Nat \ {0} /\ i \in 1 .. n
    BY <1>1
  <2> DEFINE f == p.sigils
  <2>2. f = [j \in 1 .. n |-> f[j]] /\ q.sigils = Front(Exchanged(f, i, n))
    BY <1>2, <1>4
  <2> HIDE DEF f, i, n
  <2>3. /\ q.sigils = [j \in 1 .. n - 1 |-> q.sigils[j]]
        /\ \A j \in 1 .. n - 1 : q.sigils[j] = f[Source(j, i, n)]
    BY <2>1, <2>2, SwappedList
  <2> QED BY <2>3 DEF f
<1>7. \A c \in Cols :
        /\ q.cols[c] = [j \in 1 .. n - 1 |-> q.cols[c][j]]
        /\ \A j \in 1 .. n - 1 : q.cols[c][j] = p.cols[c][Source(j, i, n)]
  <2> TAKE c \in Cols
  <2>1. p.cols[c] = [j \in 1 .. n |-> p.cols[c][j]]
    BY <1>1 DEF Packed, Parallel
  <2>2. q.cols[c] = Front(Exchanged(p.cols[c], i, n))
    BY <1>4
  <2>3. n \in Nat \ {0} /\ i \in 1 .. n
    BY <1>1
  <2> DEFINE f == p.cols[c]
  <2>4. f = [j \in 1 .. n |-> f[j]] /\ q.cols[c] = Front(Exchanged(f, i, n))
    BY <2>1, <2>2
  <2> HIDE DEF f, i, n
  <2>5. /\ q.cols[c] = [j \in 1 .. n - 1 |-> q.cols[c][j]]
        /\ \A j \in 1 .. n - 1 : q.cols[c][j] = f[Source(j, i, n)]
    BY <2>3, <2>4, SwappedList
  <2> QED BY <2>5 DEF f
<1>8. \A j \in 1 .. n - 1 : Source(j, i, n) \in 1 .. n /\ Source(j, i, n) # i
  <2> HIDE DEF i
  <2> QED BY <1>1 DEF Source
<1>9. q.sigils \in Seq(Loci) /\ Len(q.sigils) = n - 1 /\ Slots(q) = 1 .. n - 1
  <2>1. \A j \in 1 .. n : p.sigils[j] \in Loci
    BY DEF Packed, Tabled
  <2> HIDE DEF i, n
  <2>2. q.sigils \in [1 .. n - 1 -> Loci] /\ n - 1 \in Nat
    BY <1>1, <1>6, <1>8, <2>1
  <2>3. q.sigils \in Seq(Loci) /\ Len(q.sigils) = n - 1
    BY <2>2
  <2> QED BY <2>3 DEF Slots
<1>10. \A m \in Maps : \A e \in p.maps[m] : e[1] \in 1 .. n /\ e[1] # i /\ e = <<e[1], e[2]>>
  <2> TAKE m \in Maps
  <2> TAKE e \in p.maps[m]
  <2>1. e[1] \in 1 .. n /\ e = <<e[1], e[2]>>
    BY <1>1 DEF Packed, Anchored
  <2>2. e[1] # i
    <3>1. e[1] = i => e[2] \in Item(p, m, i)
      BY DEF Item
    <3> QED BY <3>1
  <2> QED BY <2>1, <2>2
<1>11. \A m \in Maps :
         q.maps[m] = {IF e[1] = n THEN <<i, e[2]>> ELSE e : e \in p.maps[m]}
  <2> TAKE m \in Maps
  <2>1. CASE i = n
    <3>1. \A e \in p.maps[m] : e[1] # n
      <4> HIDE DEF i, n
      <4> QED BY <1>10, <2>1
    <3>2. q.maps[m] = p.maps[m]
      BY <1>4, <2>1
    <3> HIDE DEF i, n
    <3> QED BY <3>1, <3>2
  <2>2. CASE i # n
    <3> HIDE DEF i, n
    <3> QED BY <1>4, <2>2 DEF Remap
  <2> QED BY <2>1, <2>2
<1> HIDE DEF i, n
<1>12. ASSUME NEW m \in Maps, NEW j \in 1 .. n - 1
       PROVE  Item(q, m, j) = Item(p, m, Source(j, i, n))
  <2>1. CASE j = i
    <3>1. n # i /\ Source(j, i, n) = n
      BY <1>1, <2>1 DEF Source
    <3>2. {x \in q.maps[m] : x[1] = j} = {<<i, e[2]>> : e \in {x \in p.maps[m] : x[1] = n}}
      BY <1>10, <1>11, <2>1
    <3>3. {e[2] : e \in {<<i, x[2]>> : x \in {y \in p.maps[m] : y[1] = n}}}
            = {x[2] : x \in {y \in p.maps[m] : y[1] = n}}
      <4> DEFINE Y == {y \in p.maps[m] : y[1] = n}
      <4> HIDE DEF Y
      <4>1. \A x \in Y : <<i, x[2]>> \in {<<i, y[2]>> : y \in Y} /\ <<i, x[2]>>[2] = x[2]
        OBVIOUS
      <4>2. \A e \in {<<i, y[2]>> : y \in Y} : \E x \in Y : e[2] = x[2]
        OBVIOUS
      <4>3. \A v \in {x[2] : x \in Y} : v \in {e[2] : e \in {<<i, x[2]>> : x \in Y}}
        BY <4>1
      <4>4. \A v \in {e[2] : e \in {<<i, x[2]>> : x \in Y}} : v \in {x[2] : x \in Y}
        BY <4>2
      <4>5. {e[2] : e \in {<<i, x[2]>> : x \in Y}} = {x[2] : x \in Y}
        BY <4>3, <4>4
      <4> QED BY <4>5 DEF Y
    <3> QED BY <3>1, <3>2, <3>3 DEF Item
  <2>2. CASE j # i
    <3>1. Source(j, i, n) = j /\ j # n
      BY <1>1, <2>2 DEF Source
    <3>2. {x \in q.maps[m] : x[1] = j} = {x \in p.maps[m] : x[1] = j}
      BY <1>10, <1>11, <2>2, <3>1
    <3> QED BY <3>1, <3>2 DEF Item
  <2> QED BY <2>1, <2>2
<1>13. ASSUME NEW j \in 1 .. n - 1 PROVE At(q, j) = At(p, Source(j, i, n))
  <2>1. ASSUME NEW c \in Cols PROVE q.cols[c][j] = p.cols[c][Source(j, i, n)]
    BY <1>7
  <2>2. \A m \in Maps : Item(q, m, j) = Item(p, m, Source(j, i, n))
    BY <1>12
  <2> QED BY <2>1, <2>2, AtSame
<1>14. Shaped(q)
  <2>1. q.maps = [m \in Maps |-> q.maps[m]]
    <3>1. p.maps = [m \in Maps |-> p.maps[m]]
      BY DEF Packed, Shaped
    <3> QED BY <1>4, <3>1 DEF Remap
  <2> QED BY <1>4, <1>5, <2>1 DEF Shaped
<1>15. Tabled(q)
  <2>1. ASSUME NEW j \in 1 .. n - 1 PROVE q.sigils[j] \in DOMAIN q.by /\ q.by[q.sigils[j]] = j
    <3> DEFINE k == Source(j, i, n)
               m == p.sigils[k]
    <3>1. k \in 1 .. n /\ k # i /\ q.sigils[j] = m
      BY <1>6, <1>8
    <3>2. m \in DOMAIN p.by /\ p.by[m] = k /\ p.by[l] = i
      BY <1>1, <3>1 DEF Packed, Tabled, i
    <3>3. (IF k = n THEN i ELSE k) = j
      BY <1>1, <3>1 DEF Source
    <3> HIDE DEF k, m
    <3>4. m \in DOMAIN p.by \ {l}
      BY <3>1, <3>2
    <3> QED BY <1>5, <3>1, <3>2, <3>3, <3>4
  <2>2. ASSUME NEW m \in DOMAIN q.by
        PROVE  q.by[m] \in 1 .. n - 1 /\ q.sigils[q.by[m]] = m
    <3>1. m \in DOMAIN p.by \ {l} /\ q.by[m] = IF p.by[m] = n THEN i ELSE p.by[m]
      BY <1>5, <2>2
    <3>2. p.by[m] \in 1 .. n /\ p.sigils[p.by[m]] = m /\ p.by[m] # i
      BY <1>1, <1>3, <3>1
    <3>3. q.by[m] \in 1 .. n - 1 /\ Source(q.by[m], i, n) = p.by[m]
      BY <1>1, <3>1, <3>2 DEF Source
    <3> QED BY <1>6, <3>2, <3>3
  <2> QED BY <1>9, <2>1, <2>2 DEF Tabled
<1>16. Parallel(q)
  <2> SUFFICES ASSUME NEW c \in Cols PROVE q.cols[c] = [j \in 1 .. n - 1 |-> q.cols[c][j]]
    BY <1>9 DEF Parallel
  <2> QED BY <1>7
<1>17. Anchored(q)
  <2> SUFFICES ASSUME NEW m \in Maps, NEW e \in q.maps[m]
               PROVE e[1] \in 1 .. n - 1 /\ e = <<e[1], e[2]>>
    BY <1>9 DEF Anchored
  <2>1. PICK x \in p.maps[m] : e = IF x[1] = n THEN <<i, x[2]>> ELSE x
    BY <1>11
  <2>2. x[1] \in 1 .. n /\ x[1] # i /\ x = <<x[1], x[2]>>
    BY <1>10
  <2> QED BY <1>1, <2>1, <2>2
<1>18. Filled(q)
  <2> SUFFICES ASSUME NEW j \in 1 .. n - 1 PROVE IsRow(At(q, j))
    BY <1>9 DEF Filled
  <2>1. IsRow(At(p, Source(j, i, n)))
    BY <1>1, <1>8 DEF Packed, Filled
  <2> QED BY <1>13, <2>1
<1>19. DOMAIN q.by = DOMAIN p.by \ {l}
  BY <1>5
<1>20. ASSUME NEW m \in DOMAIN q.by PROVE At(q, q.by[m]) = At(p, p.by[m])
  <2>1. m \in DOMAIN p.by \ {l} /\ q.by[m] = IF p.by[m] = n THEN i ELSE p.by[m]
    BY <1>5, <1>20
  <2>2. p.by[m] \in 1 .. n /\ p.by[m] # i
    BY <1>1, <1>3, <2>1
  <2>3. q.by[m] \in 1 .. n - 1 /\ Source(q.by[m], i, n) = p.by[m]
    BY <1>1, <2>1, <2>2 DEF Source
  <2> QED BY <1>13, <2>3
<1> QED BY <1>14, <1>15, <1>16, <1>17, <1>18, <1>19, <1>20 DEF Packed, q

-----------------------------------------------------------------------------
(* The loops.                                                              *)
LEMMA LeastOf ==
  ASSUME NEW S, S \subseteq Nat, S # {}
  PROVE  \E x \in S : \A y \in S : x <= y
<1> DEFINE R == {ss \in Nat \X Nat : ss[1] < ss[2]}
<1>1. IsWellFoundedOn(R, Nat)
  BY NatLessThanWellFounded, Zenon DEF OpToRel
<1>2. \A x, y \in Nat : x < y => <<x, y>> \in R
  OBVIOUS
<1> HIDE DEF R
<1>3. PICK x \in S : \A y \in S : ~(<<y, x>> \in R)
  BY <1>1, WFMin, Zenon
<1>4. \A y \in S : ~(y < x)
  BY <1>2, <1>3
<1>5. \A y \in S : x <= y
  BY <1>4
<1> QED BY <1>5

LEMMA Throughout ==
  ASSUME NEW N \in Nat, NEW S, 0 \in S, \A n \in 1 .. N : n - 1 \in S => n \in S
  PROVE  0 .. N \subseteq S
<1> DEFINE bad == (0 .. N) \ S
<1>1. SUFFICES ASSUME bad # {} PROVE FALSE
  OBVIOUS
<1>2. PICK n \in bad : \A m \in bad : n <= m
  <2>1. bad \subseteq Nat
    OBVIOUS
  <2> QED BY <1>1, <2>1, LeastOf
<1>3. n \in 1 .. N /\ n - 1 \in 0 .. N /\ n - 1 \notin bad
  BY <1>2
<1> QED BY <1>2, <1>3

(* The turns of the four loops, and a loop of them.                        *)
Step(k, a, x, n) ==
    CASE k = "put" -> PutRow(x, a[n])
      [] k = "drop" -> DropIf(x, a[1].sigils[Len(a[1].sigils) + 1 - n], a[2])
      [] k = "capture" -> Captured(a[1], a[2], x, a[1].sigils[n])
      [] k = "index" -> ReindexHull(x, a[1], a[2], n)

Runs(k, a, x, N, run) ==
    run = [n \in 0 .. N |-> IF n = 0 THEN x ELSE Step(k, a, run[n - 1], n)]

LEMMA LoopRuns ==
  ASSUME NEW k, NEW a, NEW x, NEW N \in Nat
  PROVE  \E run : Runs(k, a, x, N, run)
<1> DEFINE S == {n \in Nat : \E run : Runs(k, a, x, n, run)}
<1>1. 0 \in S
  <2> DEFINE f == [n \in 0 .. 0 |-> x]
  <2>1. Runs(k, a, x, 0, f)
    BY DEF Runs
  <2> QED BY <2>1
<1>2. ASSUME NEW m \in 1 .. N, m - 1 \in S PROVE m \in S
  <2>1. PICK g : Runs(k, a, x, m - 1, g)
    BY <1>2
  <2> DEFINE f == [n \in 0 .. m |-> IF n < m THEN g[n] ELSE Step(k, a, g[m - 1], m)]
  <2>2. ASSUME NEW n \in 0 .. m
        PROVE  f[n] = IF n = 0 THEN x ELSE Step(k, a, f[n - 1], n)
    <3>1. CASE n < m
      <4>1. n \in 0 .. m - 1 /\ f[n] = g[n] /\ (n # 0 => f[n - 1] = g[n - 1])
        BY <3>1
      <4>2. g[n] = IF n = 0 THEN x ELSE Step(k, a, g[n - 1], n)
        BY <2>1, <4>1 DEF Runs
      <4> HIDE DEF f
      <4> QED BY <4>1, <4>2
    <3>2. CASE n = m
      <4>1. f[n] = Step(k, a, g[m - 1], m) /\ f[m - 1] = g[m - 1] /\ n # 0
        BY <3>2
      <4> HIDE DEF f
      <4> QED BY <3>2, <4>1
    <3> QED BY <3>1, <3>2
  <2>3. f = [n \in 0 .. m |-> f[n]]
    OBVIOUS
  <2> HIDE DEF f
  <2>4. Runs(k, a, x, m, f)
    BY <2>2, <2>3 DEF Runs
  <2> QED BY <2>4
<1> HIDE DEF S
<1>3. 0 .. N \subseteq S
  BY <1>1, <1>2, Throughout
<1> QED BY <1>3 DEF S

LEMMA RunsTurns ==
  ASSUME NEW k, NEW a, NEW x, NEW N \in Nat, NEW run, Runs(k, a, x, N, run)
  PROVE  run[0] = x /\ \A n \in 1 .. N : run[n] = Step(k, a, run[n - 1], n)
BY DEF Runs

(* PutRows, out of its LET.                                                *)
PutLoop(p, list, run) ==
    [n \in 0 .. Len(list) |->
        IF n = 0 THEN p ELSE Once(run[n - 1], LAMBDA q : PutRow(q, list[n]))]

LEMMA PutRowsIsLoop ==
  ASSUME NEW p, NEW list
  PROVE  PutRows(p, list) = (CHOOSE run : run = PutLoop(p, list, run))[Len(list)]
BY DEF PutRows, PutLoop

PutTurns(p, list, run) ==
    run[0] = p /\ \A n \in 1 .. Len(list) : run[n] = PutRow(run[n - 1], list[n])

LEMMA PutRowsRuns ==
  ASSUME NEW p, NEW list, Len(list) \in Nat
  PROVE  \E run : PutRows(p, list) = run[Len(list)] /\ PutTurns(p, list, run)
<1> DEFINE N == Len(list)
           f == CHOOSE run : run = PutLoop(p, list, run)
<1>1. ASSUME NEW x, NEW n PROVE Once(x, LAMBDA q : PutRow(q, list[n])) = Step("put", list, x, n)
  <2> DEFINE y == PutRow(x, list[n])
  <2>1. {PutRow(v, list[n]) : v \in {x}} = {y}
    OBVIOUS
  <2> HIDE DEF y
  <2>2. (CHOOSE z \in {y} : TRUE) = y
    OBVIOUS
  <2> QED BY <2>1, <2>2 DEF Once, Step, y
<1>2. \A run : run = PutLoop(p, list, run) <=> Runs("put", list, p, N, run)
  <2> TAKE run
  <2>1. PutLoop(p, list, run) =
          [n \in 0 .. N |-> IF n = 0 THEN p ELSE Step("put", list, run[n - 1], n)]
    BY <1>1 DEF PutLoop
  <2> QED BY <2>1 DEF Runs
<1>3. \E run : run = PutLoop(p, list, run)
  BY <1>2, LoopRuns
<1>4. f = PutLoop(p, list, f)
  BY <1>3
<1>5. PutRows(p, list) = f[N]
  BY PutRowsIsLoop
<1> HIDE DEF f, N
<1>6. f[0] = p /\ \A n \in 1 .. N : f[n] = Step("put", list, f[n - 1], n)
  <2>1. Runs("put", list, p, N, f)
    BY <1>2, <1>4
  <2> QED BY <2>1 DEF Runs, N
<1>7. \A n \in 1 .. N : f[n] = PutRow(f[n - 1], list[n])
  BY <1>6 DEF Step
<1>8. PutTurns(p, list, f)
  BY <1>6, <1>7 DEF PutTurns, N
<1> QED BY <1>5, <1>8 DEF N

(* DropLoci.                                                               *)
DropLociLoop(p, S, run) ==
    [n \in 0 .. Len(p.sigils) |->
        IF n = 0 THEN Bared(p, S)
        ELSE Once(run[n - 1], LAMBDA q : DropIf(q, p.sigils[Len(p.sigils) + 1 - n], S))]

LEMMA DropLociIsLoop ==
  ASSUME NEW p, NEW S
  PROVE  DropLoci(p, S) = (CHOOSE run : run = DropLociLoop(p, S, run))[Len(p.sigils)]
BY DEF DropLoci, DropLociLoop

LEMMA DropLociRuns ==
  ASSUME NEW p, NEW S, Len(p.sigils) \in Nat
  PROVE  \E run : /\ DropLoci(p, S) = run[Len(p.sigils)]
                  /\ run[0] = Bared(p, S)
                  /\ \A n \in 1 .. Len(p.sigils) : run[n] = DropIf(run[n - 1], p.sigils[Len(p.sigils) + 1 - n], S)
<1> DEFINE N == Len(p.sigils)
           f == CHOOSE run : run = DropLociLoop(p, S, run)
<1>1. ASSUME NEW x, NEW n
      PROVE  Once(x, LAMBDA q : DropIf(q, p.sigils[Len(p.sigils) + 1 - n], S)) = Step("drop", <<p, S>>, x, n)
  <2> DEFINE y == DropIf(x, p.sigils[Len(p.sigils) + 1 - n], S)
  <2>1. {DropIf(v, p.sigils[Len(p.sigils) + 1 - n], S) : v \in {x}} = {y}
    OBVIOUS
  <2>2. y = Step("drop", <<p, S>>, x, n)
    BY DEF Step
  <2> HIDE DEF y
  <2>3. (CHOOSE z \in {y} : TRUE) = y
    OBVIOUS
  <2> QED BY <2>1, <2>2, <2>3 DEF Once
<1>2. \A run : run = DropLociLoop(p, S, run) <=> Runs("drop", <<p, S>>, Bared(p, S), N, run)
  <2> TAKE run
  <2>1. DropLociLoop(p, S, run) =
          [n \in 0 .. N |-> IF n = 0 THEN Bared(p, S) ELSE Step("drop", <<p, S>>, run[n - 1], n)]
    BY <1>1 DEF DropLociLoop
  <2> QED BY <2>1 DEF Runs
<1>3. \E run : run = DropLociLoop(p, S, run)
  BY <1>2, LoopRuns
<1>4. f = DropLociLoop(p, S, f)
  BY <1>3
<1>5. DropLoci(p, S) = f[N]
  BY DropLociIsLoop
<1> HIDE DEF f, N
<1>6. f[0] = Bared(p, S) /\ \A n \in 1 .. N : f[n] = Step("drop", <<p, S>>, f[n - 1], n)
  <2> DEFINE a == <<p, S>>
             x == Bared(p, S)
  <2>1. Runs("drop", a, x, N, f)
    BY <1>2, <1>4
  <2> HIDE DEF a, x
  <2>2. f[0] = x /\ \A n \in 1 .. N : f[n] = Step("drop", a, f[n - 1], n)
    BY <2>1 DEF Runs, N
  <2> QED BY <2>2 DEF a, x
<1>7. \A n \in 1 .. N : f[n] = DropIf(f[n - 1], p.sigils[Len(p.sigils) + 1 - n], S)
  BY <1>6 DEF Step
<1> QED BY <1>5, <1>6, <1>7 DEF N

(* PlaceSnap.                                                              *)
PlaceSnapLoop(p, l, run) ==
    [n \in 0 .. Len(p.sigils) |->
        IF n = 0 THEN <<<<l, RowOf(p, l)>>>>
        ELSE Once(run[n - 1], LAMBDA list : Captured(p, l, list, p.sigils[n]))]

LEMMA PlaceSnapIsLoop ==
  ASSUME NEW p, NEW l
  PROVE  PlaceSnap(p, l) = (CHOOSE run : run = PlaceSnapLoop(p, l, run))[Len(p.sigils)]
BY DEF PlaceSnap, PlaceSnapLoop

LEMMA PlaceSnapRuns ==
  ASSUME NEW p, NEW l, Len(p.sigils) \in Nat
  PROVE  \E run : /\ PlaceSnap(p, l) = run[Len(p.sigils)]
                  /\ run[0] = <<<<l, RowOf(p, l)>>>>
                  /\ \A n \in 1 .. Len(p.sigils) : run[n] = Captured(p, l, run[n - 1], p.sigils[n])
<1> DEFINE N == Len(p.sigils)
           f == CHOOSE run : run = PlaceSnapLoop(p, l, run)
<1>1. ASSUME NEW x, NEW n
      PROVE  Once(x, LAMBDA list : Captured(p, l, list, p.sigils[n])) = Step("capture", <<p, l>>, x, n)
  <2> DEFINE y == Captured(p, l, x, p.sigils[n])
  <2>1. {Captured(p, l, v, p.sigils[n]) : v \in {x}} = {y}
    OBVIOUS
  <2>2. y = Step("capture", <<p, l>>, x, n)
    BY DEF Step
  <2> HIDE DEF y
  <2>3. (CHOOSE z \in {y} : TRUE) = y
    OBVIOUS
  <2> QED BY <2>1, <2>2, <2>3 DEF Once
<1>2. \A run : run = PlaceSnapLoop(p, l, run) <=> Runs("capture", <<p, l>>, <<<<l, RowOf(p, l)>>>>, N, run)
  <2> TAKE run
  <2>1. PlaceSnapLoop(p, l, run) =
          [n \in 0 .. N |-> IF n = 0 THEN <<<<l, RowOf(p, l)>>>> ELSE Step("capture", <<p, l>>, run[n - 1], n)]
    BY <1>1 DEF PlaceSnapLoop
  <2> QED BY <2>1 DEF Runs
<1>3. \E run : run = PlaceSnapLoop(p, l, run)
  BY <1>2, LoopRuns
<1>4. f = PlaceSnapLoop(p, l, f)
  BY <1>3
<1>5. PlaceSnap(p, l) = f[N]
  BY PlaceSnapIsLoop
<1> HIDE DEF f, N
<1>6. f[0] = <<<<l, RowOf(p, l)>>>> /\ \A n \in 1 .. N : f[n] = Step("capture", <<p, l>>, f[n - 1], n)
  <2> DEFINE a == <<p, l>>
             x == <<<<l, RowOf(p, l)>>>>
  <2>1. Runs("capture", a, x, N, f)
    BY <1>2, <1>4
  <2> HIDE DEF a, x
  <2>2. f[0] = x /\ \A n \in 1 .. N : f[n] = Step("capture", a, f[n - 1], n)
    BY <2>1 DEF Runs, N
  <2> QED BY <2>2 DEF a, x
<1>7. \A n \in 1 .. N : f[n] = Captured(p, l, f[n - 1], p.sigils[n])
  BY <1>6 DEF Step
<1> QED BY <1>5, <1>6, <1>7 DEF N

(* Rebuild.                                                                *)
RebuildLoop(p, c, run) ==
    [n \in 0 .. Len(p.sigils) |->
        IF n = 0 THEN EmptySpace
        ELSE Once(run[n - 1], LAMBDA s : ReindexHull(s, p, c, n))]

LEMMA RebuildIsLoop ==
  ASSUME NEW p, NEW c
  PROVE  Rebuild(p, c) = (CHOOSE run : run = RebuildLoop(p, c, run))[Len(p.sigils)]
BY DEF Rebuild, RebuildLoop

LEMMA RebuildRuns ==
  ASSUME NEW p, NEW c, Len(p.sigils) \in Nat
  PROVE  \E run : /\ Rebuild(p, c) = run[Len(p.sigils)]
                  /\ run[0] = EmptySpace
                  /\ \A n \in 1 .. Len(p.sigils) : run[n] = ReindexHull(run[n - 1], p, c, n)
<1> DEFINE N == Len(p.sigils)
           f == CHOOSE run : run = RebuildLoop(p, c, run)
<1>1. ASSUME NEW x, NEW n
      PROVE  Once(x, LAMBDA s : ReindexHull(s, p, c, n)) = Step("index", <<p, c>>, x, n)
  <2> DEFINE y == ReindexHull(x, p, c, n)
  <2>1. {ReindexHull(v, p, c, n) : v \in {x}} = {y}
    OBVIOUS
  <2>2. y = Step("index", <<p, c>>, x, n)
    BY DEF Step
  <2> HIDE DEF y
  <2>3. (CHOOSE z \in {y} : TRUE) = y
    OBVIOUS
  <2> QED BY <2>1, <2>2, <2>3 DEF Once
<1>2. \A run : run = RebuildLoop(p, c, run) <=> Runs("index", <<p, c>>, EmptySpace, N, run)
  <2> TAKE run
  <2>1. RebuildLoop(p, c, run) =
          [n \in 0 .. N |-> IF n = 0 THEN EmptySpace ELSE Step("index", <<p, c>>, run[n - 1], n)]
    BY <1>1 DEF RebuildLoop
  <2> QED BY <2>1 DEF Runs
<1>3. \E run : run = RebuildLoop(p, c, run)
  BY <1>2, LoopRuns
<1>4. f = RebuildLoop(p, c, f)
  BY <1>3
<1>5. Rebuild(p, c) = f[N]
  BY RebuildIsLoop
<1> HIDE DEF f, N
<1>6. f[0] = EmptySpace /\ \A n \in 1 .. N : f[n] = Step("index", <<p, c>>, f[n - 1], n)
  <2> DEFINE a == <<p, c>>
             x == EmptySpace
  <2>1. Runs("index", a, x, N, f)
    BY <1>2, <1>4
  <2> HIDE DEF a, x
  <2>2. f[0] = x /\ \A n \in 1 .. N : f[n] = Step("index", a, f[n - 1], n)
    BY <2>1 DEF Runs, N
  <2> QED BY <2>2 DEF a, x
<1>7. \A n \in 1 .. N : f[n] = ReindexHull(f[n - 1], p, c, n)
  BY <1>6 DEF Step
<1> QED BY <1>5, <1>6, <1>7 DEF N

-----------------------------------------------------------------------------
(* What the operations do to the rows.                                     *)
LEMMA LociAreLoci ==
  ASSUME NEW p, Packed(p)
  PROVE  DOMAIN p.by \subseteq Loci /\ \A l \in DOMAIN p.by : p.by[l] \in Slots(p)
<1> SUFFICES ASSUME NEW l \in DOMAIN p.by PROVE l \in Loci /\ p.by[l] \in Slots(p)
  OBVIOUS
<1>1. p.by[l] \in Slots(p) /\ p.sigils[p.by[l]] = l /\ p.sigils \in Seq(Loci)
  BY DEF Packed, Tabled
<1> QED BY <1>1 DEF Slots

LEMMA RowsAreRows ==
  ASSUME NEW p, Packed(p), NEW l \in DOMAIN p.by
  PROVE  /\ RowsOf(p)[l] = At(p, p.by[l]) /\ RowOf(p, l) = At(p, p.by[l])
         /\ DOMAIN RowsOf(p) = DOMAIN p.by /\ IsRow(RowsOf(p)[l])
<1>1. RowsOf(p)[l] = At(p, p.by[l]) /\ DOMAIN RowsOf(p) = DOMAIN p.by
  BY RowsAreAt
<1>2. RowOf(p, l) = At(p, p.by[l])
  BY DEF RowOf, At, Fields
<1>3. IsRow(At(p, p.by[l]))
  BY LociAreLoci DEF Packed, Filled
<1> QED BY <1>1, <1>2, <1>3

LEMMA PushRows ==
  ASSUME NEW p, Packed(p), NEW l \in Loci \ DOMAIN p.by, NEW row, IsRow(row)
  PROVE  LET q == Push(p, l, row) IN
         /\ Packed(q) /\ DOMAIN q.by = DOMAIN p.by \cup {l}
         /\ RowsOf(q) = [m \in DOMAIN p.by \cup {l} |-> IF m = l THEN row ELSE RowsOf(p)[m]]
<1> DEFINE q == Push(p, l, row)
           n == Len(p.sigils) + 1
<1>1. /\ Packed(q) /\ q.by = [m \in DOMAIN p.by \cup {l} |-> IF m = l THEN n ELSE p.by[m]]
      /\ At(q, n) = row /\ \A i \in Slots(p) : At(q, i) = At(p, i)
  BY PushAt
<1> HIDE DEF q, n
<1>2. \A m \in DOMAIN q.by : At(q, q.by[m]) = IF m = l THEN row ELSE RowsOf(p)[m]
  BY <1>1, LociAreLoci, RowsAreRows
<1>3. RowsOf(q) = [m \in DOMAIN p.by \cup {l} |-> IF m = l THEN row ELSE RowsOf(p)[m]]
  BY <1>1, <1>2, RowsAreAt
<1> QED BY <1>1, <1>3 DEF q

(* A write to the row of l changes the row of l.                           *)
LEMMA RowsBut ==
  ASSUME NEW p, Packed(p), NEW q, Packed(q), q.by = p.by, NEW l \in DOMAIN p.by,
         \A j \in Slots(p) \ {p.by[l]} : At(q, j) = At(p, j)
  PROVE  RowsOf(q) = [m \in DOMAIN p.by |-> IF m = l THEN At(q, p.by[l]) ELSE RowsOf(p)[m]]
<1>1. \A m \in DOMAIN p.by \ {l} : p.by[m] \in Slots(p) \ {p.by[l]}
  BY DEF Packed, Tabled
<1>2. \A m \in DOMAIN p.by : At(q, p.by[m]) = IF m = l THEN At(q, p.by[l]) ELSE RowsOf(p)[m]
  BY <1>1, RowsAreRows
<1> QED BY <1>2, RowsAreAt

LEMMA OverwriteRows ==
  ASSUME NEW p, Packed(p), NEW l \in DOMAIN p.by, NEW row, IsRow(row)
  PROVE  LET q == Overwrite(p, l, row) IN
         /\ Packed(q) /\ q.by = p.by
         /\ RowsOf(q) = [m \in DOMAIN p.by |-> IF m = l THEN row ELSE RowsOf(p)[m]]
<1> DEFINE q == Overwrite(p, l, row)
<1>1. /\ Packed(q) /\ q.by = p.by /\ At(q, p.by[l]) = row
      /\ \A j \in Slots(p) \ {p.by[l]} : At(q, j) = At(p, j)
  BY OverwriteAt
<1> HIDE DEF q
<1>2. RowsOf(q) = [m \in DOMAIN p.by |-> IF m = l THEN At(q, p.by[l]) ELSE RowsOf(p)[m]]
  BY <1>1, RowsBut
<1> QED BY <1>1, <1>2 DEF q

LEMMA PutRowRows ==
  ASSUME NEW p, Packed(p), NEW e, e[1] \in Loci, IsRow(e[2])
  PROVE  LET q == PutRow(p, e) IN
         /\ Packed(q) /\ DOMAIN q.by = DOMAIN p.by \cup {e[1]}
         /\ \A m \in DOMAIN q.by : RowsOf(q)[m] = IF m = e[1] THEN e[2] ELSE RowsOf(p)[m]
<1> DEFINE l == e[1]
           row == e[2]
<1>1. l \in Loci /\ IsRow(row)
  OBVIOUS
<1> HIDE DEF l, row
<1>2. CASE l \in DOMAIN p.by
  <2> DEFINE q == Overwrite(p, l, row)
  <2>1. /\ Packed(q) /\ q.by = p.by
        /\ RowsOf(q) = [m \in DOMAIN p.by |-> IF m = l THEN row ELSE RowsOf(p)[m]]
    BY <1>1, <1>2, OverwriteRows
  <2>2. PutRow(p, e) = q
    BY <1>2 DEF PutRow, Has, l, row
  <2> HIDE DEF q
  <2>3. /\ Packed(q) /\ DOMAIN q.by = DOMAIN p.by \cup {l}
        /\ \A m \in DOMAIN q.by : RowsOf(q)[m] = IF m = l THEN row ELSE RowsOf(p)[m]
    BY <1>2, <2>1
  <2> QED BY <2>2, <2>3 DEF l, row
<1>3. CASE l \notin DOMAIN p.by
  <2> DEFINE q == Push(p, l, row)
  <2>1. /\ Packed(q) /\ DOMAIN q.by = DOMAIN p.by \cup {l}
        /\ RowsOf(q) = [m \in DOMAIN p.by \cup {l} |-> IF m = l THEN row ELSE RowsOf(p)[m]]
    BY <1>1, <1>3, PushRows
  <2>2. PutRow(p, e) = q
    BY <1>3 DEF PutRow, Has, l, row
  <2> HIDE DEF q
  <2>3. \A m \in DOMAIN q.by : RowsOf(q)[m] = IF m = l THEN row ELSE RowsOf(p)[m]
    BY <2>1
  <2> QED BY <2>1, <2>2, <2>3 DEF l, row
<1> QED BY <1>2, <1>3

(* No locus twice.                                                         *)
OneEach(list) == \A i, j \in DOMAIN list : list[i][1] = list[j][1] => i = j

LEMMA RowInList ==
  ASSUME NEW list, IsList(list), OneEach(list), NEW i \in DOMAIN list
  PROVE  /\ DOMAIN RowsIn(list) = LociOf(list) /\ list[i][1] \in LociOf(list)
         /\ RowsIn(list)[list[i][1]] = list[i][2]
<1> DEFINE l == list[i][1]
           e == CHOOSE e \in Range(list) : e[1] = l
<1>1. l \in LociOf(list) /\ DOMAIN RowsIn(list) = LociOf(list) /\ RowsIn(list)[l] = e[2]
  BY DEF LociOf, RowsIn
<1>2. Range(list) = {list[j] : j \in DOMAIN list}
  BY DEF Range
<1>3. list[i] \in Range(list) /\ list[i][1] = l
  BY <1>2
<1>4. e \in Range(list) /\ e[1] = l
  <2> HIDE DEF l
  <2> QED BY <1>3
<1> HIDE DEF e, l
<1>5. PICK j \in DOMAIN list : e = list[j]
  BY <1>2, <1>4
<1>6. j = i
  BY <1>4, <1>5 DEF OneEach, l
<1> QED BY <1>1, <1>5, <1>6 DEF l

LEMMA PutRowsRows ==
  ASSUME NEW p, Packed(p), NEW list, IsList(list)
  PROVE  LET q == PutRows(p, list) IN
         /\ Packed(q) /\ DOMAIN q.by = DOMAIN p.by \cup LociOf(list)
         /\ OneEach(list) =>
              RowsOf(q) = [l \in DOMAIN p.by \cup LociOf(list) |->
                              IF l \in LociOf(list) THEN RowsIn(list)[l] ELSE RowsOf(p)[l]]
<1> DEFINE q == PutRows(p, list)
           N == Len(list)
<1>1. N \in Nat /\ DOMAIN list = 1 .. N
      /\ \A i \in 1 .. N : list[i][1] \in Loci /\ IsRow(list[i][2])
  BY DEF IsList
<1>2. PICK f : q = f[N] /\ f[0] = p /\ \A n \in 1 .. N : f[n] = PutRow(f[n - 1], list[n])
  <2>1. Len(list) \in Nat
    BY DEF IsList
  <2>2. PICK run : PutRows(p, list) = run[Len(list)] /\ PutTurns(p, list, run)
    BY <2>1, PutRowsRuns
  <2> QED BY <2>2 DEF PutTurns
<1> HIDE DEF q, N
<1> DEFINE Old(l, n) == \A i \in 1 .. n : list[i][1] # l
           Ok(n) ==
             /\ Packed(f[n])
             /\ DOMAIN f[n].by = DOMAIN p.by \cup {list[i][1] : i \in 1 .. n}
             /\ \A l \in DOMAIN f[n].by : Old(l, n) => RowsOf(f[n])[l] = RowsOf(p)[l]
             /\ OneEach(list) => \A i \in 1 .. n : RowsOf(f[n])[list[i][1]] = list[i][2]
           S == {n \in 0 .. N : Ok(n)}
<1>3. Ok(0)
  BY <1>2
<1>4. ASSUME NEW n \in 1 .. N, Ok(n - 1) PROVE Ok(n)
  <2> DEFINE l == list[n][1]
  <2>1. f[n] = PutRow(f[n - 1], list[n]) /\ l \in Loci /\ IsRow(list[n][2])
    BY <1>1, <1>2
  <2>2. /\ Packed(f[n]) /\ DOMAIN f[n].by = DOMAIN f[n - 1].by \cup {l}
        /\ \A m \in DOMAIN f[n].by :
             RowsOf(f[n])[m] = IF m = l THEN list[n][2] ELSE RowsOf(f[n - 1])[m]
    BY <1>4, <2>1, PutRowRows
  <2>3. 1 .. n = 1 .. n - 1 \cup {n} /\ n \notin 1 .. n - 1 /\ 1 .. n \subseteq 1 .. N
    BY <1>1
  <2>4. DOMAIN f[n].by = DOMAIN p.by \cup {list[i][1] : i \in 1 .. n}
    <3>1. {list[i][1] : i \in 1 .. n} = {list[i][1] : i \in 1 .. n - 1} \cup {l}
      BY <2>3
    <3> QED BY <1>4, <2>2, <3>1
  <2>5. ASSUME NEW m \in DOMAIN f[n].by, Old(m, n) PROVE RowsOf(f[n])[m] = RowsOf(p)[m]
    <3>1. m # l /\ Old(m, n - 1)
      BY <2>3, <2>5
    <3>2. m \in DOMAIN f[n - 1].by
      BY <2>2, <3>1
    <3> QED BY <1>4, <2>2, <2>5, <3>1, <3>2
  <2>6. ASSUME OneEach(list), NEW i \in 1 .. n PROVE RowsOf(f[n])[list[i][1]] = list[i][2]
    <3>1. list[i][1] \in DOMAIN f[n].by
      BY <2>4
    <3>2. CASE i = n
      BY <2>2, <3>1, <3>2
    <3>3. CASE i # n
      <4>1. list[i][1] # l /\ i \in 1 .. n - 1
        BY <1>1, <2>3, <2>6, <3>3 DEF OneEach
      <4>2. RowsOf(f[n - 1])[list[i][1]] = list[i][2]
        BY <1>4, <2>6, <4>1
      <4> QED BY <2>2, <3>1, <4>1, <4>2
    <3> QED BY <3>2, <3>3
  <2> HIDE DEF Old
  <2> QED BY <2>2, <2>4, <2>5, <2>6
<1>5. \A n \in 0 .. N : Ok(n)
  <2>1. 0 \in S /\ \A n \in 1 .. N : n - 1 \in S => n \in S
    <3> HIDE DEF Ok
    <3> QED BY <1>1, <1>3, <1>4
  <2> HIDE DEF S
  <2>2. 0 .. N \subseteq S
    BY <1>1, <2>1, Throughout
  <2> QED BY <2>2 DEF S
<1>6. Packed(q) /\ DOMAIN q.by = DOMAIN p.by \cup LociOf(list)
  <2>1. {list[i][1] : i \in 1 .. N} = LociOf(list)
    BY <1>1 DEF LociOf
  <2>2. Ok(N)
    BY <1>1, <1>5
  <2> QED BY <1>2, <2>1, <2>2
<1>7. ASSUME OneEach(list)
      PROVE  RowsOf(q) = [l \in DOMAIN p.by \cup LociOf(list) |->
                             IF l \in LociOf(list) THEN RowsIn(list)[l] ELSE RowsOf(p)[l]]
  <2>1. ASSUME NEW l \in DOMAIN q.by
        PROVE  RowsOf(q)[l] = IF l \in LociOf(list) THEN RowsIn(list)[l] ELSE RowsOf(p)[l]
    <3>1. CASE l \in LociOf(list)
      <4>1. PICK i \in DOMAIN list : l = list[i][1]
        BY <3>1 DEF LociOf
      <4>2. RowsOf(q)[l] = list[i][2]
        BY <1>1, <1>2, <1>5, <1>7, <4>1
      <4> QED BY <1>7, <3>1, <4>1, <4>2, RowInList
    <3>2. CASE l \notin LociOf(list)
      <4>1. Old(l, N)
        BY <1>1, <3>2 DEF LociOf
      <4> HIDE DEF Old
      <4> QED BY <1>1, <1>2, <1>5, <3>2, <4>1
    <3> QED BY <3>1, <3>2
  <2>2. RowsOf(q) = [l \in DOMAIN q.by |-> RowsOf(q)[l]]
    BY RowsAreAt
  <2> QED BY <1>6, <2>1, <2>2
<1> QED BY <1>6, <1>7 DEF q

(* A row without its references to S.                                      *)
Shorn(row, S) ==
    [f \in Fields |->
        CASE f = "rels" -> {e \in row["rels"] : e[2] \notin S}
          [] f = "within" -> IF row["within"] \in S THEN None ELSE row["within"]
          [] OTHER -> row[f]]

LEMMA WithoutIsShorn ==
  ASSUME NEW row, row = [f \in Fields |-> row[f]], NEW S
  PROVE  Map!Without(row, S) = Shorn(row, S) /\ Scrubbed(row, S) = Shorn(row, S)
<1>1. "rels" \in Fields /\ "within" \in Fields
  BY DEF Fields, Cols, Maps
<1> DEFINE rels == {e \in row["rels"] : e[2] \notin S}
           within == IF row["within"] \in S THEN None ELSE row["within"]
<1>2. Map!Without(row, S) = [row EXCEPT !.rels = rels, !.within = within]
  BY DEF Map!Without
<1>3. Scrubbed(row, S) = [row EXCEPT !.rels = rels, !.within = within]
  BY DEF Scrubbed
<1>4. Shorn(row, S) = [f \in Fields |-> CASE f = "rels" -> rels [] f = "within" -> within
                                          [] OTHER -> row[f]]
  BY DEF Shorn
<1> HIDE DEF rels, within
<1>5. [row EXCEPT !.rels = rels, !.within = within] =
         [f \in Fields |-> CASE f = "rels" -> rels [] f = "within" -> within [] OTHER -> row[f]]
  BY <1>1
<1> QED BY <1>2, <1>3, <1>4, <1>5

(* strip_packed_maps and scrub_incoming_set.                               *)
LEMMA BaredAt ==
  ASSUME NEW p, Packed(p), NEW S, S \subseteq DOMAIN p.by
  PROVE  LET b == Bared(p, S) IN
         /\ Packed(b) /\ b.by = p.by /\ b.sigils = p.sigils
         /\ \A l \in S : \A m \in Maps : Item(b, m, p.by[l]) = {}
         /\ \A l \in DOMAIN p.by \ S : At(b, p.by[l]) = Shorn(At(p, p.by[l]), S)
<1> DEFINE b == Bared(p, S)
           D == {p.by[l] : l \in S}
           W(i) == IF p.cols["within"][i] \in S THEN None ELSE p.cols["within"][i]
           C == [c \in Cols |-> IF c = "within" THEN [i \in Slots(p) |-> W(i)] ELSE p.cols[c]]
           M == [m \in Maps |-> {e \in p.maps[m] : e[1] \notin D /\ (m = "rels" => e[2][2] \notin S)}]
<1>1. b = [by |-> p.by, sigils |-> p.sigils, cols |-> C, maps |-> M]
  <2> DEFINE K == Strip(p.maps, D)
             x == [p EXCEPT !.maps = K]
  <2>1. K = [m \in Maps |-> {e \in p.maps[m] : e[1] \notin D}]
    BY DEF Strip
  <2>2. x = [by |-> p.by, sigils |-> p.sigils, cols |-> p.cols, maps |-> K]
    <3> HIDE DEF K
    <3> QED BY DEF Packed, Shaped
  <2>3. b = [x EXCEPT !.maps["rels"] = {e \in @ : e[2][2] \notin S},
                      !.cols["within"] = [i \in DOMAIN @ |-> IF @[i] \in S THEN None ELSE @[i]]]
    BY DEF Bared, Scrub
  <2> HIDE DEF x, b
  <2> DEFINE R == [K EXCEPT !["rels"] = {e \in @ : e[2][2] \notin S}]
             V == [p.cols EXCEPT !["within"] =
                      [i \in DOMAIN @ |-> IF @[i] \in S THEN None ELSE @[i]]]
  <2>4. b = [by |-> p.by, sigils |-> p.sigils, cols |-> V, maps |-> R]
    <3> HIDE DEF K
    <3> QED BY <2>2, <2>3
  <2>5. R = M
    <3>1. "rels" \in Maps
      BY DEF Maps
    <3> HIDE DEF D
    <3> QED BY <2>1, <3>1
  <2>6. V = C
    <3>1. "within" \in Cols /\ p.cols = [c \in Cols |-> p.cols[c]]
      BY DEF Cols, Packed, Shaped
    <3>2. p.cols["within"] = [i \in Slots(p) |-> p.cols["within"][i]]
      BY <3>1 DEF Packed, Parallel
    <3> QED BY <3>1, <3>2
  <2> HIDE DEF V, R, C, M
  <2> QED BY <2>4, <2>5, <2>6
<1> HIDE DEF b, C, M
<1>2. /\ b.by = p.by /\ b.sigils = p.sigils /\ b.cols = C /\ b.maps = M
      /\ Slots(b) = Slots(p)
  BY <1>1 DEF Slots
<1>3. Shaped(b)
  BY <1>1, <1>2 DEF Packed, Shaped, C, M
<1>4. Tabled(b)
  BY <1>2 DEF Packed, Tabled
<1>5. Parallel(b)
  <2> SUFFICES ASSUME NEW c \in Cols PROVE C[c] = [i \in Slots(p) |-> C[c][i]]
    BY <1>2 DEF Parallel
  <2>1. CASE c = "within"
    BY <2>1 DEF C
  <2>2. CASE c # "within"
    BY <2>2 DEF C, Packed, Parallel
  <2> QED BY <2>1, <2>2
<1>6. \A m \in Maps : M[m] = {e \in p.maps[m] : e[1] \notin D /\ (m = "rels" => e[2][2] \notin S)}
  BY DEF M
<1>7. Anchored(b)
  <2> SUFFICES ASSUME NEW m \in Maps, NEW e \in M[m]
               PROVE e[1] \in Slots(p) /\ e = <<e[1], e[2]>>
    BY <1>2 DEF Anchored
  <2>1. e \in p.maps[m]
    BY <1>6
  <2> QED BY <2>1 DEF Packed, Anchored
<1>8. ASSUME NEW m \in Maps, NEW i \in Slots(p)
      PROVE  Item(b, m, i) = IF i \in D THEN {}
                             ELSE IF m = "rels" THEN {e \in Item(p, m, i) : e[2] \notin S}
                             ELSE Item(p, m, i)
  <2> HIDE DEF D
  <2>1. CASE i \in D
    <3>1. {x \in b.maps[m] : x[1] = i} = {}
      BY <1>2, <1>6, <2>1
    <3> QED BY <2>1, <3>1 DEF Item
  <2>2. CASE i \notin D /\ m = "rels"
    <3>1. {x \in b.maps[m] : x[1] = i} = {x \in p.maps[m] : x[1] = i /\ x[2][2] \notin S}
      BY <1>2, <1>6, <2>2
    <3>2. {e[2] : e \in {x \in p.maps[m] : x[1] = i /\ x[2][2] \notin S}}
            = {e \in {y[2] : y \in {x \in p.maps[m] : x[1] = i}} : e[2] \notin S}
      OBVIOUS
    <3> QED BY <2>2, <3>1, <3>2 DEF Item
  <2>3. CASE i \notin D /\ m # "rels"
    <3>1. {x \in b.maps[m] : x[1] = i} = {x \in p.maps[m] : x[1] = i}
      BY <1>2, <1>6, <2>3
    <3> QED BY <2>3, <3>1 DEF Item
  <2> QED BY <2>1, <2>2, <2>3
<1>9. ASSUME NEW c \in Cols, NEW i \in Slots(p)
      PROVE  b.cols[c][i] = IF c = "within" THEN W(i) ELSE p.cols[c][i]
  BY <1>2 DEF C
<1>10. \A i \in Slots(p) : IsRow(At(b, i))
  <2> TAKE i \in Slots(p)
  <2>1. IsRow(At(p, i))
    BY DEF Packed, Filled
  <2>2. "hull" \in Cols /\ "pose" \in Cols /\ "hull" # "within" /\ "pose" # "within"
    BY DEF Cols
  <2>3. At(b, i)["hull"] = At(p, i)["hull"] /\ At(b, i)["pose"] = At(p, i)["pose"]
    BY <1>9, <2>2, AtFields
  <2>4. At(b, i) = [f \in Fields |-> At(b, i)[f]]
    BY AtFields
  <2> QED BY <2>1, <2>3, <2>4 DEF IsRow, Fields
<1>11. Packed(b)
  BY <1>2, <1>3, <1>4, <1>5, <1>7, <1>10 DEF Packed, Filled
<1>12. \A l \in S : \A m \in Maps : Item(b, m, p.by[l]) = {}
  <2> SUFFICES ASSUME NEW l \in S, NEW m \in Maps PROVE Item(b, m, p.by[l]) = {}
    OBVIOUS
  <2>1. p.by[l] \in Slots(p) /\ p.by[l] \in D
    BY LociAreLoci
  <2> QED BY <1>8, <2>1
<1>13. ASSUME NEW l \in DOMAIN p.by \ S PROVE At(b, p.by[l]) = Shorn(At(p, p.by[l]), S)
  <2> DEFINE i == p.by[l]
             old == At(p, i)
             row == Shorn(old, S)
  <2>1. i \in Slots(p)
    BY LociAreLoci
  <2>2. i \notin D
    <3> SUFFICES ASSUME NEW k \in S PROVE p.by[k] # i
      OBVIOUS
    <3>1. p.sigils[p.by[k]] = k /\ p.sigils[i] = l /\ k # l
      BY DEF Packed, Tabled
    <3> QED BY <3>1
  <2> HIDE DEF i, D
  <2>3. /\ \A f \in Cols : old[f] = p.cols[f][i]
        /\ \A f \in Maps : old[f] = Item(p, f, i)
    BY AtFields
  <2> HIDE DEF old
  <2>4. row = [f \in Fields |-> row[f]]
    BY DEF Shorn
  <2>5. \A f \in Fields : row[f] = CASE f = "rels" -> {e \in old["rels"] : e[2] \notin S}
                   [] f = "within" -> IF old["within"] \in S THEN None ELSE old["within"]
                   [] OTHER -> old[f]
    BY DEF Shorn
  <2> HIDE DEF row
  <2>6. "within" \in Cols /\ "within" \notin Maps /\ "rels" \in Maps /\ "rels" \notin Cols
    BY DEF Cols, Maps
  <2>7. ASSUME NEW f \in Cols PROVE b.cols[f][i] = row[f]
    BY <1>9, <2>1, <2>3, <2>5, <2>6, FieldFacts
  <2>8. ASSUME NEW f \in Maps PROVE Item(b, f, i) = row[f]
    BY <1>8, <2>1, <2>2, <2>3, <2>5, <2>6, FieldFacts
  <2>9. At(b, i) = row
    BY <2>4, <2>7, <2>8, AtIs
  <2> QED BY <2>9 DEF row, old, i
<1> QED BY <1>2, <1>11, <1>12, <1>13 DEF b

(* drop_loci: the rows outside S stay, shorn of S.                         *)
LEMMA DropLociRows ==
  ASSUME NEW p, Packed(p), NEW S, S \subseteq DOMAIN p.by
  PROVE  LET q == DropLoci(p, S) IN
         /\ Packed(q) /\ DOMAIN q.by = DOMAIN p.by \ S
         /\ RowsOf(q) = [l \in DOMAIN p.by \ S |-> Shorn(RowsOf(p)[l], S)]
<1> DEFINE q == DropLoci(p, S)
           b == Bared(p, S)
           N == Len(p.sigils)
           At0(n) == p.sigils[N + 1 - n]
<1>1. N \in Nat /\ Slots(p) = 1 .. N
  BY DEF Packed, Tabled, Slots
<1>2. PICK f : q = f[N] /\ f[0] = b /\ \A n \in 1 .. N : f[n] = DropIf(f[n - 1], At0(n), S)
  <2>1. Len(p.sigils) \in Nat
    BY <1>1
  <2>2. \E f : /\ DropLoci(p, S) = f[Len(p.sigils)]
               /\ f[0] = Bared(p, S)
               /\ \A n \in 1 .. Len(p.sigils) :
                    f[n] = DropIf(f[n - 1], p.sigils[Len(p.sigils) + 1 - n], S)
    BY <2>1, DropLociRuns
  <2> QED BY <2>2
<1>3. /\ Packed(b) /\ b.by = p.by /\ b.sigils = p.sigils
      /\ \A l \in S : \A m \in Maps : Item(b, m, p.by[l]) = {}
      /\ \A l \in DOMAIN p.by \ S : At(b, p.by[l]) = Shorn(At(p, p.by[l]), S)
  BY BaredAt
<1>4. /\ \A i \in 1 .. N : p.sigils[i] \in DOMAIN p.by /\ p.by[p.sigils[i]] = i
      /\ \A l \in DOMAIN p.by : p.by[l] \in 1 .. N /\ p.sigils[p.by[l]] = l
  BY <1>1 DEF Packed, Tabled
<1> HIDE DEF q, b, N
<1> DEFINE Gone(n) == {l \in S : p.by[l] > N - n}
           Ok(n) == /\ Packed(f[n]) /\ DOMAIN f[n].by = DOMAIN p.by \ Gone(n)
                    /\ \A l \in DOMAIN f[n].by : At(f[n], f[n].by[l]) = At(b, p.by[l])
           T == {n \in 0 .. N : Ok(n)}
<1>5. Ok(0)
  <2>1. Gone(0) = {}
    BY <1>1, <1>4
  <2> HIDE DEF Gone
  <2> QED BY <1>2, <1>3, <2>1
<1>6. ASSUME NEW n \in 1 .. N, Ok(n - 1) PROVE Ok(n)
  <2> DEFINE l == At0(n)
             g == f[n - 1]
  <2>1. N + 1 - n \in 1 .. N
    BY <1>1
  <2>2. l \in DOMAIN p.by /\ p.by[l] = N + 1 - n /\ f[n] = DropIf(g, l, S)
    BY <1>2, <1>4, <2>1
  <2>3. Packed(g) /\ DOMAIN g.by = DOMAIN p.by \ Gone(n - 1)
        /\ \A m \in DOMAIN g.by : At(g, g.by[m]) = At(b, p.by[m])
    BY <1>6
  <2>4. Gone(n) = Gone(n - 1) \cup ({l} \cap S) /\ l \notin Gone(n - 1)
    <3>1. \A m \in S : p.by[m] > N - n <=> (p.by[m] > N - (n - 1) \/ m = l)
      <4> TAKE m \in S
      <4>1. p.by[m] \in 1 .. N /\ p.sigils[p.by[m]] = m
        BY <1>4
      <4>2. p.sigils[N + 1 - n] = l
        OBVIOUS
      <4> HIDE DEF l
      <4>3. p.by[m] = N + 1 - n <=> m = l
        BY <2>2, <4>1, <4>2
      <4> QED BY <1>1, <4>1, <4>3
    <3> HIDE DEF l
    <3>2. ~(p.by[l] > N - (n - 1))
      BY <1>1, <2>2
    <3> QED BY <3>1, <3>2
  <2> HIDE DEF l, g, Gone
  <2>5. CASE l \notin S
    <3>1. f[n] = g /\ Gone(n) = Gone(n - 1)
      BY <2>2, <2>4, <2>5 DEF DropIf
    <3> QED BY <2>3, <3>1
  <2>6. CASE l \in S
    <3>1. f[n] = SwapOut(g, l) /\ Gone(n) = Gone(n - 1) \cup {l}
      BY <2>2, <2>4, <2>6 DEF DropIf
    <3>2. l \in DOMAIN g.by
      BY <2>2, <2>3, <2>4
    <3>3. ASSUME NEW m \in Maps PROVE Item(g, m, g.by[l]) = {}
      <4>1. At(g, g.by[l])[m] = Item(g, m, g.by[l]) /\ At(b, p.by[l])[m] = Item(b, m, p.by[l])
        BY AtFields
      <4> QED BY <1>3, <2>3, <2>6, <3>2, <4>1
    <3> DEFINE h == SwapOut(g, l)
    <3>4. /\ Packed(h) /\ DOMAIN h.by = DOMAIN g.by \ {l}
          /\ \A m \in DOMAIN h.by : At(h, h.by[m]) = At(g, g.by[m])
      BY <2>3, <3>2, <3>3, SwapOutAt
    <3> HIDE DEF h
    <3>5. f[n] = h
      BY <3>1 DEF h
    <3>6. DOMAIN h.by = DOMAIN p.by \ Gone(n)
      BY <2>3, <3>1, <3>4
    <3>7. \A m \in DOMAIN h.by : At(h, h.by[m]) = At(b, p.by[m])
      BY <2>3, <3>4
    <3> QED BY <3>4, <3>5, <3>6, <3>7
  <2> QED BY <2>5, <2>6
<1>7. Ok(N)
  <2>1. 0 \in T /\ \A n \in 1 .. N : n - 1 \in T => n \in T
    <3> HIDE DEF Ok
    <3> QED BY <1>1, <1>5, <1>6
  <2> HIDE DEF T
  <2>2. 0 .. N \subseteq T
    BY <1>1, <2>1, Throughout
  <2>3. N \in 0 .. N
    BY <1>1
  <2> QED BY <2>2, <2>3 DEF T
<1>8. Gone(N) = S
  BY <1>1, <1>4
<1> HIDE DEF Gone
<1>9. Packed(q) /\ DOMAIN q.by = DOMAIN p.by \ S
      /\ \A l \in DOMAIN q.by : At(q, q.by[l]) = At(b, p.by[l])
  BY <1>2, <1>7, <1>8
<1>10. \A l \in DOMAIN p.by \ S : At(q, q.by[l]) = Shorn(RowsOf(p)[l], S)
  BY <1>3, <1>9, RowsAreRows
<1>11. RowsOf(q) = [l \in DOMAIN p.by \ S |-> Shorn(RowsOf(p)[l], S)]
  BY <1>9, <1>10, RowsAreAt
<1> QED BY <1>9, <1>11 DEF q

(* The members of a Place and who goes with it, in terms of rows.          *)
InPlace(rows, l) == {l} \cup {m \in DOMAIN rows : rows[m].within = l}
HostsIn(rows, m) == {e[2] : e \in {x \in rows[m].rels : x[1] \in Carriers}}

LEMMA MembersAreRows ==
  ASSUME NEW p, Packed(p), NEW l
  PROVE  /\ PlaceMembers(p, l) = InPlace(RowsOf(p), l) \ {l}
         /\ \A m \in DOMAIN p.by : HostsOf(p, m) = HostsIn(RowsOf(p), m)
         /\ EvictPlan(p, l) = {m \in InPlace(RowsOf(p), l) \ {l} :
                                 HostsIn(RowsOf(p), m) \subseteq InPlace(RowsOf(p), l)}
<1> DEFINE rows == RowsOf(p)
<1>1. DOMAIN rows = DOMAIN p.by
  BY RowsAreAt
<1>2. ASSUME NEW m \in DOMAIN p.by
      PROVE  rows[m].within = p.cols["within"][p.by[m]] /\ rows[m].rels = Item(p, "rels", p.by[m])
  <2>1. "within" \in Cols /\ "rels" \in Maps
    BY DEF Cols, Maps
  <2>2. rows[m] = At(p, p.by[m])
    BY RowsAreRows
  <2> HIDE DEF rows
  <2> QED BY <2>1, <2>2, AtFields
<1> HIDE DEF rows
<1>3. PlaceMembers(p, l) = InPlace(rows, l) \ {l}
  BY <1>1, <1>2 DEF PlaceMembers, InPlace
<1>4. \A m \in DOMAIN p.by : HostsOf(p, m) = HostsIn(rows, m)
  BY <1>2 DEF HostsOf, HostsIn
<1>5. InPlace(rows, l) = (InPlace(rows, l) \ {l}) \cup {l}
  BY DEF InPlace
<1>6. InPlace(rows, l) \ {l} \subseteq DOMAIN p.by
  BY <1>1 DEF InPlace
<1>7. EvictPlan(p, l) = {m \in InPlace(rows, l) \ {l} : HostsIn(rows, m) \subseteq InPlace(rows, l)}
  BY <1>3, <1>4, <1>5, <1>6 DEF EvictPlan
<1> QED BY <1>3, <1>4, <1>7 DEF rows

(* A list whose entries all say what rows says.                            *)
LEMMA RowsInAre ==
  ASSUME NEW list, NEW rows, \A i \in DOMAIN list : list[i][2] = rows[list[i][1]]
  PROVE  RowsIn(list) = [m \in LociOf(list) |-> rows[m]]
<1> SUFFICES ASSUME NEW m \in LociOf(list)
             PROVE  (CHOOSE e \in Range(list) : e[1] = m)[2] = rows[m]
  BY DEF RowsIn
<1> DEFINE e == CHOOSE e \in Range(list) : e[1] = m
<1>1. Range(list) = {list[j] : j \in DOMAIN list}
  BY DEF Range
<1>2. PICK i \in DOMAIN list : list[i][1] = m
  BY DEF LociOf
<1>3. e \in Range(list) /\ e[1] = m
  BY <1>1, <1>2
<1> HIDE DEF e
<1>4. e[2] = rows[m]
  BY <1>1, <1>3
<1> QED BY <1>4 DEF e

(* capture_place: the Place and its members, as they are.                  *)
LEMMA PlaceSnapRows ==
  ASSUME NEW p, Packed(p), NEW l \in DOMAIN p.by
  PROVE  LET list == PlaceSnap(p, l) IN
         /\ IsList(list) /\ LociOf(list) = InPlace(RowsOf(p), l)
         /\ RowsIn(list) = [m \in InPlace(RowsOf(p), l) |-> RowsOf(p)[m]]
<1> DEFINE s == PlaceSnap(p, l)
           rows == RowsOf(p)
           N == Len(p.sigils)
           P == PlaceMembers(p, l)
<1>1. N \in Nat /\ Slots(p) = 1 .. N
  BY DEF Packed, Tabled, Slots
<1>2. PICK f : /\ s = f[N] /\ f[0] = <<<<l, rows[l]>>>>
               /\ \A n \in 1 .. N : f[n] = Captured(p, l, f[n - 1], p.sigils[n])
  <2>1. Len(p.sigils) \in Nat
    BY <1>1
  <2>2. \E f : /\ PlaceSnap(p, l) = f[Len(p.sigils)]
               /\ f[0] = <<<<l, RowOf(p, l)>>>>
               /\ \A n \in 1 .. Len(p.sigils) : f[n] = Captured(p, l, f[n - 1], p.sigils[n])
    BY <2>1, PlaceSnapRuns
  <2>3. RowOf(p, l) = rows[l]
    BY RowsAreRows
  <2> QED BY <2>2, <2>3
<1>3. /\ \A i \in 1 .. N : p.sigils[i] \in DOMAIN p.by /\ p.by[p.sigils[i]] = i
      /\ \A m \in DOMAIN p.by : p.by[m] \in 1 .. N /\ p.sigils[p.by[m]] = m
  BY <1>1 DEF Packed, Tabled
<1>4. P = InPlace(rows, l) \ {l} /\ InPlace(rows, l) \subseteq DOMAIN p.by
  <2>1. P = InPlace(rows, l) \ {l}
    BY MembersAreRows
  <2>2. P \subseteq DOMAIN p.by
    BY DEF PlaceMembers
  <2> HIDE DEF P, rows
  <2> QED BY <2>1, <2>2
<1>5. /\ DOMAIN p.by \subseteq Loci
      /\ \A m \in DOMAIN p.by : IsRow(rows[m]) /\ RowOf(p, m) = rows[m]
  BY LociAreLoci, RowsAreRows
<1> HIDE DEF s, rows, N, P
<1> DEFINE Till(n) == {l} \cup {m \in P : p.by[m] <= n}
           Ok(n) == /\ IsList(f[n]) /\ LociOf(f[n]) = Till(n)
                    /\ \A i \in DOMAIN f[n] : f[n][i][2] = rows[f[n][i][1]]
           T == {n \in 0 .. N : Ok(n)}
<1>6. Ok(0)
  <2> DEFINE list == <<<<l, rows[l]>>>>
  <2>1. Len(list) = 1 /\ list[1] = <<l, rows[l]>> /\ DOMAIN list = 1 .. 1
    OBVIOUS
  <2>2. list = [i \in 1 .. 1 |-> <<list[i][1], list[i][2]>>]
    OBVIOUS
  <2> HIDE DEF list
  <2>3. IsList(list) /\ LociOf(list) = {l} /\ \A i \in DOMAIN list : list[i][2] = rows[list[i][1]]
    <3>1. 1 .. 1 = {1}
      OBVIOUS
    <3>2. l \in Loci /\ IsRow(rows[l])
      BY <1>5
    <3> QED BY <2>1, <2>2, <3>1, <3>2 DEF IsList, LociOf
  <2>4. Till(0) = {l}
    <3>1. \A m \in P : p.by[m] \in 1 .. N
      BY <1>3, <1>4
    <3> QED BY <1>1, <3>1
  <2>5. f[0] = list
    BY <1>2 DEF list
  <2> HIDE DEF Till
  <2> QED BY <2>3, <2>4, <2>5
<1>7. ASSUME NEW n \in 1 .. N, Ok(n - 1) PROVE Ok(n)
  <2> DEFINE m == p.sigils[n]
             g == f[n - 1]
  <2>1. m \in DOMAIN p.by /\ p.by[m] = n /\ f[n] = Captured(p, l, g, m)
    BY <1>2, <1>3
  <2>2. IsList(g) /\ LociOf(g) = Till(n - 1) /\ \A i \in DOMAIN g : g[i][2] = rows[g[i][1]]
    BY <1>7
  <2>3. Till(n) = Till(n - 1) \cup ({m} \cap P)
    <3>1. ASSUME NEW k \in P PROVE p.by[k] <= n <=> (p.by[k] <= n - 1 \/ k = m)
      <4>1. p.by[k] \in 1 .. N /\ (p.by[k] = n <=> k = m)
        BY <1>3, <1>4, <2>1
      <4> QED BY <1>1, <4>1
    <3> HIDE DEF m
    <3> QED BY <3>1
  <2> HIDE DEF m, g, Till
  <2>4. CASE m \notin P
    <3>1. f[n] = g /\ Till(n) = Till(n - 1)
      BY <2>1, <2>3, <2>4 DEF Captured, P
    <3> QED BY <2>2, <3>1
  <2>5. CASE m \in P
    <3> DEFINE k == Len(g)
               e == <<m, rows[m]>>
               h == Append(g, e)
    <3>1. f[n] = h
      BY <1>5, <2>1, <2>5 DEF Captured, P
    <3>2. k \in Nat /\ g = [i \in 1 .. k |-> <<g[i][1], g[i][2]>>]
          /\ \A i \in 1 .. k : g[i][1] \in Loci /\ IsRow(g[i][2])
      BY <2>2 DEF IsList
    <3> HIDE DEF k, e
    <3>3. g = [i \in 1 .. k |-> g[i]]
      BY <3>2
    <3>4. h = [i \in 1 .. k + 1 |-> IF i = k + 1 THEN e ELSE g[i]] /\ Len(h) = k + 1
      BY <3>2, <3>3, Appended
    <3>5. e = <<e[1], e[2]>> /\ e[1] = m /\ e[2] = rows[m] /\ m \in Loci /\ IsRow(rows[m])
      BY <1>5, <2>1 DEF e
    <3> HIDE DEF h
    <3>6. /\ DOMAIN h = 1 .. k + 1 /\ h[k + 1] = e
          /\ \A i \in 1 .. k : h[i] = g[i] /\ h[i] = <<g[i][1], g[i][2]>>
      BY <3>2, <3>4
    <3>7. \A i \in 1 .. k + 1 : h[i] = <<h[i][1], h[i][2]>>
      <4> TAKE i \in 1 .. k + 1
      <4>1. CASE i = k + 1
        BY <3>5, <3>6, <4>1
      <4>2. CASE i # k + 1
        <5>1. i \in 1 .. k
          BY <3>2, <4>2
        <5> QED BY <3>6, <5>1
      <4> QED BY <4>1, <4>2
    <3>8. IsList(h)
      <4>1. \A i \in 1 .. k + 1 : h[i][1] \in Loci /\ IsRow(h[i][2])
        <5> TAKE i \in 1 .. k + 1
        <5>1. CASE i = k + 1
          BY <3>5, <3>6, <5>1
        <5>2. CASE i # k + 1
          <6>1. i \in 1 .. k
            BY <3>2, <5>2
          <6> QED BY <3>2, <3>6, <6>1
        <5> QED BY <5>1, <5>2
      <4>2. h = [i \in 1 .. k + 1 |-> h[i]]
        BY <3>4
      <4>3. h = [i \in 1 .. k + 1 |-> <<h[i][1], h[i][2]>>]
        BY <3>7, <4>2
      <4> DEFINE n0 == Len(h)
      <4>4. n0 = k + 1 /\ n0 \in Nat
        BY <3>2, <3>4
      <4> HIDE DEF n0
      <4>5. h = [i \in 1 .. n0 |-> <<h[i][1], h[i][2]>>]
            /\ \A i \in 1 .. n0 : h[i][1] \in Loci /\ IsRow(h[i][2])
        BY <4>1, <4>3, <4>4
      <4> QED BY <4>4, <4>5 DEF IsList, n0
    <3>9. LociOf(h) = LociOf(g) \cup {m}
      <4>1. 1 .. k + 1 = 1 .. k \cup {k + 1} /\ DOMAIN g = 1 .. k
        BY <3>2
      <4> QED BY <3>5, <3>6, <4>1 DEF LociOf
    <3>10. \A i \in DOMAIN h : h[i][2] = rows[h[i][1]]
      <4> TAKE i \in DOMAIN h
      <4>1. CASE i = k + 1
        BY <3>5, <3>6, <4>1
      <4>2. CASE i # k + 1
        <5>1. i \in 1 .. k /\ DOMAIN g = 1 .. k
          BY <3>2, <3>6, <4>2
        <5> QED BY <2>2, <3>6, <5>1
      <4> QED BY <4>1, <4>2
    <3> QED BY <2>2, <2>3, <2>5, <3>1, <3>8, <3>9, <3>10
  <2> QED BY <2>4, <2>5
<1>8. Ok(N)
  <2>1. 0 \in T /\ \A n \in 1 .. N : n - 1 \in T => n \in T
    <3> HIDE DEF Ok
    <3> QED BY <1>1, <1>6, <1>7
  <2> HIDE DEF T
  <2>2. 0 .. N \subseteq T
    BY <1>1, <2>1, Throughout
  <2>3. N \in 0 .. N
    BY <1>1
  <2> QED BY <2>2, <2>3 DEF T
<1>9. Till(N) = InPlace(rows, l)
  <2>1. \A m \in P : p.by[m] <= N
    BY <1>1, <1>3, <1>4
  <2>2. l \in InPlace(rows, l)
    BY DEF InPlace
  <2> QED BY <1>4, <2>1, <2>2
<1> HIDE DEF Till
<1>10. IsList(s) /\ LociOf(s) = InPlace(rows, l) /\ \A i \in DOMAIN s : s[i][2] = rows[s[i][1]]
  BY <1>2, <1>8, <1>9
<1>11. RowsIn(s) = [m \in InPlace(rows, l) |-> rows[m]]
  BY <1>10, RowsInAre
<1> QED BY <1>10, <1>11 DEF s, rows

(* remap_epoch.                                                            *)
LEMMA RemapEpochRows ==
  ASSUME NEW p, Packed(p), NEW c, NEW d
  PROVE  LET q == RemapEpoch(p, c, d) IN
         /\ Packed(q) /\ q.by = p.by
         /\ RowsOf(q) = [l \in DOMAIN p.by |-> Carried(c, d, RowsOf(p)[l])]
<1> DEFINE q == RemapEpoch(p, c, d)
           A == [i \in Slots(p) |-> CarriedOver("afford", c, d, p.cols["afford"][i])]
           C == [f \in Cols |-> IF f = "afford" THEN A ELSE p.cols[f]]
           K(m, i) == CarriedOver(m, c, d, Item(p, m, i))
           M == [m \in Maps |-> UNION {{<<i, e>> : e \in K(m, i)} : i \in Slots(p)}]
<1>1. q = [by |-> p.by, sigils |-> p.sigils, cols |-> C, maps |-> M]
  <2>1. Ixs(p) = Slots(p)
    BY DEF Ixs, Slots, Packed, Tabled
  <2> DEFINE V == [p.cols EXCEPT !["afford"] = [i \in DOMAIN @ |-> CarriedOver("afford", c, d, @[i])]]
             M0 == [m \in Maps |-> UNION {{<<i, e>> : e \in K(m, i)} : i \in Ixs(p)}]
  <2>2. q = [p EXCEPT !.cols = V, !.maps = M0]
    BY DEF RemapEpoch, Packed, Shaped
  <2>3. V = C
    <3>1. "afford" \in Cols /\ p.cols = [f \in Cols |-> p.cols[f]]
      BY DEF Cols, Packed, Shaped
    <3>2. p.cols["afford"] = [i \in Slots(p) |-> p.cols["afford"][i]]
      BY <3>1 DEF Packed, Parallel
    <3> QED BY <3>1, <3>2
  <2>4. M0 = M
    BY <2>1
  <2> HIDE DEF q, V, C, M0, M
  <2>5. q = [by |-> p.by, sigils |-> p.sigils, cols |-> V, maps |-> M0]
    BY <2>2 DEF Packed, Shaped
  <2> QED BY <2>3, <2>4, <2>5
<1> HIDE DEF q, C, M
<1>2. /\ q.by = p.by /\ q.sigils = p.sigils /\ q.cols = C /\ q.maps = M /\ Slots(q) = Slots(p)
  BY <1>1 DEF Slots
<1>3. Shaped(q)
  BY <1>1, <1>2 DEF Packed, Shaped, C, M
<1>4. Tabled(q)
  BY <1>2 DEF Packed, Tabled
<1>5. Parallel(q)
  <2> SUFFICES ASSUME NEW f \in Cols PROVE C[f] = [i \in Slots(p) |-> C[f][i]]
    BY <1>2 DEF Parallel
  <2>1. CASE f = "afford"
    BY <2>1 DEF C
  <2>2. CASE f # "afford"
    BY <2>2 DEF C, Packed, Parallel
  <2> QED BY <2>1, <2>2
<1>6. Anchored(q)
  <2> SUFFICES ASSUME NEW m \in Maps, NEW e \in M[m]
               PROVE e[1] \in Slots(p) /\ e = <<e[1], e[2]>>
    BY <1>2 DEF Anchored
  <2>1. PICK i \in Slots(p) : e \in {<<i, x>> : x \in K(m, i)}
    BY DEF M
  <2> HIDE DEF K
  <2> QED BY <2>1
<1>7. ASSUME NEW m \in Maps, NEW i \in Slots(p) PROVE Item(q, m, i) = K(m, i)
  <2> HIDE DEF K
  <2>1. {x \in M[m] : x[1] = i} = {<<i, x>> : x \in K(m, i)}
    <3>1. M[m] = UNION {{<<j, x>> : x \in K(m, j)} : j \in Slots(p)}
      BY DEF M
    <3>2. ASSUME NEW x \in M[m], x[1] = i PROVE x \in {<<i, y>> : y \in K(m, i)}
      <4>1. PICK j \in Slots(p) : x \in {<<j, y>> : y \in K(m, j)}
        BY <3>1, <3>2
      <4>2. j = i
        BY <3>2, <4>1
      <4> QED BY <4>1, <4>2
    <3>3. ASSUME NEW y \in K(m, i) PROVE <<i, y>> \in M[m]
      BY <3>1
    <3> QED BY <3>2, <3>3
  <2>2. {e[2] : e \in {<<i, x>> : x \in K(m, i)}} = K(m, i)
    <3>1. \A x \in K(m, i) : <<i, x>> \in {<<i, y>> : y \in K(m, i)} /\ <<i, x>>[2] = x
      OBVIOUS
    <3>2. \A e \in {<<i, y>> : y \in K(m, i)} : e[2] \in K(m, i)
      OBVIOUS
    <3> QED BY <3>1, <3>2
  <2> QED BY <1>2, <2>1, <2>2 DEF Item
<1>8. ASSUME NEW i \in Slots(p) PROVE At(q, i) = Carried(c, d, At(p, i)) /\ IsRow(At(q, i))
  <2> DEFINE old == At(p, i)
             row == Carried(c, d, old)
  <2>1. /\ old = [f \in Fields |-> old[f]]
        /\ \A f \in Cols : old[f] = p.cols[f][i]
        /\ \A f \in Maps : old[f] = Item(p, f, i)
    BY AtFields
  <2>2. row = [f \in DOMAIN old |->
                 IF f \in Maps \cup {"afford"} THEN CarriedOver(f, c, d, old[f]) ELSE old[f]]
    BY DEF Carried
  <2>3. IsRow(old)
    BY DEF Packed, Filled
  <2> HIDE DEF old, row
  <2>4. row = [f \in Fields |->
                 IF f \in Maps \cup {"afford"} THEN CarriedOver(f, c, d, old[f]) ELSE old[f]]
    BY <2>1, <2>2
  <2>5. "afford" \in Cols /\ "hull" \in Cols /\ "pose" \in Cols /\ "hull" # "afford" /\ "pose" # "afford"
    BY DEF Cols
  <2>6. ASSUME NEW f \in Cols PROVE q.cols[f][i] = row[f]
    <3>1. CASE f = "afford"
      <4>1. q.cols[f][i] = CarriedOver("afford", c, d, p.cols["afford"][i])
        BY <1>2, <3>1 DEF C
      <4> QED BY <2>1, <2>4, <2>5, <3>1, <4>1, FieldFacts
    <3>2. CASE f # "afford"
      <4>1. q.cols[f][i] = p.cols[f][i]
        BY <1>2, <3>2 DEF C
      <4> QED BY <2>1, <2>4, <3>2, <4>1, FieldFacts
    <3> QED BY <3>1, <3>2
  <2>7. \A f \in Maps : Item(q, f, i) = row[f]
    BY <1>7, <2>1, <2>4, FieldFacts
  <2>8. row = [f \in Fields |-> row[f]]
    BY <2>4
  <2>9. At(q, i) = row
    BY <2>6, <2>7, <2>8, AtIs
  <2>10. row["hull"] = old["hull"] /\ row["pose"] = old["pose"]
    BY <2>4, <2>5, FieldFacts
  <2>11. IsRow(row)
    BY <2>3, <2>8, <2>10 DEF IsRow, Fields
  <2> QED BY <2>9, <2>11 DEF row, old
<1>9. Packed(q)
  BY <1>2, <1>3, <1>4, <1>5, <1>6, <1>8 DEF Packed, Filled
<1>10. \A l \in DOMAIN p.by : At(q, q.by[l]) = Carried(c, d, RowsOf(p)[l])
  BY <1>2, <1>8, LociAreLoci, RowsAreRows
<1>11. RowsOf(q) = [l \in DOMAIN p.by |-> Carried(c, d, RowsOf(p)[l])]
  BY <1>2, <1>10, RowsAreAt
<1> QED BY <1>2, <1>9, <1>11 DEF q

(* The rows before there are any, the rows as a list, how many there are.  *)
LEMMA EmptyPacked == Packed(Empty) /\ DOMAIN Empty.by = {}
<1>1. /\ Empty.by = <<>> /\ Empty.sigils = <<>> /\ Empty.cols = [c \in Cols |-> <<>>]
      /\ Empty.maps = [m \in Maps |-> {}]
  BY DEF Empty
<1>2. Slots(Empty) = {} /\ Empty.sigils \in Seq(Loci) /\ DOMAIN Empty.by = {}
  BY <1>1 DEF Slots
<1>3. Shaped(Empty)
  BY <1>1 DEF Shaped, Empty
<1>4. Parallel(Empty)
  BY <1>1, <1>2 DEF Parallel
<1>5. Tabled(Empty) /\ Anchored(Empty) /\ Filled(Empty)
  BY <1>1, <1>2 DEF Tabled, Anchored, Filled
<1> QED BY <1>2, <1>3, <1>4, <1>5 DEF Packed

LEMMA SnapRowsRows ==
  ASSUME NEW p, Packed(p)
  PROVE  LET list == SnapRows(p) IN
         /\ IsList(list) /\ OneEach(list) /\ LociOf(list) = DOMAIN p.by
         /\ RowsIn(list) = RowsOf(p)
<1> DEFINE list == SnapRows(p)
           N == Len(p.sigils)
           rows == RowsOf(p)
<1>1. /\ N \in Nat /\ Ixs(p) = 1 .. N
      /\ \A i \in 1 .. N : p.sigils[i] \in DOMAIN p.by /\ p.by[p.sigils[i]] = i
      /\ \A m \in DOMAIN p.by : p.by[m] \in 1 .. N /\ p.sigils[p.by[m]] = m
  BY DEF Packed, Tabled, Slots, Ixs
<1>2. list = [i \in 1 .. N |-> <<p.sigils[i], rows[p.sigils[i]]>>]
  <2>1. \A i \in 1 .. N : RowOf(p, p.sigils[i]) = rows[p.sigils[i]]
    BY <1>1, RowsAreRows
  <2> HIDE DEF N, rows
  <2> QED BY <1>1, <2>1 DEF SnapRows
<1>3. \A m \in DOMAIN p.by : m \in Loci /\ IsRow(rows[m])
  BY LociAreLoci, RowsAreRows
<1>4. rows = [m \in DOMAIN p.by |-> rows[m]]
  BY RowsAreAt
<1> HIDE DEF list, N, rows
<1>5. Len(list) = N
  <2> DEFINE V == {list[i] : i \in 1 .. N}
  <2>1. list \in [1 .. N -> V]
    BY <1>2
  <2> HIDE DEF V
  <2> QED BY <1>1, <2>1
<1>6. \A i \in 1 .. N : list[i] = <<list[i][1], list[i][2]>> /\ list[i][1] = p.sigils[i]
                        /\ list[i][2] = rows[list[i][1]]
  BY <1>2
<1>7. IsList(list)
  <2> DEFINE n == Len(list)
  <2>1. n = N /\ n \in Nat
    BY <1>1, <1>5
  <2> HIDE DEF n
  <2>2. list = [i \in 1 .. n |-> <<list[i][1], list[i][2]>>]
    <3>1. list = [i \in 1 .. n |-> list[i]]
      BY <1>2, <2>1
    <3> QED BY <1>6, <2>1, <3>1
  <2>3. \A i \in 1 .. n : list[i][1] \in Loci /\ IsRow(list[i][2])
    BY <1>1, <1>3, <1>6, <2>1
  <2> QED BY <2>1, <2>2, <2>3 DEF IsList, n
<1>8. DOMAIN list = 1 .. N
  BY <1>2
<1>9. OneEach(list)
  <2> SUFFICES ASSUME NEW i \in 1 .. N, NEW j \in 1 .. N, list[i][1] = list[j][1] PROVE i = j
    BY <1>8 DEF OneEach
  <2>1. p.sigils[i] = p.sigils[j]
    BY <1>6
  <2> QED BY <1>1, <2>1
<1>10. LociOf(list) = DOMAIN p.by
  BY <1>1, <1>6, <1>8 DEF LociOf
<1>11. RowsIn(list) = [m \in DOMAIN p.by |-> rows[m]]
  <2>1. \A i \in DOMAIN list : list[i][2] = rows[list[i][1]]
    BY <1>6, <1>8
  <2>2. RowsIn(list) = [m \in LociOf(list) |-> rows[m]]
    BY <2>1, RowsInAre
  <2> QED BY <1>10, <2>2
<1> QED BY <1>4, <1>7, <1>9, <1>10, <1>11 DEF list, rows

LEMMA CountRows ==
  ASSUME NEW p, Packed(p)
  PROVE  /\ IsFiniteSet(DOMAIN p.by) /\ Len(p.sigils) \in Nat
         /\ Cardinality(DOMAIN p.by) = Len(p.sigils)
<1> DEFINE n == Len(p.sigils)
           f == p.sigils
           D == DOMAIN p.by
<1>1. /\ n \in Nat /\ \A i \in 1 .. n : f[i] \in D /\ p.by[f[i]] = i
      /\ \A l \in D : p.by[l] \in 1 .. n /\ f[p.by[l]] = l
      /\ f = [i \in 1 .. n |-> f[i]]
  BY DEF Packed, Tabled, Slots
<1> HIDE DEF n, f, D
<1>2. f \in Bijection(1 .. n, D)
  <2>1. f \in [1 .. n -> D] /\ \A i, j \in 1 .. n : f[i] = f[j] => i = j
    BY <1>1
  <2>2. \A l \in D : \E i \in 1 .. n : f[i] = l
    BY <1>1
  <2> QED BY <2>1, <2>2 DEF Bijection, Injection, Surjection, IsInjective
<1>3. ExistsBijection(1 .. n, D)
  BY <1>2 DEF ExistsBijection
<1>4. IsFiniteSet(1 .. n)
  BY <1>1, FS_Interval
<1>5. IsFiniteSet(D) /\ Cardinality(D) = n
  BY <1>1, <1>3, <1>4, FS_Bijection, FS_CountingElements
<1> QED BY <1>1, <1>5 DEF n, D

(* Distinct, as the checks of apply_place_snap count it.                   *)
LEMMA DistinctIsOneEach ==
  ASSUME NEW list, IsList(list), Distinct(list)
  PROVE  OneEach(list)
<1> DEFINE n == Len(list)
           S == LociOf(list)
           f == [i \in 1 .. n |-> list[i][1]]
<1>1. n \in Nat /\ DOMAIN list = 1 .. n /\ Cardinality(S) = n
  BY DEF IsList, Distinct
<1>2. S = {list[i][1] : i \in 1 .. n}
  BY <1>1 DEF LociOf
<1> HIDE DEF n, S
<1>3. f \in Surjection(1 .. n, S)
  BY <1>2 DEF Surjection
<1>4. IsFiniteSet(1 .. n) /\ Cardinality(1 .. n) = n
  <2>1. IsFiniteSet(1 .. n) /\ Cardinality(1 .. n) = IF 1 > n THEN 0 ELSE n - 1 + 1
    BY <1>1, FS_Interval
  <2> QED BY <1>1, <2>1
<1> HIDE DEF f
<1>5. f \in Injection(1 .. n, S)
  BY <1>1, <1>3, <1>4, FS_SurjSameCardinalityImpliesInj
<1>6. \A i, j \in 1 .. n : f[i] = f[j] => i = j
  BY <1>5 DEF Injection, IsInjective
<1> QED BY <1>1, <1>6 DEF OneEach, f

-----------------------------------------------------------------------------
(* The setters: one row is written, its kind never; the spatial index is   *)
(* brought up to date, or the row says what it said to the index.          *)
Touches(p, q, l) ==
    /\ Packed(q) /\ q.by = p.by /\ q.sigils = p.sigils
    /\ \A j \in Slots(p) \ {p.by[l]} : At(q, j) = At(p, j)
    /\ At(q, p.by[l])["kind"] = At(p, p.by[l])["kind"]

Locked(row) == \E e \in row["rels"] : e[1] = "LockedBy"

Unseen(p, q, l) ==
    /\ \A f \in {"hull", "pose", "afford", "within"} : At(q, p.by[l])[f] = At(p, p.by[l])[f]
    /\ Locked(At(q, p.by[l])) <=> Locked(At(p, p.by[l]))

Kept(p, q, s, t, c, l) ==
    \/ t = Reindex(s, q, c, q.by[l])
    \/ t = s /\ Unseen(p, q, l)

LEMMA CellTouches ==
  ASSUME NEW p, Packed(p), NEW l \in DOMAIN p.by, NEW c \in Cols \ {"kind"}, NEW v,
         c = "hull" => v = None \/ v \in Int \X Int,
         c = "pose" => v = None \/ v \in Int
  PROVE  LET q == SetCell(p, l, c, v) IN
         /\ Touches(p, q, l) /\ At(q, p.by[l]) = Amended(At(p, p.by[l]), c, v)
         /\ c \in {"seat", "body"} => Unseen(p, q, l)
<1> DEFINE q == SetCell(p, l, c, v)
           row == At(p, p.by[l])
<1>1. /\ Packed(q) /\ q.by = p.by /\ q.sigils = p.sigils
      /\ At(q, p.by[l]) = Amended(row, c, v)
      /\ \A j \in Slots(p) \ {p.by[l]} : At(q, j) = At(p, j)
  <2>1. c \in Cols
    OBVIOUS
  <2> QED BY <2>1, CellAt
<1>2. row = [f \in Fields |-> row[f]]
  BY AtFields
<1>3. /\ \A f \in {"kind", "hull", "pose", "afford", "within", "rels"} : f \in Fields
      /\ c # "rels"
  BY DEF Fields, Cols, Maps
<1> HIDE DEF q, row
<1>4. At(q, p.by[l])["kind"] = row["kind"]
  BY <1>1, <1>2, <1>3 DEF Amended
<1>5. ASSUME c \in {"seat", "body"} PROVE Unseen(p, q, l)
  <2>1. \A f \in {"hull", "pose", "afford", "within", "rels"} : At(q, p.by[l])[f] = row[f]
    BY <1>1, <1>2, <1>3, <1>5 DEF Amended
  <2> QED BY <2>1 DEF Unseen, Locked, row
<1> QED BY <1>1, <1>4, <1>5 DEF Touches, q, row

LEMMA MapTouches ==
  ASSUME NEW p, Packed(p), NEW l \in DOMAIN p.by, NEW m \in Maps, NEW M,
         \A e \in M : e[1] \in Slots(p) /\ e = <<e[1], e[2]>>,
         {e \in M : e[1] # p.by[l]} = {e \in p.maps[m] : e[1] # p.by[l]}
  PROVE  LET q == Remapped(p, m, M) IN
         /\ Touches(p, q, l)
         /\ At(q, p.by[l])["rels"] = IF m = "rels" THEN ItemsOf(M, p.by[l])
                                     ELSE At(p, p.by[l])["rels"]
         /\ m # "rels" => Unseen(p, q, l)
         /\ Locked(At(q, p.by[l])) = Locked(At(p, p.by[l])) => Unseen(p, q, l)
<1> DEFINE q == Remapped(p, m, M)
           row == At(p, p.by[l])
           items == ItemsOf(M, p.by[l])
<1>1. /\ Packed(q) /\ q.by = p.by /\ q.sigils = p.sigils
      /\ At(q, p.by[l]) = Amended(row, m, items)
      /\ \A j \in Slots(p) \ {p.by[l]} : At(q, j) = At(p, j)
  <2> DEFINE i == p.by[l]
  <2>1. i \in Slots(p)
    BY LociAreLoci
  <2>2. q = Remapped(p, m, M) /\ {e \in M : e[1] # i} = {e \in p.maps[m] : e[1] # i}
    OBVIOUS
  <2> HIDE DEF q, i
  <2>3. /\ Packed(q) /\ q.by = p.by /\ q.sigils = p.sigils
        /\ At(q, i) = Amended(At(p, i), m, ItemsOf(M, i))
        /\ \A j \in Slots(p) \ {i} : At(q, j) = At(p, j)
    BY <2>1, <2>2, MapAt
  <2> QED BY <2>3 DEF i
<1>2. row = [f \in Fields |-> row[f]]
  BY AtFields
<1>3. /\ \A f \in {"kind", "hull", "pose", "afford", "within", "rels"} : f \in Fields
      /\ m \notin {"kind", "hull", "pose", "afford", "within"}
  BY DEF Fields, Cols, Maps
<1> HIDE DEF q, row, items
<1>4. /\ \A f \in {"kind", "hull", "pose", "afford", "within"} : At(q, p.by[l])[f] = row[f]
      /\ At(q, p.by[l])["rels"] = IF m = "rels" THEN items ELSE row["rels"]
  BY <1>1, <1>2, <1>3 DEF Amended
<1>5. m # "rels" => (Locked(At(q, p.by[l])) <=> Locked(row))
  BY <1>4 DEF Locked
<1> QED BY <1>1, <1>4, <1>5 DEF Touches, Unseen, q, row, items

LEMMA TouchesTwice ==
  ASSUME NEW p, NEW q, NEW r, NEW l, Touches(p, q, l), Touches(q, r, l)
  PROVE  Touches(p, r, l) /\ (Unseen(p, q, l) /\ Unseen(q, r, l) => Unseen(p, r, l))
<1>1. Slots(q) = Slots(p)
  BY DEF Touches, Slots
<1>2. Touches(p, r, l)
  BY <1>1 DEF Touches
<1>3. ASSUME Unseen(p, q, l), Unseen(q, r, l) PROVE Unseen(p, r, l)
  BY <1>3 DEF Unseen, Touches
<1> QED BY <1>2, <1>3

Setter(l) ==
    \/ \E a \in DOMAIN Names[canon].afford, on \in BOOLEAN : SetAffordance(l, a, on)
    \/ \E h \in Hulls : SetHull(l, h)
    \/ \E x \in Spots : SetPose(l, x)
    \/ SetBody(l, 1) \/ SetMaps(l)
    \/ \E b \in Loci : Relate(l, b)

Sets(l) ==
    /\ l \in DOMAIN proj.by /\ Touches(proj, proj', l)
    /\ Kept(proj, proj', space, space', canon, l)
    /\ was' = None /\ UNCHANGED <<cap, canon, held>>

LEMMA CellSets ==
  ASSUME Packed(proj), NEW l \in DOMAIN proj.by, NEW c \in Cols \ {"kind"}, NEW v,
         c = "hull" => v = None \/ v \in Int \X Int,
         c = "pose" => v = None \/ v \in Int,
         NEW s, Writes(SetCell(proj, l, c, v), s),
         \/ s = Indexed(SetCell(proj, l, c, v), l)
         \/ s = space /\ c \in {"seat", "body"}
  PROVE  Sets(l)
<1> DEFINE q == SetCell(proj, l, c, v)
<1>1. Touches(proj, q, l) /\ (c \in {"seat", "body"} => Unseen(proj, q, l))
  BY CellTouches
<1>2. proj' = q /\ space' = s /\ was' = None /\ UNCHANGED <<cap, canon, held>>
  BY DEF Writes, Calls
<1>3. s = Reindex(space, q, canon, q.by[l]) \/ (s = space /\ c \in {"seat", "body"})
  BY DEF Indexed
<1> HIDE DEF q
<1> QED BY <1>1, <1>2, <1>3 DEF Sets, Kept

LEMMA MapSets ==
  ASSUME Packed(proj), NEW l \in DOMAIN proj.by, NEW m \in Maps \ {"rels"}, NEW M,
         \A e \in M : e[1] \in Slots(proj) /\ e = <<e[1], e[2]>>,
         {e \in M : e[1] # proj.by[l]} = {e \in proj.maps[m] : e[1] # proj.by[l]},
         Writes(Remapped(proj, m, M), space)
  PROVE  Sets(l)
<1> DEFINE q == Remapped(proj, m, M)
<1>1. Touches(proj, q, l) /\ Unseen(proj, q, l)
  <2>1. m \in Maps /\ m # "rels"
    OBVIOUS
  <2> QED BY <2>1, MapTouches
<1>2. proj' = q /\ space' = space /\ was' = None /\ UNCHANGED <<cap, canon, held>>
  BY DEF Writes, Calls
<1> HIDE DEF q
<1> QED BY <1>1, <1>2 DEF Sets, Kept

LEMMA ItemSets ==
  ASSUME Packed(proj), NEW l \in DOMAIN proj.by, NEW m \in Maps \ {"rels"}, NEW k, NEW item,
         Writes(SetItem(l, m, k, item), space)
  PROVE  Sets(l)
<1> DEFINE i == proj.by[l]
           M == {e \in proj.maps[m] : ~(e[1] = i /\ e[2][1] = k)} \cup {<<i, e>> : e \in item}
<1>1. SetItem(l, m, k, item) = Remapped(proj, m, M)
  BY DEF SetItem, Remapped
<1>2. i \in Slots(proj)
  BY LociAreLoci
<1>3. \A e \in proj.maps[m] : e[1] \in Slots(proj) /\ e = <<e[1], e[2]>>
  BY DEF Packed, Anchored
<1> HIDE DEF i
<1>4. \A e \in M : e[1] \in Slots(proj) /\ e = <<e[1], e[2]>>
  BY <1>2, <1>3
<1>5. {e \in M : e[1] # i} = {e \in proj.maps[m] : e[1] # i}
  OBVIOUS
<1> HIDE DEF M
<1> QED BY <1>1, <1>4, <1>5, MapSets DEF i

(* A write to the relations of one row, and to its seat.                   *)
LEMMA RelSets ==
  ASSUME Packed(proj), NEW l \in DOMAIN proj.by, NEW M, NEW r, NEW seated \in BOOLEAN, NEW v,
         \A e \in M : e[1] \in Slots(proj) /\ e = <<e[1], e[2]>>,
         {e \in M : e[1] # proj.by[l]} = {e \in proj.maps["rels"] : e[1] # proj.by[l]},
         {e \in M : e[2][1] # r} = {e \in proj.maps["rels"] : e[2][1] # r},
         seated => r # "LockedBy",
         Writes(IF seated THEN SetCell(Remapped(proj, "rels", M), l, "seat", v)
                ELSE Remapped(proj, "rels", M),
                IF r = "LockedBy" THEN Indexed(Remapped(proj, "rels", M), l) ELSE space)
  PROVE  Sets(l)
<1> DEFINE p == Remapped(proj, "rels", M)
           q == IF seated THEN SetCell(p, l, "seat", v) ELSE p
<1>1. /\ Touches(proj, p, l) /\ At(p, proj.by[l])["rels"] = ItemsOf(M, proj.by[l])
      /\ Locked(At(p, proj.by[l])) = Locked(At(proj, proj.by[l])) => Unseen(proj, p, l)
  <2>1. "rels" \in Maps
    BY DEF Maps
  <2> QED BY <2>1, MapTouches
<1>2. /\ proj' = q /\ was' = None /\ UNCHANGED <<cap, canon, held>>
      /\ space' = IF r = "LockedBy" THEN Reindex(space, p, canon, p.by[l]) ELSE space
  BY DEF Writes, Calls, Indexed
<1>3. At(proj, proj.by[l])["rels"] = ItemsOf(proj.maps["rels"], proj.by[l])
  <2>1. "rels" \in Maps
    BY DEF Maps
  <2> QED BY <2>1, AtFields DEF Item, ItemsOf
<1>4. p.by = proj.by /\ Packed(p)
  BY <1>1 DEF Touches
<1> HIDE DEF p
<1>5. r # "LockedBy" => Unseen(proj, p, l)
  <2> SUFFICES ASSUME r # "LockedBy" PROVE Locked(At(p, proj.by[l])) = Locked(At(proj, proj.by[l]))
    BY <1>1
  <2>1. \A X : (\E e \in ItemsOf(X, proj.by[l]) : e[1] = "LockedBy")
                 <=> \E x \in X : x[1] = proj.by[l] /\ x[2][1] = "LockedBy"
    BY DEF ItemsOf
  <2>2. \A x : x[2][1] = "LockedBy" => (x \in M <=> x \in proj.maps["rels"])
    <3> TAKE x
    <3>1. x \in {e \in M : e[2][1] # r} <=> x \in {e \in proj.maps["rels"] : e[2][1] # r}
      OBVIOUS
    <3> QED BY <3>1
  <2>3. (\E x \in M : x[1] = proj.by[l] /\ x[2][1] = "LockedBy")
          <=> \E x \in proj.maps["rels"] : x[1] = proj.by[l] /\ x[2][1] = "LockedBy"
    BY <2>2
  <2>4. Locked(At(p, proj.by[l])) <=> \E x \in M : x[1] = proj.by[l] /\ x[2][1] = "LockedBy"
    BY <1>1, <2>1 DEF Locked
  <2>5. Locked(At(proj, proj.by[l]))
          <=> \E x \in proj.maps["rels"] : x[1] = proj.by[l] /\ x[2][1] = "LockedBy"
    BY <1>3, <2>1 DEF Locked
  <2>6. Locked(At(p, proj.by[l])) \in BOOLEAN /\ Locked(At(proj, proj.by[l])) \in BOOLEAN
    BY DEF Locked
  <2> QED BY <2>3, <2>4, <2>5, <2>6
<1>6. Touches(proj, q, l) /\ (r # "LockedBy" => Unseen(proj, q, l)) /\ q.by = proj.by
  <2>1. CASE ~seated
    BY <1>1, <1>4, <1>5, <2>1
  <2>2. CASE seated
    <3> DEFINE z == SetCell(p, l, "seat", v)
    <3>1. l \in DOMAIN p.by /\ "seat" \in Cols \ {"kind"}
      BY <1>4 DEF Cols
    <3>2. Touches(p, z, l) /\ Unseen(p, z, l)
      BY <1>4, <3>1, CellTouches
    <3> HIDE DEF z
    <3>3. Touches(proj, z, l) /\ (Unseen(proj, p, l) => Unseen(proj, z, l))
      BY <1>1, <3>2, TouchesTwice
    <3>4. q = z
      BY <2>2 DEF z
    <3> HIDE DEF q
    <3> QED BY <1>5, <3>3, <3>4 DEF Touches
  <2> QED BY <2>1, <2>2
<1>7. r = "LockedBy" => q = p
  OBVIOUS
<1> HIDE DEF q
<1>8. Kept(proj, q, space, space', canon, l)
  BY <1>2, <1>4, <1>6, <1>7 DEF Kept
<1> QED BY <1>2, <1>6, <1>8 DEF Sets

LEMMA AddRelSets ==
  ASSUME Packed(proj), NEW l, NEW r, NEW b, AddRel(l, r, b)
  PROVE  Sets(l)
<1> DEFINE i == proj.by[l]
           M == proj.maps["rels"] \cup {<<i, <<r, b>>>>}
           p == Remapped(proj, "rels", M)
           seated == r \in Carriers /\ p.cols["seat"][i] = None
           v == Seat(p, l, b)
<1>1. l \in DOMAIN proj.by /\ i \in Slots(proj)
  BY LociAreLoci DEF AddRel, Has
<1>2. Writes(IF seated THEN SetCell(p, l, "seat", v) ELSE p,
             IF r = "LockedBy" THEN Indexed(p, l) ELSE space)
  BY DEF AddRel, Remapped
<1>3. \A e \in proj.maps["rels"] : e[1] \in Slots(proj) /\ e = <<e[1], e[2]>>
  BY DEF Packed, Anchored, Maps
<1>4. seated \in BOOLEAN /\ (seated => r # "LockedBy")
  BY DEF Carriers
<1> HIDE DEF seated, v, i
<1>5. \A e \in M : e[1] \in Slots(proj) /\ e = <<e[1], e[2]>>
  BY <1>1, <1>3
<1>6. {e \in M : e[1] # i} = {e \in proj.maps["rels"] : e[1] # i}
  OBVIOUS
<1>7. {e \in M : e[2][1] # r} = {e \in proj.maps["rels"] : e[2][1] # r}
  OBVIOUS
<1> HIDE DEF M
<1> QED BY <1>1, <1>2, <1>4, <1>5, <1>6, <1>7, RelSets DEF i

LEMMA DelRelSets ==
  ASSUME Packed(proj), NEW l, NEW r, NEW b, DelRel(l, r, b)
  PROVE  Sets(l)
<1> DEFINE i == proj.by[l]
           M == proj.maps["rels"] \ {<<i, <<r, b>>>>}
           p == Remapped(proj, "rels", M)
           seated == r \in Carriers /\ HostsOf(p, l) = {}
<1>1. l \in DOMAIN proj.by /\ i \in Slots(proj)
  BY LociAreLoci DEF DelRel, Has
<1>2. Writes(IF seated THEN SetCell(p, l, "seat", None) ELSE p,
             IF r = "LockedBy" THEN Indexed(p, l) ELSE space)
  BY DEF DelRel, Remapped
<1>3. \A e \in proj.maps["rels"] : e[1] \in Slots(proj) /\ e = <<e[1], e[2]>>
  BY DEF Packed, Anchored, Maps
<1>4. seated \in BOOLEAN /\ (seated => r # "LockedBy")
  BY DEF Carriers
<1> HIDE DEF seated, i
<1>5. \A e \in M : e[1] \in Slots(proj) /\ e = <<e[1], e[2]>>
  BY <1>1, <1>3
<1>6. {e \in M : e[1] # i} = {e \in proj.maps["rels"] : e[1] # i}
  OBVIOUS
<1>7. {e \in M : e[2][1] # r} = {e \in proj.maps["rels"] : e[2][1] # r}
  OBVIOUS
<1> HIDE DEF M
<1> QED BY <1>1, <1>2, <1>4, <1>5, <1>6, <1>7, RelSets DEF i

LEMMA NothingSets ==
  ASSUME Packed(proj), NEW l \in DOMAIN proj.by, Writes(proj, Indexed(proj, l))
  PROVE  Sets(l)
BY DEF Sets, Touches, Kept, Writes, Calls, Indexed

LEMMA SettersSet ==
  ASSUME Packed(proj), NEW l, Setter(l)
  PROVE  Sets(l)
<1>1. /\ "afford" \in Cols \ {"kind"} /\ "hull" \in Cols \ {"kind"} /\ "pose" \in Cols \ {"kind"}
      /\ "body" \in Cols \ {"kind"} /\ "within" \in Cols \ {"kind"}
      /\ {"qty", "phys", "knows", "rites"} \subseteq Maps \ {"rels"}
  BY DEF Cols, Maps
<1>2. ASSUME NEW a, NEW on, SetAffordance(l, a, on) PROVE Sets(l)
  <2> DEFINE now == proj.cols["afford"][proj.by[l]]
             v == IF on THEN now \cup {a} ELSE now \ {a}
  <2>1. l \in DOMAIN proj.by /\ Writes(SetCell(proj, l, "afford", v), Indexed(SetCell(proj, l, "afford", v), l))
    BY <1>2 DEF SetAffordance, Has
  <2> HIDE DEF v
  <2> QED BY <1>1, <2>1, CellSets
<1>3. ASSUME NEW h \in Hulls, SetHull(l, h) PROVE Sets(l)
  <2>1. l \in DOMAIN proj.by /\ Writes(SetCell(proj, l, "hull", h), Indexed(SetCell(proj, l, "hull", h), l))
    BY <1>3 DEF SetHull, Has
  <2>2. h \in Int \X Int
    BY CellAssumption
  <2> QED BY <1>1, <2>1, <2>2, CellSets
<1>4. ASSUME NEW x \in Spots, SetPose(l, x) PROVE Sets(l)
  <2>1. l \in DOMAIN proj.by /\ Writes(SetCell(proj, l, "pose", x), Indexed(SetCell(proj, l, "pose", x), l))
    BY <1>4 DEF SetPose, Has
  <2>2. x \in Int
    BY CellAssumption
  <2> QED BY <1>1, <2>1, <2>2, CellSets
<1>5. ASSUME SetBody(l, 1) PROVE Sets(l)
  <2>1. l \in DOMAIN proj.by /\ Writes(SetCell(proj, l, "body", 1), space)
    BY <1>5 DEF SetBody, Has
  <2> QED BY <1>1, <2>1, CellSets
<1>6. ASSUME NEW m \in Maps \ {"rels"}, NEW k, NEW item, SetMap(l, m, k, item) PROVE Sets(l)
  BY <1>6, ItemSets DEF SetMap, Has
<1>7. ASSUME SetMaps(l) PROVE Sets(l)
  BY <1>1, <1>6, <1>7 DEF SetMaps
<1>8. ASSUME NEW b, AddIn(l, b) PROVE Sets(l)
  <2>1. l \in DOMAIN proj.by /\ Writes(SetCell(proj, l, "within", b), Indexed(SetCell(proj, l, "within", b), l))
    BY <1>8 DEF AddIn, Has
  <2> QED BY <1>1, <2>1, CellSets
<1>9. ASSUME NEW b, DelIn(l, b) PROVE Sets(l)
  <2>1. CASE proj.cols["within"][proj.by[l]] = b
    <3>1. l \in DOMAIN proj.by
          /\ Writes(SetCell(proj, l, "within", None), Indexed(SetCell(proj, l, "within", None), l))
      BY <1>9, <2>1 DEF DelIn, Has
    <3> QED BY <1>1, <3>1, CellSets
  <2>2. CASE proj.cols["within"][proj.by[l]] # b
    <3>1. l \in DOMAIN proj.by /\ Writes(proj, Indexed(proj, l))
      BY <1>9, <2>2 DEF DelIn, Has
    <3> QED BY <3>1, NothingSets
  <2> QED BY <2>1, <2>2
<1>10. ASSUME NEW b, Relate(l, b) PROVE Sets(l)
  BY <1>8, <1>9, <1>10, AddRelSets, DelRelSets DEF Relate
<1> QED BY <1>2, <1>3, <1>4, <1>5, <1>7, <1>10 DEF Setter

-----------------------------------------------------------------------------
(* Spawned and IslandSnap: a row is there or becomes one, and is moved.    *)
Based(p, l) == IF Has(p, l) THEN p ELSE Push(p, l, Blank("relic"))
RowOr(p, l) == IF l \in DOMAIN p.by THEN RowsOf(p)[l] ELSE Blank("relic")
AsWas(a, b) == \A f \in Fields \ {"pose", "body"} : b[f] = a[f]

Puts(p, q, S) ==
    /\ DOMAIN p.by \subseteq DOMAIN q.by /\ DOMAIN q.by \subseteq DOMAIN p.by \cup S
    /\ DOMAIN q.by # DOMAIN p.by => Len(q.sigils) <= cap
    /\ \A m \in DOMAIN q.by \ S : RowsOf(q)[m] = RowsOf(p)[m]
    /\ \A m \in DOMAIN q.by \cap S : AsWas(RowOr(p, m), RowsOf(q)[m])

LEMMA BlankIsRow ==
  ASSUME NEW k
  PROVE  /\ IsRow(Blank(k)) /\ Blank(k)["kind"] = k
         /\ Blank(k)["hull"] = None /\ Blank(k)["pose"] = None
<1> DEFINE B(f) == CASE f = "kind" -> k
                     [] f = "afford" -> {}
                     [] f \in {"hull", "pose", "within", "seat"} -> None
                     [] f = "body" -> 0
                     [] f \in Maps -> {}
           row == Blank(k)
<1>1. row = [f \in Cols \cup Maps |-> B(f)]
  BY DEF Blank
<1>2. B("hull") = None /\ B("pose") = None /\ B("kind") = k
  BY DEF Maps
<1>3. "hull" \in Cols /\ "pose" \in Cols /\ "kind" \in Cols
  BY DEF Cols
<1> HIDE DEF B, row
<1>4. row = [f \in Cols \cup Maps |-> row[f]]
  BY <1>1
<1>5. row["hull"] = None /\ row["pose"] = None /\ row["kind"] = k
  BY <1>1, <1>2, <1>3
<1> QED BY <1>4, <1>5 DEF IsRow, row

LEMMA BasedRows ==
  ASSUME NEW p, Packed(p), NEW l \in Loci
  PROVE  LET q == Based(p, l) IN
         /\ Packed(q) /\ DOMAIN q.by = DOMAIN p.by \cup {l}
         /\ RowsOf(q) = [m \in DOMAIN q.by |-> RowOr(p, m)]
         /\ Len(q.sigils) = IF l \in DOMAIN p.by THEN Len(p.sigils) ELSE Len(p.sigils) + 1
<1>1. CASE l \in DOMAIN p.by
  <2>1. Based(p, l) = p
    BY <1>1 DEF Based, Has
  <2>2. DOMAIN p.by \cup {l} = DOMAIN p.by
    BY <1>1
  <2>3. \A m \in DOMAIN p.by : RowOr(p, m) = RowsOf(p)[m]
    BY DEF RowOr
  <2>4. RowsOf(p) = [m \in DOMAIN p.by |-> RowsOf(p)[m]]
    BY RowsAreAt
  <2>5. RowsOf(p) = [m \in DOMAIN p.by |-> RowOr(p, m)]
    BY <2>3, <2>4
  <2> QED BY <1>1, <2>1, <2>2, <2>5
<1>2. CASE l \notin DOMAIN p.by
  <2> DEFINE q == Push(p, l, Blank("relic"))
  <2>1. l \in Loci \ DOMAIN p.by /\ IsRow(Blank("relic"))
    BY <1>2, BlankIsRow
  <2>2. /\ Packed(q) /\ DOMAIN q.by = DOMAIN p.by \cup {l}
        /\ RowsOf(q) = [m \in DOMAIN p.by \cup {l} |-> IF m = l THEN Blank("relic") ELSE RowsOf(p)[m]]
    BY <2>1, PushRows
  <2>3. Len(q.sigils) = Len(p.sigils) + 1
    BY <2>1, PushAt
  <2>4. Based(p, l) = q
    BY <1>2 DEF Based, Has
  <2> HIDE DEF q
  <2>5. \A m \in DOMAIN q.by : RowOr(p, m) = IF m = l THEN Blank("relic") ELSE RowsOf(p)[m]
    BY <1>2, <2>2 DEF RowOr
  <2>6. RowsOf(q) = [m \in DOMAIN q.by |-> RowOr(p, m)]
    BY <2>2, <2>5
  <2> QED BY <1>2, <2>2, <2>3, <2>4, <2>6
<1> QED BY <1>1, <1>2

LEMMA TouchedRows ==
  ASSUME NEW p, Packed(p), NEW q, NEW l \in DOMAIN p.by, Touches(p, q, l)
  PROVE  RowsOf(q) = [m \in DOMAIN p.by |-> IF m = l THEN At(q, p.by[l]) ELSE RowsOf(p)[m]]
<1>1. Packed(q) /\ q.by = p.by /\ \A j \in Slots(p) \ {p.by[l]} : At(q, j) = At(p, j)
  BY DEF Touches
<1> QED BY <1>1, RowsBut

LEMMA PlacedPuts ==
  ASSUME NEW p, Packed(p), NEW l \in Loci, Has(p, l) \/ Len(p.sigils) < cap, cap \in Nat,
         NEW r, Touches(Based(p, l), r, l),
         AsWas(At(Based(p, l), Based(p, l).by[l]), At(r, Based(p, l).by[l]))
  PROVE  Packed(r) /\ DOMAIN r.by = DOMAIN p.by \cup {l} /\ Puts(p, r, {l})
<1> DEFINE q == Based(p, l)
<1>1. /\ Packed(q) /\ DOMAIN q.by = DOMAIN p.by \cup {l}
      /\ RowsOf(q) = [m \in DOMAIN q.by |-> RowOr(p, m)]
      /\ Len(q.sigils) = IF l \in DOMAIN p.by THEN Len(p.sigils) ELSE Len(p.sigils) + 1
  BY BasedRows
<1>2. Touches(q, r, l) /\ AsWas(At(q, q.by[l]), At(r, q.by[l]))
  OBVIOUS
<1> HIDE DEF q
<1>3. Packed(r) /\ r.by = q.by /\ r.sigils = q.sigils
  BY <1>2 DEF Touches
<1>4. RowsOf(r) = [m \in DOMAIN q.by |-> IF m = l THEN At(r, q.by[l]) ELSE RowsOf(q)[m]]
  BY <1>1, <1>2, TouchedRows
<1>5. At(q, q.by[l]) = RowOr(p, l)
  BY <1>1, RowsAreRows
<1>6. AsWas(RowOr(p, l), RowsOf(r)[l])
  BY <1>1, <1>2, <1>4, <1>5
<1>7. \A m \in DOMAIN r.by \ {l} : RowsOf(r)[m] = RowsOf(p)[m]
  BY <1>1, <1>3, <1>4 DEF RowOr
<1>8. DOMAIN r.by # DOMAIN p.by => Len(r.sigils) <= cap
  <2>1. Len(p.sigils) \in Nat
    BY CountRows
  <2>2. CASE l \in DOMAIN p.by
    BY <1>1, <1>3, <2>2
  <2>3. CASE l \notin DOMAIN p.by
    BY <1>1, <1>3, <2>1, <2>3 DEF Has
  <2> QED BY <2>2, <2>3
<1> QED BY <1>1, <1>3, <1>6, <1>7, <1>8 DEF Puts

LEMMA PutsTwice ==
  ASSUME NEW p, NEW q, NEW r, NEW S, NEW T, Puts(p, q, S), Puts(q, r, T), cap \in Nat,
         Packed(p), Packed(q), Packed(r)
  PROVE  Puts(p, r, S \cup T)
<1>1. DOMAIN p.by \subseteq DOMAIN r.by /\ DOMAIN r.by \subseteq DOMAIN p.by \cup (S \cup T)
  BY DEF Puts
<1>2. DOMAIN r.by # DOMAIN p.by => Len(r.sigils) <= cap
  <2>1. CASE DOMAIN r.by = DOMAIN q.by
    <3>1. Len(r.sigils) = Len(q.sigils)
      BY <2>1, CountRows
    <3> QED BY <2>1, <3>1 DEF Puts
  <2>2. CASE DOMAIN r.by # DOMAIN q.by
    BY <2>2 DEF Puts
  <2> QED BY <2>1, <2>2
<1>3. ASSUME NEW m \in DOMAIN r.by \ (S \cup T) PROVE RowsOf(r)[m] = RowsOf(p)[m]
  BY DEF Puts
<1>4. ASSUME NEW m \in DOMAIN r.by \cap (S \cup T) PROVE AsWas(RowOr(p, m), RowsOf(r)[m])
  <2>1. AsWas(RowOr(q, m), RowsOf(r)[m])
    <3>1. CASE m \in T
      BY <3>1 DEF Puts
    <3>2. CASE m \notin T
      <4>1. m \in DOMAIN q.by /\ RowsOf(r)[m] = RowsOf(q)[m]
        BY <3>2 DEF Puts
      <4> QED BY <4>1 DEF AsWas, RowOr
    <3> QED BY <3>1, <3>2
  <2>2. AsWas(RowOr(p, m), RowOr(q, m))
    <3>1. CASE m \in DOMAIN q.by /\ m \in S
      BY <3>1 DEF Puts, RowOr
    <3>2. CASE m \in DOMAIN q.by /\ m \notin S
      <4>1. m \in DOMAIN p.by /\ RowsOf(q)[m] = RowsOf(p)[m]
        BY <3>2 DEF Puts
      <4> QED BY <3>2, <4>1 DEF AsWas, RowOr
    <3>3. CASE m \notin DOMAIN q.by
      <4>1. m \notin DOMAIN p.by
        BY <3>3 DEF Puts
      <4> QED BY <3>3, <4>1 DEF AsWas, RowOr
    <3> QED BY <3>1, <3>2, <3>3
  <2> QED BY <2>1, <2>2 DEF AsWas
<1> QED BY <1>1, <1>2, <1>3, <1>4 DEF Puts

LEMMA NoPuts ==
  ASSUME NEW p, NEW S
  PROVE  Puts(p, p, S)
BY DEF Puts, AsWas, RowOr

(* set_pose, then the velocities, of a row.                                *)
LEMMA PoseAsWas ==
  ASSUME NEW q, Packed(q), NEW l \in DOMAIN q.by, NEW x \in Int
  PROVE  LET r == SetCell(q, l, "pose", x)
             t == SetCell(r, l, "body", 1) IN
         /\ Touches(q, r, l) /\ AsWas(At(q, q.by[l]), At(r, q.by[l]))
         /\ Touches(q, t, l) /\ AsWas(At(q, q.by[l]), At(t, q.by[l]))
<1> DEFINE r == SetCell(q, l, "pose", x)
           t == SetCell(r, l, "body", 1)
           i == q.by[l]
<1>1. "pose" \in Cols \ {"kind"} /\ "body" \in Cols \ {"kind"}
  BY DEF Cols
<1>2. Touches(q, r, l) /\ At(r, i) = Amended(At(q, i), "pose", x)
  BY <1>1, CellTouches
<1> HIDE DEF r
<1>3. Packed(r) /\ r.by = q.by
  BY <1>2 DEF Touches
<1>4. Touches(r, t, l) /\ At(t, i) = Amended(At(r, i), "body", 1)
  BY <1>1, <1>3, CellTouches
<1> HIDE DEF t
<1>5. Touches(q, t, l)
  BY <1>2, <1>4, TouchesTwice
<1>6. At(q, i) = [f \in Fields |-> At(q, i)[f]] /\ At(r, i) = [f \in Fields |-> At(r, i)[f]]
  BY AtFields
<1>7. \A f \in Fields \ {"pose", "body"} : At(r, i)[f] = At(q, i)[f] /\ At(t, i)[f] = At(r, i)[f]
  BY <1>2, <1>4, <1>6 DEF Amended
<1> QED BY <1>2, <1>5, <1>7 DEF AsWas, r, t

LEMMA MovedRows ==
  ASSUME NEW at, Packed(at.p), NEW l \in Loci, NEW x \in Int, cap \in Nat
  PROVE  LET r == Moved(at, l, x) IN
         /\ Packed(r.p) /\ Puts(at.p, r.p, {l})
         /\ \/ r = at
            \/ /\ Has(at.p, l) \/ Len(at.p.sigils) < cap
               /\ Touches(Based(at.p, l), r.p, l)
               /\ r.s = Reindex(Ensure(at.s, r.p.by[l]), r.p, canon, r.p.by[l])
<1>1. CASE ~Has(at.p, l) /\ Len(at.p.sigils) >= cap
  <2>1. Moved(at, l, x) = at
    BY <1>1 DEF Moved
  <2> QED BY <2>1, NoPuts
<1>2. CASE Has(at.p, l) \/ ~(Len(at.p.sigils) >= cap)
  <2> DEFINE q == Based(at.p, l)
             p == SetCell(SetCell(q, l, "pose", x), l, "body", 1)
  <2>1. Moved(at, l, x) = [p |-> p, s |-> Reindex(Ensure(at.s, p.by[l]), p, canon, p.by[l])]
    BY <1>2 DEF Moved, Based
  <2>2. Packed(q) /\ l \in DOMAIN q.by
    BY BasedRows
  <2>3. Touches(q, p, l) /\ AsWas(At(q, q.by[l]), At(p, q.by[l]))
    <3> HIDE DEF q
    <3> QED BY <2>2, PoseAsWas
  <2> HIDE DEF p
  <2>4. Has(at.p, l) \/ Len(at.p.sigils) < cap
    BY <1>2, CountRows
  <2>5. Packed(p) /\ Puts(at.p, p, {l})
    BY <2>3, <2>4, PlacedPuts
  <2> QED BY <2>1, <2>3, <2>4, <2>5
<1> QED BY <1>1, <1>2

-----------------------------------------------------------------------------
(* The packed projection implements the map of rows.                       *)
RowsInv ==
    /\ Packed(proj) /\ cap \in Nat /\ canon \in Canons
    /\ \A list \in held : IsList(list)

HeldRows == {RowsIn(list) : list \in held}

LEMMA RowsInit ==
  ASSUME Init
  PROVE  RowsInv /\ Map!Init
<1>1. PICK seed \in Seeds : /\ proj = PutRows(Empty, seed.rows)
                            /\ cap = seed.cap /\ canon = seed.canon /\ held = {}
  BY DEF Init
<1>2. seed.canon \in Canons /\ seed.cap \in 0 .. ProcessCap /\ IsList(seed.rows)
  BY RowsAssumption
<1>3. Packed(proj)
  BY <1>1, <1>2, EmptyPacked, PutRowsRows
<1>4. cap \in 0 .. ProcessCap /\ ProcessCap \in Nat
  BY <1>1, <1>2, CellAssumption
<1>5. DOMAIN RowsOf(proj) \subseteq Loci
  BY <1>3, LociAreLoci, RowsAreAt
<1>6. {RowsIn(list) : list \in held} = {}
  BY <1>1
<1>7. cap \in Nat
  BY <1>4
<1> QED BY <1>1, <1>2, <1>3, <1>4, <1>5, <1>6, <1>7 DEF RowsInv, Map!Init

(* LocusRows counts as this module does.                                   *)
LEMMA SameCount ==
  ASSUME NEW S
  PROVE  Map!Cardinality(S) = Cardinality(S)
BY DEF Map!Cardinality, Cardinality

LEMMA FitsIs ==
  ASSUME RowsInv, NEW S \in SUBSET Loci
  PROVE  Map!Fits(S) <=> Len(proj.sigils) + Cardinality(S \ DOMAIN proj.by) <= cap
<1> DEFINE D == DOMAIN proj.by
           N == S \ D
<1>1. IsFiniteSet(D) /\ Len(proj.sigils) \in Nat /\ Cardinality(D) = Len(proj.sigils)
  BY CountRows DEF RowsInv
<1>2. IsFiniteSet(N)
  <2>1. N \in SUBSET Loci
    OBVIOUS
  <2> QED BY <2>1, CellAssumption, FS_Subset
<1>3. D \cup S = D \cup N /\ D \cap N = {}
  OBVIOUS
<1>4. DOMAIN RowsOf(proj) = D
  BY RowsAreAt
<1> HIDE DEF D, N
<1>5. Cardinality(D \cap N) = 0
  BY <1>3, FS_EmptySet
<1>6. Cardinality(N) \in Nat /\ Cardinality(D) \in Nat
  BY <1>1, <1>2, FS_CardinalityType
<1>7. Cardinality(D \cup S) = Cardinality(D) + Cardinality(N)
  <2>1. Cardinality(D \cup N) = Cardinality(D) + Cardinality(N) - Cardinality(D \cap N)
    BY <1>1, <1>2, FS_Union
  <2>2. Cardinality(D \cup N) = Cardinality(D) + Cardinality(N)
    BY <1>5, <1>6, <2>1
  <2> QED BY <1>3, <2>2
<1>8. Map!Fits(S) <=> Cardinality(D \cup S) <= cap
  <2>1. DOMAIN RowsOf(proj) \cup S = D \cup S
    BY <1>4
  <2> QED BY <2>1, SameCount DEF Map!Fits
<1>9. cap \in Nat
  BY DEF RowsInv
<1> QED BY <1>1, <1>6, <1>7, <1>8, <1>9 DEF N, D

LEMMA SetsSet ==
  ASSUME RowsInv, NEW l, Sets(l)
  PROVE  RowsInv' /\ l \in Loci /\ Map!Set(l)
<1>1. l \in DOMAIN proj.by /\ Touches(proj, proj', l) /\ UNCHANGED <<cap, canon, held>>
  BY DEF Sets
<1>2. Packed(proj) /\ Packed(proj') /\ proj'.by = proj.by
  BY <1>1 DEF RowsInv, Touches
<1>3. RowsOf(proj') = [m \in DOMAIN proj.by |-> IF m = l THEN At(proj', proj.by[l]) ELSE RowsOf(proj)[m]]
  BY <1>1, <1>2, TouchedRows
<1>4. DOMAIN RowsOf(proj) = DOMAIN proj.by /\ RowsOf(proj)[l] = At(proj, proj.by[l])
  BY <1>1, <1>2, RowsAreRows
<1>5. RowsOf(proj')[l].kind = RowsOf(proj)[l].kind
  BY <1>1, <1>3, <1>4 DEF Touches
<1>6. HeldRows' = HeldRows
  BY <1>1 DEF HeldRows
<1>7. Map!Set(l)
  BY <1>1, <1>3, <1>4, <1>5, <1>6 DEF Map!Set, Map!Same, HeldRows
<1>8. RowsInv'
  BY <1>1, <1>2 DEF RowsInv
<1>9. l \in Loci
  BY <1>1, <1>2, LociAreLoci
<1> QED BY <1>7, <1>8, <1>9

LEMMA PosedIs ==
  ASSUME NEW a, NEW b, a = [f \in Fields |-> a[f]], b = [f \in Fields |-> b[f]], AsWas(a, b)
  PROVE  b = [a EXCEPT !.pose = b.pose, !.body = b.body]
<1> DEFINE u == b["pose"]
           v == b["body"]
<1>1. "pose" \in Fields /\ "body" \in Fields
  BY DEF Fields, Cols
<1> HIDE DEF u, v
<1>2. [a EXCEPT !.pose = u, !.body = v] =
         [f \in Fields |-> IF f = "body" THEN v ELSE IF f = "pose" THEN u ELSE a[f]]
  BY <1>1
<1>3. \A f \in Fields : b[f] = IF f = "body" THEN v ELSE IF f = "pose" THEN u ELSE a[f]
  BY DEF AsWas, u, v
<1>4. b = [a EXCEPT !.pose = u, !.body = v]
  BY <1>2, <1>3
<1> QED BY <1>4 DEF u, v

LEMMA PutsMove ==
  ASSUME RowsInv, NEW S \in SUBSET Loci, Packed(proj'), Puts(proj, proj', S),
         UNCHANGED <<cap, canon, held>>
  PROVE  RowsInv' /\ Map!Move(S)
<1> DEFINE r == RowsOf(proj)
           t == RowsOf(proj')
<1>1. DOMAIN r = DOMAIN proj.by /\ DOMAIN t = DOMAIN proj'.by
  BY RowsAreAt
<1>2. ASSUME NEW l \in DOMAIN t \cap S
      PROVE  LET was0 == IF l \in DOMAIN r THEN r[l] ELSE Blank("relic")
             IN  t[l] = [was0 EXCEPT !.pose = t[l].pose, !.body = t[l].body]
  <2> DEFINE was0 == IF l \in DOMAIN r THEN r[l] ELSE Blank("relic")
  <2>1. was0 = RowOr(proj, l)
    BY <1>1 DEF RowOr
  <2>2. AsWas(was0, t[l])
    BY <1>1, <2>1 DEF Puts
  <2>3. IsRow(was0) /\ IsRow(t[l])
    BY <1>1, RowsAreRows, BlankIsRow DEF RowsInv
  <2> HIDE DEF was0, t
  <2>4. t[l] = [was0 EXCEPT !.pose = t[l].pose, !.body = t[l].body]
    BY <2>2, <2>3, PosedIs, RowFields
  <2> QED BY <2>4 DEF was0
<1>3. Cardinality(DOMAIN t) = Len(proj'.sigils)
  BY <1>1, CountRows
<1>4. HeldRows' = HeldRows
  BY DEF HeldRows
<1>5. /\ DOMAIN r \subseteq DOMAIN t /\ DOMAIN t \subseteq DOMAIN r \cup S
      /\ DOMAIN t # DOMAIN r => Cardinality(DOMAIN t) <= cap
      /\ \A l \in DOMAIN r \ S : t[l] = r[l]
  BY <1>1, <1>3 DEF Puts
<1>6. Map!Move(S)
  <2>1. Map!Same(DOMAIN r \ S)
    BY <1>5 DEF Map!Same
  <2>2. UNCHANGED <<cap, canon>> /\ {RowsIn(list) : list \in held}' = {RowsIn(list) : list \in held}
    BY <1>4 DEF HeldRows
  <2>3. DOMAIN t # DOMAIN r => Map!Cardinality(DOMAIN t) <= cap
    BY <1>5, SameCount
  <2> QED BY <1>2, <1>5, <2>1, <2>2, <2>3, Zenon DEF Map!Move
<1>7. RowsInv'
  BY DEF RowsInv
<1> QED BY <1>6, <1>7

LEMMA InsertImplements ==
  ASSUME RowsInv, NEW l \in Loci, NEW k \in Kinds, InsertLocus(l, k)
  PROVE  RowsInv' /\ (Map!Insert(l, k) \/ UNCHANGED Map!vars)
<1>1. CASE /\ Has(proj, l)
           /\ Writes(proj, Ensure(space, proj.by[l]))
  <2>1. UNCHANGED <<proj, cap, canon, held>>
    BY <1>1 DEF Writes, Calls
  <2> QED BY <2>1 DEF RowsInv, Map!vars
<1>2. CASE /\ ~Has(proj, l) /\ Len(proj.sigils) < cap
           /\ LET p == Push(proj, l, Blank(k)) IN Writes(p, Ensure(space, p.by[l]))
  <2> DEFINE p == Push(proj, l, Blank(k))
  <2>1. proj' = p /\ UNCHANGED <<cap, canon, held>> /\ l \notin DOMAIN proj.by
    BY <1>2 DEF Writes, Calls, Has
  <2>2. /\ Packed(p) /\ DOMAIN p.by = DOMAIN proj.by \cup {l}
        /\ RowsOf(p) = [m \in DOMAIN proj.by \cup {l} |-> IF m = l THEN Blank(k) ELSE RowsOf(proj)[m]]
    <3>1. l \in Loci \ DOMAIN proj.by /\ IsRow(Blank(k)) /\ Packed(proj)
      BY <2>1, BlankIsRow DEF RowsInv
    <3> QED BY <3>1, PushRows
  <2> HIDE DEF p
  <2>3. Map!Fits({l})
    <3>1. {l} \ DOMAIN proj.by = {l} /\ Cardinality({l}) = 1
      BY <2>1, FS_Singleton
    <3>2. Len(proj.sigils) \in Nat /\ cap \in Nat /\ Len(proj.sigils) < cap
      BY <1>2, CountRows DEF RowsInv
    <3>3. Len(proj.sigils) + Cardinality({l} \ DOMAIN proj.by) <= cap
      <4> DEFINE n == Len(proj.sigils)
                 k1 == Cardinality({l} \ DOMAIN proj.by)
      <4>1. n \in Nat /\ cap \in Nat /\ n < cap /\ k1 = 1
        BY <3>1, <3>2
      <4> HIDE DEF n, k1
      <4>2. n + k1 <= cap
        BY <4>1
      <4> QED BY <4>2 DEF n, k1
    <3>4. {l} \in SUBSET Loci
      OBVIOUS
    <3> QED BY <3>3, <3>4, FitsIs
  <2>4. HeldRows' = HeldRows
    BY <2>1 DEF HeldRows
  <2>5. DOMAIN RowsOf(proj) = DOMAIN proj.by
    BY RowsAreAt
  <2>6. RowsOf(proj') = [m \in DOMAIN RowsOf(proj) \cup {l} |->
                            IF m = l THEN Blank(k) ELSE RowsOf(proj)[m]]
    BY <2>1, <2>2, <2>5
  <2>7. Map!Insert(l, k)
    BY <2>1, <2>3, <2>4, <2>5, <2>6 DEF Map!Insert, HeldRows
  <2>8. RowsInv'
    BY <2>1, <2>2 DEF RowsInv
  <2> QED BY <2>7, <2>8
<1> QED BY <1>1, <1>2 DEF InsertLocus

LEMMA SpawnImplements ==
  ASSUME RowsInv, NEW l \in Loci, NEW x \in Spots, Spawn(l, x)
  PROVE  RowsInv' /\ Map!Move({l})
<1> DEFINE q == Based(proj, l)
           p == SetCell(q, l, "pose", x)
<1>1. /\ Has(proj, l) \/ Len(proj.sigils) < cap
      /\ proj' = p /\ UNCHANGED <<cap, canon, held>>
  BY DEF Spawn, Based, Writes, Calls
<1>2. Packed(proj) /\ cap \in Nat
  BY DEF RowsInv
<1>3. Packed(q) /\ l \in DOMAIN q.by /\ x \in Int
  BY <1>2, BasedRows, CellAssumption
<1>4. Touches(q, p, l) /\ AsWas(At(q, q.by[l]), At(p, q.by[l]))
  <2> HIDE DEF q
  <2> QED BY <1>3, PoseAsWas
<1> HIDE DEF p
<1>5. Packed(p) /\ Puts(proj, p, {l})
  BY <1>1, <1>2, <1>4, PlacedPuts
<1>6. {l} \in SUBSET Loci
  OBVIOUS
<1> QED BY <1>1, <1>5, <1>6, PutsMove

LEMMA OnceMoved ==
  ASSUME NEW at, NEW l, NEW x
  PROVE  Once(at, LAMBDA a : Moved(a, l, x)) = Moved(at, l, x)
<1> DEFINE y == Moved(at, l, x)
<1>1. {Moved(v, l, x) : v \in {at}} = {y}
  OBVIOUS
<1> HIDE DEF y
<1>2. (CHOOSE z \in {y} : TRUE) = y
  OBVIOUS
<1> QED BY <1>1, <1>2 DEF Once, y

LEMMA IslandSnapImplements ==
  ASSUME RowsInv, NEW l \in Loci, NEW b \in Loci, NEW x \in Spots, IslandSnap(l, b, x)
  PROVE  RowsInv' /\ Map!Move({l, b})
<1> DEFINE at == [p |-> proj, s |-> space]
           one == Moved(at, l, x)
           two == Moved(one, b, x)
<1>1. proj' = two.p /\ UNCHANGED <<cap, canon, held>>
  <2>1. Once(Moved([p |-> proj, s |-> space], l, x), LAMBDA a : Moved(a, b, x)) = two
    BY OnceMoved
  <2> HIDE DEF two
  <2> QED BY <2>1 DEF IslandSnap, Writes, Calls
<1>2. Packed(at.p) /\ cap \in Nat /\ x \in Int /\ at.p = proj
  BY CellAssumption DEF RowsInv
<1> HIDE DEF at
<1>3. Packed(one.p) /\ Puts(proj, one.p, {l})
  BY <1>2, MovedRows
<1> HIDE DEF one
<1>4. Packed(two.p) /\ Puts(one.p, two.p, {b})
  BY <1>2, <1>3, MovedRows
<1> HIDE DEF two
<1>5. Puts(proj, two.p, {l} \cup {b})
  BY <1>2, <1>3, <1>4, PutsTwice
<1>6. {l} \cup {b} = {l, b} /\ {l, b} \in SUBSET Loci
  OBVIOUS
<1> QED BY <1>1, <1>4, <1>5, <1>6, PutsMove

(* Rows that leave.                                                        *)
LEMMA DropImplements ==
  ASSUME RowsInv, NEW S, S \subseteq DOMAIN proj.by, proj' = DropLoci(proj, S),
         UNCHANGED <<cap, canon, held>>
  PROVE  RowsInv' /\ Map!Drop(S)
<1>1. /\ Packed(proj')
      /\ RowsOf(proj') = [l \in DOMAIN proj.by \ S |-> Shorn(RowsOf(proj)[l], S)]
  BY DropLociRows DEF RowsInv
<1>2. DOMAIN RowsOf(proj) = DOMAIN proj.by
  BY RowsAreAt
<1>3. \A l \in DOMAIN proj.by : Shorn(RowsOf(proj)[l], S) = Map!Without(RowsOf(proj)[l], S)
  <2> TAKE l \in DOMAIN proj.by
  <2>1. IsRow(RowsOf(proj)[l])
    BY RowsAreRows DEF RowsInv
  <2> QED BY <2>1, RowFields, WithoutIsShorn
<1>4. RowsOf(proj') = [l \in DOMAIN RowsOf(proj) \ S |-> Map!Without(RowsOf(proj)[l], S)]
  BY <1>1, <1>2, <1>3
<1> QED BY <1>1, <1>4 DEF RowsInv, Map!Drop

LEMMA RemoveImplements ==
  ASSUME RowsInv, NEW l \in Loci, RemoveLocus(l)
  PROVE  RowsInv' /\ Map!Remove(l)
<1>1. {l} \subseteq DOMAIN proj.by /\ proj' = DropLoci(proj, {l}) /\ UNCHANGED <<cap, canon, held>>
  BY DEF RemoveLocus, Has, Writes, Calls
<1>2. RowsInv' /\ Map!Drop({l})
  BY <1>1, DropImplements
<1>3. DOMAIN RowsOf(proj) = DOMAIN proj.by
  BY RowsAreAt
<1>4. HeldRows' = HeldRows
  BY <1>1 DEF HeldRows
<1> QED BY <1>1, <1>2, <1>3, <1>4 DEF Map!Remove, HeldRows

LEMMA InIsInPlace ==
  ASSUME NEW l
  PROVE  /\ Map!In(l) = InPlace(RowsOf(proj), l)
         /\ \A m : Map!Hosts(m) = HostsIn(RowsOf(proj), m)
BY DEF Map!In, InPlace, Map!Hosts, HostsIn, Carriers

LEMMA EvictImplements ==
  ASSUME RowsInv, NEW l \in Loci, EvictPlace(l)
  PROVE  RowsInv' /\ Map!Evict(l)
<1> DEFINE S == EvictPlan(proj, l)
<1>1. /\ l \in DOMAIN proj.by /\ proj' = DropLoci(proj, S) /\ UNCHANGED <<cap, canon, held>>
      /\ S \subseteq DOMAIN proj.by
  BY DEF EvictPlace, EvictRows, Has, Calls, EvictPlan, PlaceMembers
<1> HIDE DEF S
<1>2. RowsInv' /\ Map!Drop(S)
  BY <1>1, DropImplements
<1>3. Map!Owned(l) = S
  <2>1. S = {m \in InPlace(RowsOf(proj), l) \ {l} :
               HostsIn(RowsOf(proj), m) \subseteq InPlace(RowsOf(proj), l)}
    BY MembersAreRows DEF RowsInv, S
  <2> QED BY <2>1, InIsInPlace DEF Map!Owned
<1>4. DOMAIN RowsOf(proj) = DOMAIN proj.by
  BY RowsAreAt
<1>5. HeldRows' = HeldRows
  BY <1>1 DEF HeldRows
<1> QED BY <1>1, <1>2, <1>3, <1>4, <1>5 DEF Map!Evict, HeldRows

LEMMA CaptureImplements ==
  ASSUME RowsInv, NEW l \in Loci, CapturePlace(l)
  PROVE  RowsInv' /\ Map!Capture(l)
<1> DEFINE s == PlaceSnap(proj, l)
<1>1. l \in DOMAIN proj.by /\ proj' = proj /\ held' = {s} /\ UNCHANGED <<cap, canon>>
  BY DEF CapturePlace, Has, Calls
<1>2. /\ IsList(s) /\ RowsIn(s) = [m \in InPlace(RowsOf(proj), l) |-> RowsOf(proj)[m]]
  BY <1>1, PlaceSnapRows DEF RowsInv
<1> HIDE DEF s
<1>3. HeldRows' = {RowsIn(s)}
  BY <1>1 DEF HeldRows
<1>4. RowsIn(s) = [m \in Map!In(l) |-> RowsOf(proj)[m]]
  BY <1>2, InIsInPlace
<1>5. DOMAIN RowsOf(proj) = DOMAIN proj.by
  BY RowsAreAt
<1>6. RowsInv'
  BY <1>1, <1>2 DEF RowsInv
<1>7. {RowsIn(list) : list \in held}' = {[m \in Map!In(l) |-> RowsOf(proj)[m]]}
  BY <1>3, <1>4 DEF HeldRows
<1>8. UNCHANGED <<RowsOf(proj), cap, canon>>
  BY <1>1
<1> QED BY <1>1, <1>5, <1>6, <1>7, <1>8 DEF Map!Capture

(* Snapshots that are applied.                                             *)
LEMMA ApplyImplements ==
  ASSUME RowsInv, NEW list, IsList(list), ApplyPlaceSnap(list)
  PROVE  RowsInv' /\ Map!Load(RowsIn(list))
<1>1. /\ proj' = PutRows(proj, list) /\ UNCHANGED <<cap, canon, held>>
      /\ Len(proj.sigils) + Cardinality(LociOf(list) \ DOMAIN proj.by) <= cap
      /\ OneEach(list)
  BY DistinctIsOneEach DEF ApplyPlaceSnap, Calls
<1>2. /\ Packed(proj')
      /\ RowsOf(proj') = [l \in DOMAIN proj.by \cup LociOf(list) |->
                             IF l \in LociOf(list) THEN RowsIn(list)[l] ELSE RowsOf(proj)[l]]
  BY <1>1, PutRowsRows DEF RowsInv
<1>3. DOMAIN RowsIn(list) = LociOf(list)
  BY DEF RowsIn
<1>4. LociOf(list) \in SUBSET Loci
  BY DEF LociOf, IsList
<1>5. Map!Fits(DOMAIN RowsIn(list))
  BY <1>1, <1>3, <1>4, FitsIs
<1>6. DOMAIN RowsOf(proj) = DOMAIN proj.by
  BY RowsAreAt
<1>7. HeldRows' = HeldRows
  BY <1>1 DEF HeldRows
<1>8. Map!Load(RowsIn(list))
  BY <1>1, <1>2, <1>3, <1>5, <1>6, <1>7 DEF Map!Load, HeldRows
<1>9. RowsInv'
  BY <1>1, <1>2 DEF RowsInv
<1> QED BY <1>8, <1>9

LEMMA LoadImplements ==
  ASSUME RowsInv, LoadCooked \/ LoadHeld
  PROVE  RowsInv' /\ \E snap \in Cooked(canon) \cup HeldRows : Map!Load(snap)
<1>1. CASE LoadCooked
  <2>1. PICK list \in Catalog[canon] : ApplyPlaceSnap(list)
    BY <1>1 DEF LoadCooked
  <2>2. IsList(list)
    BY RowsAssumption DEF RowsInv
  <2>3. RowsIn(list) \in Cooked(canon)
    BY DEF Cooked
  <2> QED BY <2>1, <2>2, <2>3, ApplyImplements
<1>2. CASE LoadHeld
  <2>1. PICK list \in held : ApplyPlaceSnap(list)
    BY <1>2 DEF LoadHeld
  <2>2. IsList(list)
    BY DEF RowsInv
  <2>3. RowsIn(list) \in HeldRows
    BY DEF HeldRows
  <2> QED BY <2>1, <2>2, <2>3, ApplyImplements
<1> QED BY <1>1, <1>2

LEMMA ReloadImplements ==
  ASSUME RowsInv, Reload
  PROVE  RowsInv' /\ Map!Reload
<1>1. proj' = PutRows(Empty, SnapRows(proj)) /\ cap' = ProcessCap /\ UNCHANGED <<canon, held>>
  BY DEF Reload, Calls
<1> DEFINE list == SnapRows(proj)
<1>2. /\ IsList(list) /\ OneEach(list) /\ LociOf(list) = DOMAIN proj.by
      /\ RowsIn(list) = RowsOf(proj)
  BY SnapRowsRows DEF RowsInv
<1> HIDE DEF list
<1>3. /\ Packed(proj')
      /\ RowsOf(proj') = [l \in DOMAIN Empty.by \cup LociOf(list) |->
                             IF l \in LociOf(list) THEN RowsIn(list)[l] ELSE RowsOf(Empty)[l]]
  BY <1>1, <1>2, EmptyPacked, PutRowsRows DEF list
<1>4. RowsOf(proj) = [l \in DOMAIN proj.by |-> RowsOf(proj)[l]]
  BY RowsAreAt
<1>5. RowsOf(proj') = RowsOf(proj)
  BY <1>2, <1>3, <1>4, EmptyPacked
<1>6. HeldRows' = HeldRows
  BY <1>1 DEF HeldRows
<1>7. RowsInv'
  BY <1>1, <1>3, CellAssumption DEF RowsInv
<1> QED BY <1>1, <1>5, <1>6, <1>7 DEF Map!Reload, HeldRows

LEMMA EpochImplements ==
  ASSUME RowsInv, NEW c \in Canons, ApplyEpoch(c)
  PROVE  RowsInv' /\ Map!Epoch(c)
<1>1. /\ c # canon /\ canon' = c /\ held' = {} /\ cap' = cap
      /\ proj' = RemapEpoch(proj, canon, c)
  BY DEF ApplyEpoch, Calls
<1>2. /\ Packed(proj')
      /\ RowsOf(proj') = [l \in DOMAIN proj.by |-> Carried(canon, c, RowsOf(proj)[l])]
  BY <1>1, RemapEpochRows DEF RowsInv
<1>3. DOMAIN RowsOf(proj) = DOMAIN proj.by
  BY RowsAreAt
<1>4. {RowsIn(list) : list \in held}' = {}
  BY <1>1
<1>5. RowsInv'
  BY <1>1, <1>2 DEF RowsInv
<1> QED BY <1>1, <1>2, <1>3, <1>4, <1>5 DEF Map!Epoch

LEMMA StepImplements ==
  ASSUME RowsInv, [Next]_vars
  PROVE  RowsInv' /\ [Map!Next]_Map!vars
<1>1. CASE UNCHANGED vars
  BY <1>1 DEF vars, RowsInv, Map!vars
<1>2. ASSUME NEW l \in Loci, Setter(l) PROVE RowsInv' /\ Map!Next
  <2>1. Sets(l)
    BY <1>2, SettersSet DEF RowsInv
  <2>2. RowsInv' /\ Map!Set(l)
    BY <2>1, SetsSet
  <2> QED BY <2>2 DEF Map!Next
<1>3. ASSUME NEW l \in Loci, NEW x \in Spots, Spawn(l, x) PROVE RowsInv' /\ Map!Next
  <2>1. RowsInv' /\ Map!Move({l})
    BY <1>3, SpawnImplements
  <2>2. {l} \in SUBSET Loci
    OBVIOUS
  <2> QED BY <2>1, <2>2 DEF Map!Next
<1>4. ASSUME NEW l \in Loci, SetRow(l) PROVE RowsInv' /\ Map!Next
  BY <1>2, <1>3, <1>4 DEF SetRow, Setter
<1>5. ASSUME NEW l \in Loci, Page(l) PROVE RowsInv' /\ Map!Next
  BY <1>5, RemoveImplements, CaptureImplements, EvictImplements DEF Page, Map!Next
<1>6. ASSUME NEW l \in Loci, NEW k \in Kinds, InsertLocus(l, k)
      PROVE  RowsInv' /\ (Map!Next \/ UNCHANGED Map!vars)
  BY <1>6, InsertImplements DEF Map!Next
<1>7. ASSUME NEW l \in Loci, NEW b \in Loci, Relate(l, b) PROVE RowsInv' /\ Map!Next
  BY <1>2, <1>7 DEF Setter
<1>8. ASSUME NEW l \in Loci, NEW b \in Loci, NEW x \in Spots, IslandSnap(l, b, x)
      PROVE  RowsInv' /\ Map!Next
  <2>1. RowsInv' /\ Map!Move({l, b})
    BY <1>8, IslandSnapImplements
  <2>2. {l, b} \in SUBSET Loci
    OBVIOUS
  <2> QED BY <2>1, <2>2 DEF Map!Next
<1>9. ASSUME LoadCooked \/ LoadHeld PROVE RowsInv' /\ Map!Next
  BY <1>9, LoadImplements DEF Map!Next, HeldRows
<1>10. ASSUME Reload PROVE RowsInv' /\ Map!Next
  BY <1>10, ReloadImplements DEF Map!Next
<1>11. ASSUME NEW c \in Canons, ApplyEpoch(c) PROVE RowsInv' /\ Map!Next
  BY <1>11, EpochImplements DEF Map!Next
<1>12. CASE Next
  BY <1>4, <1>5, <1>6, <1>7, <1>8, <1>9, <1>10, <1>11, <1>12 DEF Next
<1> QED BY <1>1, <1>12

(* The packed projection is a map of rows, whatever its callers do: every  *)
(* step of the swap-remove table, its index-keyed maps and its columns is  *)
(* the step LocusRows has for it, or none that a reader of rows can see.   *)
THEOREM SpecImplementsRows == Spec => ImplementsRows
<1>1. Init => RowsInv /\ Map!Init
  BY RowsInit
<1>2. RowsInv /\ [Next]_vars => RowsInv' /\ [Map!Next]_Map!vars
  BY StepImplements
<1> QED BY <1>1, <1>2, PTL DEF Spec, ImplementsRows, Map!Spec

-----------------------------------------------------------------------------
(* A Place that is captured, evicted and loaded again.  What is held since *)
(* the capture is the Place and its members as they were; the rows are all *)
(* of those, then those that stayed, shorn of the ones that went, then all *)
(* of them again.                                                          *)
HeldIs(old, l) ==
    \E list : /\ held = {list} /\ LociOf(list) = InPlace(old, l)
              /\ RowsIn(list) = [m \in InPlace(old, l) |-> old[m]]

RowsAre(old, l, gone, stage) ==
    RowsOf(proj) =
        CASE stage = "captured" -> old
          [] stage = "evicted" -> [m \in DOMAIN old \ gone |-> Shorn(old[m], gone)]
          [] stage = "back" -> [m \in DOMAIN old |->
                                  IF m \in InPlace(old, l) THEN old[m] ELSE Shorn(old[m], gone)]

Paged(old, l, gone, stage) ==
    /\ old = [m \in DOMAIN old |-> old[m]] /\ \A m \in DOMAIN old : IsRow(old[m])
    /\ l \in DOMAIN old /\ gone \subseteq InPlace(old, l)
    /\ stage \in {"captured", "evicted", "back"}
    /\ HeldIs(old, l) /\ RowsAre(old, l, gone, stage)

PageInv ==
    was # None =>
        /\ was = [place |-> was.place, rows |-> was.rows, gone |-> was.gone, stage |-> was.stage]
        /\ Paged(was.rows, was.place, was.gone, was.stage)

LEMMA PageSteps ==
  ASSUME Next
  PROVE  was' = None \/ LoadHeld \/ \E l \in Loci : CapturePlace(l) \/ EvictPlace(l)
<1>1. ASSUME NEW l \in Loci, SetRow(l) PROVE was' = None
  BY <1>1 DEF SetRow, SetAffordance, SetHull, SetPose, Spawn, SetBody, SetMaps, SetMap, Writes
<1>2. ASSUME NEW l \in Loci, NEW b \in Loci, Relate(l, b) PROVE was' = None
  BY <1>2 DEF Relate, AddIn, DelIn, AddRel, DelRel, Writes
<1>3. ASSUME NEW l \in Loci, NEW k \in Kinds, InsertLocus(l, k) PROVE was' = None
  BY <1>3 DEF InsertLocus, Writes
<1>4. ASSUME NEW l \in Loci, NEW b \in Loci, NEW x \in Spots, IslandSnap(l, b, x)
      PROVE  was' = None
  BY <1>4 DEF IslandSnap, Writes
<1>5. ASSUME NEW l \in Loci, RemoveLocus(l) PROVE was' = None
  BY <1>5 DEF RemoveLocus, Writes
<1>6. LoadCooked \/ Reload \/ (\E c \in Canons : ApplyEpoch(c)) => was' = None
  BY DEF LoadCooked, Reload, ApplyEpoch
<1> QED BY <1>1, <1>2, <1>3, <1>4, <1>5, <1>6 DEF Next, Page

LEMMA CapturePages ==
  ASSUME RowsInv, NEW l \in Loci, CapturePlace(l)
  PROVE  PageInv'
<1> DEFINE old == RowsOf(proj)
           s == PlaceSnap(proj, l)
<1>1. /\ l \in DOMAIN proj.by /\ proj' = proj /\ held' = {s}
      /\ was' = [place |-> l, rows |-> old, gone |-> {}, stage |-> "captured"]
  BY DEF CapturePlace, Has, Calls
<1>2. LociOf(s) = InPlace(old, l) /\ RowsIn(s) = [m \in InPlace(old, l) |-> old[m]]
  BY <1>1, PlaceSnapRows DEF RowsInv
<1>3. /\ DOMAIN old = DOMAIN proj.by /\ old = [m \in DOMAIN old |-> old[m]]
      /\ \A m \in DOMAIN old : IsRow(old[m])
  BY RowsAreAt, RowsAreRows DEF RowsInv
<1>4. RowsOf(proj') = old
  BY <1>1
<1> HIDE DEF old, s
<1>5. HeldIs(old, l)'
  <2>1. old' = old
    BY <1>4 DEF old
  <2>2. \E list : /\ held' = {list} /\ LociOf(list) = InPlace(old, l)
                  /\ RowsIn(list) = [m \in InPlace(old, l) |-> old[m]]
    BY <1>1, <1>2
  <2> QED BY <2>1, <2>2 DEF HeldIs
<1>6. Paged(old, l, {}, "captured")'
  <2>1. old' = old
    BY <1>4 DEF old
  <2>2. RowsAre(old, l, {}, "captured")'
    BY <1>4, <2>1 DEF RowsAre
  <2> QED BY <1>1, <1>3, <1>5, <2>1, <2>2 DEF Paged
<1>7. old' = old
  BY <1>4 DEF old
<1> QED BY <1>1, <1>6, <1>7 DEF PageInv

LEMMA EvictPages ==
  ASSUME RowsInv, PageInv, NEW l \in Loci, EvictPlace(l)
  PROVE  PageInv'
<1> DEFINE gone == EvictPlan(proj, l)
           old == was.rows
<1>1. /\ l \in DOMAIN proj.by /\ proj' = DropLoci(proj, gone) /\ held' = held
      /\ was' = IF was # None /\ was.stage = "captured" /\ was.place = l
                THEN [was EXCEPT !.stage = "evicted", !.gone = gone] ELSE None
  BY DEF EvictPlace, EvictRows, Has, Calls
<1>2. CASE ~(was # None /\ was.stage = "captured" /\ was.place = l)
  <2>1. was' = None
    BY <1>1, <1>2
  <2> QED BY <2>1 DEF PageInv
<1>3. CASE was # None /\ was.stage = "captured" /\ was.place = l
  <2>1. /\ was = [place |-> l, rows |-> old, gone |-> was.gone, stage |-> "captured"]
        /\ Paged(old, l, was.gone, "captured")
    BY <1>3 DEF PageInv
  <2>2. RowsOf(proj) = old
    BY <2>1 DEF Paged, RowsAre
  <2>3. gone \subseteq InPlace(old, l) \ {l} /\ gone \subseteq DOMAIN proj.by
    <3>1. gone \subseteq InPlace(old, l) \ {l}
      BY <2>2, MembersAreRows DEF RowsInv
    <3> QED BY <3>1 DEF EvictPlan, PlaceMembers
  <2> HIDE DEF gone
  <2>4. DOMAIN old = DOMAIN proj.by
    BY <2>2, RowsAreAt
  <2>5. RowsOf(proj') = [m \in DOMAIN old \ gone |-> Shorn(old[m], gone)]
    <3>1. RowsOf(DropLoci(proj, gone)) = [m \in DOMAIN proj.by \ gone |-> Shorn(RowsOf(proj)[m], gone)]
      BY <2>3, DropLociRows DEF RowsInv
    <3> QED BY <1>1, <2>2, <2>4, <3>1 DEF gone
  <2>6. was' = [place |-> l, rows |-> old, gone |-> gone, stage |-> "evicted"]
    BY <1>1, <1>3, <2>1
  <2> DEFINE o == old
  <2> HIDE DEF old
  <2>7. /\ was'.rows = old /\ was'.place = l /\ was'.gone = gone /\ was'.stage = "evicted"
        /\ was' = [place |-> was'.place, rows |-> was'.rows, gone |-> was'.gone, stage |-> was'.stage]
    BY <2>6
  <2>8. Paged(was.rows, was.place, was.gone, was.stage)'
    <3>1. HeldIs(was.rows, was.place)'
      BY <1>1, <2>1, <2>7 DEF Paged, HeldIs
    <3>2. RowsAre(was.rows, was.place, was.gone, was.stage)'
      BY <2>5, <2>7 DEF RowsAre
    <3> QED BY <2>1, <2>3, <2>7, <3>1, <3>2 DEF Paged
  <2> QED BY <2>7, <2>8 DEF PageInv
<1> QED BY <1>2, <1>3

LEMMA LoadPages ==
  ASSUME RowsInv, PageInv, LoadHeld
  PROVE  PageInv'
<1> DEFINE old == was.rows
           l == was.place
           gone == was.gone
<1>1. was' = IF was # None /\ was.stage = "evicted" THEN [was EXCEPT !.stage = "back"] ELSE None
  BY DEF LoadHeld
<1>2. CASE ~(was # None /\ was.stage = "evicted")
  BY <1>1, <1>2 DEF PageInv
<1>3. CASE was # None /\ was.stage = "evicted"
  <2>1. /\ was = [place |-> l, rows |-> old, gone |-> gone, stage |-> "evicted"]
        /\ Paged(old, l, gone, "evicted")
    BY <1>3 DEF PageInv
  <2>2. RowsOf(proj) = [m \in DOMAIN old \ gone |-> Shorn(old[m], gone)]
    BY <2>1 DEF Paged, RowsAre
  <2>3. PICK list : /\ held = {list} /\ LociOf(list) = InPlace(old, l)
                    /\ RowsIn(list) = [m \in InPlace(old, l) |-> old[m]]
    BY <2>1 DEF Paged, HeldIs
  <2>4. ApplyPlaceSnap(list) /\ IsList(list)
    BY <2>3 DEF LoadHeld, RowsInv
  <2>5. OneEach(list) /\ proj' = PutRows(proj, list) /\ held' = held
    BY <2>4, DistinctIsOneEach DEF ApplyPlaceSnap, Calls
  <2>6. RowsOf(proj') = [m \in DOMAIN proj.by \cup LociOf(list) |->
                           IF m \in LociOf(list) THEN RowsIn(list)[m] ELSE RowsOf(proj)[m]]
    BY <2>4, <2>5, PutRowsRows DEF RowsInv
  <2>7. DOMAIN proj.by = DOMAIN old \ gone
    BY <2>2, RowsAreAt
  <2>8. InPlace(old, l) \subseteq DOMAIN old /\ gone \subseteq InPlace(old, l)
    BY <2>1 DEF Paged, InPlace
  <2>9. RowsOf(proj') = [m \in DOMAIN old |->
                           IF m \in InPlace(old, l) THEN old[m] ELSE Shorn(old[m], gone)]
    BY <2>2, <2>3, <2>6, <2>7, <2>8
  <2>10. was' = [place |-> l, rows |-> old, gone |-> gone, stage |-> "back"]
    BY <1>1, <1>3, <2>1
  <2> HIDE DEF old, l, gone
  <2>11. /\ was'.rows = old /\ was'.place = l /\ was'.gone = gone /\ was'.stage = "back"
         /\ was' = [place |-> was'.place, rows |-> was'.rows, gone |-> was'.gone, stage |-> was'.stage]
    BY <2>10
  <2>12. Paged(was.rows, was.place, was.gone, was.stage)'
    <3>1. HeldIs(was.rows, was.place)'
      BY <2>1, <2>5, <2>11 DEF Paged, HeldIs
    <3>2. RowsAre(was.rows, was.place, was.gone, was.stage)'
      BY <2>9, <2>11 DEF RowsAre
    <3> QED BY <2>1, <2>11, <3>1, <3>2 DEF Paged
  <2> QED BY <2>11, <2>12 DEF PageInv
<1> QED BY <1>2, <1>3

LEMMA PagesKeep ==
  ASSUME PageInv
  PROVE  PagingKeeps
<1> SUFFICES ASSUME was # None, was.stage = "back"
             PROVE  RowsOf(proj) =
                      [l \in DOMAIN was.rows |->
                          IF l \in UNION {LociOf(list) : list \in held} THEN was.rows[l]
                          ELSE Scrubbed(was.rows[l], was.gone)]
  BY DEF PagingKeeps
<1> DEFINE old == was.rows
           l == was.place
           gone == was.gone
<1>1. Paged(old, l, gone, "back")
  BY DEF PageInv
<1> HIDE DEF old, l, gone
<1>2. PICK list : held = {list} /\ LociOf(list) = InPlace(old, l)
  BY <1>1 DEF Paged, HeldIs
<1>3. UNION {LociOf(h) : h \in held} = InPlace(old, l)
  BY <1>2
<1>4. RowsOf(proj) = [m \in DOMAIN old |->
                        IF m \in InPlace(old, l) THEN old[m] ELSE Shorn(old[m], gone)]
  BY <1>1 DEF Paged, RowsAre
<1>5. \A m \in DOMAIN old : Shorn(old[m], gone) = Scrubbed(old[m], gone)
  BY <1>1, RowFields, WithoutIsShorn DEF Paged
<1> QED BY <1>3, <1>4, <1>5 DEF old, gone

(* A Place that is captured, evicted and loaded again is as it was, the    *)
(* members that migrated meanwhile included, and the rows outside it lost  *)
(* their references to those that were gone, and nothing else.             *)
THEOREM SpecPagingKeeps == Spec => []PagingKeeps
<1>1. Init => RowsInv /\ PageInv
  BY RowsInit DEF Init, PageInv
<1>2. RowsInv /\ PageInv /\ [Next]_vars => RowsInv' /\ PageInv'
  <2> SUFFICES ASSUME RowsInv, PageInv, [Next]_vars PROVE RowsInv' /\ PageInv'
    OBVIOUS
  <2>1. RowsInv'
    BY StepImplements
  <2>2. CASE UNCHANGED vars
    BY <2>1, <2>2 DEF vars, PageInv, Paged, HeldIs, RowsAre
  <2>3. CASE was' = None
    BY <2>1, <2>3 DEF PageInv
  <2>4. CASE Next
    BY <2>1, <2>3, <2>4, PageSteps, CapturePages, EvictPages, LoadPages
  <2> QED BY <2>1, <2>2, <2>4
<1>3. PageInv => PagingKeeps
  BY PagesKeep
<1> QED BY <1>1, <1>2, <1>3, PTL DEF Spec

-----------------------------------------------------------------------------
(* The spatial index.  v says of each index with a box which box, whether  *)
(* a closed and opaque row is there, and which Place's grid it is in: a    *)
(* grid has the cells of its boxes and no others, the bounds of a Place    *)
(* cover its boxes, and home finds the grid again.                         *)
GridIs(g, v, pl) ==
    /\ \A e \in g.cells :
         /\ e[2] \in DOMAIN v /\ v[e[2]].pl = pl
         /\ e[1] \in CellsOf(v[e[2]].box) /\ e[3] = v[e[2]].oc
    /\ \A i \in DOMAIN v : v[i].pl = pl =>
         \A c \in CellsOf(v[i].box) : <<c, i, v[i].oc>> \in g.cells /\ <<i, c>> \in g.occ

Used(v) == {v[i].pl : i \in DOMAIN v} \ {None}
InGrid(v, pl) == {i \in DOMAIN v : v[i].pl = pl}
BoxesOf(v, pl) == [i \in InGrid(v, pl) |-> v[i].box]
Covers(d, v, pl) ==
    /\ d \in Int \X Int
    /\ \A i \in InGrid(v, pl) : d[1] <= v[i].box[1] /\ v[i].box[2] <= d[2]

Boxed(v) ==
    /\ v = [i \in DOMAIN v |-> v[i]]
    /\ \A i \in DOMAIN v : v[i].box \in Int \X Int /\ IsBox(v[i].box)
Homed(home, v) ==
    /\ Len(home) \in Nat /\ home = [i \in 1 .. Len(home) |-> home[i]]
    /\ DOMAIN v \subseteq 1 .. Len(home)
    /\ \A i \in 1 .. Len(home) : home[i] = IF i \in DOMAIN v THEN v[i].pl ELSE None
Gridded(s, v) ==
    /\ GridIs(s.unplaced, v, None)
    /\ s.places = [pl \in Used(v) |-> s.places[pl]]
    /\ \A pl \in Used(v) : GridIs(s.places[pl], v, pl)
Bounded(s, v) ==
    /\ s.hulls = [pl \in Used(v) |-> BoxesOf(v, pl)]
    /\ s.bounds = [pl \in Used(v) |-> s.bounds[pl]]
    /\ \A pl \in Used(v) : Covers(s.bounds[pl], v, pl)
Exact(s, v) ==
    /\ s = [unplaced |-> s.unplaced, places |-> s.places, hulls |-> s.hulls,
            bounds |-> s.bounds, home |-> s.home]
    /\ Boxed(v) /\ Homed(s.home, v) /\ Gridded(s, v) /\ Bounded(s, v)

(* A box leaves its grid, or a grid it is not in; and comes into one.      *)
LEMMA GridUnindexIs ==
  ASSUME NEW g, NEW v, NEW pl, GridIs(g, v, pl), NEW i
  PROVE  GridIs(GridUnindex(g, i), Without(v, i), pl)
<1> DEFINE h == GridUnindex(g, i)
           w == Without(v, i)
<1>1. /\ h.cells = {e \in g.cells : ~(e[2] = i /\ <<i, e[1]>> \in g.occ)}
      /\ h.occ = {e \in g.occ : e[1] # i}
  BY DEF GridUnindex
<1>2. DOMAIN w = DOMAIN v \ {i} /\ \A j \in DOMAIN w : w[j] = v[j]
  BY DEF Without
<1> HIDE DEF h, w
<1>3. ASSUME NEW e \in h.cells
      PROVE  /\ e[2] \in DOMAIN w /\ w[e[2]].pl = pl
             /\ e[1] \in CellsOf(w[e[2]].box) /\ e[3] = w[e[2]].oc
  <2>1. e \in g.cells /\ ~(e[2] = i /\ <<i, e[1]>> \in g.occ)
    BY <1>1
  <2>2. /\ e[2] \in DOMAIN v /\ v[e[2]].pl = pl
        /\ e[1] \in CellsOf(v[e[2]].box) /\ e[3] = v[e[2]].oc
    BY <2>1 DEF GridIs
  <2>3. <<e[2], e[1]>> \in g.occ
    BY <2>2 DEF GridIs
  <2> QED BY <1>2, <2>1, <2>2, <2>3
<1>4. ASSUME NEW j \in DOMAIN w, w[j].pl = pl, NEW c \in CellsOf(w[j].box)
      PROVE  <<c, j, w[j].oc>> \in h.cells /\ <<j, c>> \in h.occ
  <2>1. j \in DOMAIN v /\ j # i /\ w[j] = v[j]
    BY <1>2
  <2>2. <<c, j, v[j].oc>> \in g.cells /\ <<j, c>> \in g.occ
    BY <1>4, <2>1 DEF GridIs
  <2> QED BY <1>1, <2>1, <2>2
<1>5. GridIs(h, w, pl)
  BY <1>3, <1>4 DEF GridIs
<1> QED BY <1>5 DEF h, w

LEMMA GridWithoutIs ==
  ASSUME NEW g, NEW v, NEW pl, GridIs(g, v, pl), NEW i, i \in DOMAIN v => v[i].pl # pl
  PROVE  GridIs(g, Without(v, i), pl)
<1> DEFINE w == Without(v, i)
<1>1. DOMAIN w = DOMAIN v \ {i} /\ \A j \in DOMAIN w : w[j] = v[j]
  BY DEF Without
<1> HIDE DEF w
<1>2. GridIs(g, w, pl)
  BY <1>1 DEF GridIs
<1> QED BY <1>2 DEF w

LEMMA GridIndexIs ==
  ASSUME NEW g, NEW v, NEW pl, GridIs(g, v, pl), NEW i, i \notin DOMAIN v, NEW b, NEW oc
  PROVE  GridIs(GridIndex(g, i, b, oc), With(v, i, [box |-> b, oc |-> oc, pl |-> pl]), pl)
<1> DEFINE h == GridUnindex(g, i)
           k == GridIndex(g, i, b, oc)
           e0 == [box |-> b, oc |-> oc, pl |-> pl]
           w == With(v, i, e0)
<1>1. /\ k.cells = h.cells \cup {<<c, i, oc>> : c \in CellsOf(b)}
      /\ k.occ = h.occ \cup {<<i, c>> : c \in CellsOf(b)}
  BY DEF GridIndex
<1>2. GridIs(h, Without(v, i), pl)
  BY GridUnindexIs
<1>3. DOMAIN Without(v, i) = DOMAIN v /\ \A j \in DOMAIN v : Without(v, i)[j] = v[j]
  BY DEF Without
<1>4. GridIs(h, v, pl)
  <2> DEFINE u == Without(v, i)
  <2> HIDE DEF u
  <2>1. GridIs(h, u, pl) /\ DOMAIN u = DOMAIN v /\ \A j \in DOMAIN v : u[j] = v[j]
    BY <1>2, <1>3 DEF u
  <2> HIDE DEF h
  <2> QED BY <2>1 DEF GridIs
<1>5. /\ DOMAIN w = DOMAIN v \cup {i} /\ w[i].box = b /\ w[i].oc = oc /\ w[i].pl = pl
      /\ \A j \in DOMAIN v : w[j] = v[j]
  BY DEF With
<1> HIDE DEF h, k, e0, w
<1>6. ASSUME NEW e \in k.cells
      PROVE  /\ e[2] \in DOMAIN w /\ w[e[2]].pl = pl
             /\ e[1] \in CellsOf(w[e[2]].box) /\ e[3] = w[e[2]].oc
  <2>1. CASE e \in h.cells
    BY <1>4, <1>5, <2>1 DEF GridIs
  <2>2. CASE e \in {<<c, i, oc>> : c \in CellsOf(b)}
    BY <1>5, <2>2
  <2> QED BY <1>1, <2>1, <2>2
<1>7. ASSUME NEW j \in DOMAIN w, w[j].pl = pl, NEW c \in CellsOf(w[j].box)
      PROVE  <<c, j, w[j].oc>> \in k.cells /\ <<j, c>> \in k.occ
  <2>1. CASE j = i
    BY <1>1, <1>5, <2>1
  <2>2. CASE j # i
    <3>1. j \in DOMAIN v /\ w[j] = v[j]
      BY <1>5, <2>2
    <3>2. <<c, j, v[j].oc>> \in h.cells /\ <<j, c>> \in h.occ
      BY <1>4, <1>7, <3>1 DEF GridIs
    <3> QED BY <1>1, <3>1, <3>2
  <2> QED BY <2>1, <2>2
<1>8. GridIs(k, w, pl)
  BY <1>6, <1>7 DEF GridIs
<1> QED BY <1>8 DEF k, w, e0

LEMMA GridWithIs ==
  ASSUME NEW g, NEW v, NEW pl, GridIs(g, v, pl), NEW i, i \notin DOMAIN v, NEW e, e.pl # pl
  PROVE  GridIs(g, With(v, i, e), pl)
<1> DEFINE w == With(v, i, e)
<1>1. /\ DOMAIN w = DOMAIN v \cup {i} /\ w[i] = e
      /\ \A j \in DOMAIN v : w[j] = v[j]
  BY DEF With
<1> HIDE DEF w
<1>2. GridIs(g, w, pl)
  BY <1>1 DEF GridIs
<1> QED BY <1>2 DEF w

(* The hull of finitely many boxes covers them.                            *)
LEMMA FiniteBounds ==
  ASSUME NEW N \in Nat, NEW D, D \subseteq 1 .. N, NEW f, \A i \in D : f[i] \in Int
  PROVE  \E lo, hi \in Int : \A i \in D : lo <= f[i] /\ f[i] <= hi
<1> DEFINE Ok(n) == \E lo, hi \in Int : \A i \in D : i <= n => lo <= f[i] /\ f[i] <= hi
           S == {n \in 0 .. N : Ok(n)}
<1>1. 0 \in S
  <2>1. Ok(0)
    <3>1. \A i \in D : i <= 0 => 0 <= f[i] /\ f[i] <= 0
      OBVIOUS
    <3> QED BY <3>1
  <2> HIDE DEF Ok
  <2> QED BY <2>1
<1>2. ASSUME NEW n \in 1 .. N, n - 1 \in S PROVE n \in S
  <2>1. PICK lo \in Int, hi \in Int : \A i \in D : i <= n - 1 => lo <= f[i] /\ f[i] <= hi
    BY <1>2
  <2>2. CASE n \notin D
    <3>1. \A i \in D : i <= n => lo <= f[i] /\ f[i] <= hi
      BY <2>1, <2>2
    <3>2. Ok(n)
      BY <3>1
    <3> HIDE DEF Ok
    <3> QED BY <3>2
  <2>3. CASE n \in D
    <3> DEFINE l2 == IF f[n] < lo THEN f[n] ELSE lo
               h2 == IF f[n] > hi THEN f[n] ELSE hi
    <3>1. l2 \in Int /\ h2 \in Int /\ l2 <= lo /\ hi <= h2 /\ l2 <= f[n] /\ f[n] <= h2
      BY <2>3
    <3> HIDE DEF l2, h2
    <3>2. ASSUME NEW i \in D, i <= n PROVE l2 <= f[i] /\ f[i] <= h2
      <4>1. CASE i = n
        BY <3>1, <4>1
      <4>2. CASE i # n
        <5>1. i <= n - 1 /\ f[i] \in Int
          BY <3>2, <4>2
        <5>2. lo <= f[i] /\ f[i] <= hi
          BY <2>1, <5>1
        <5> QED BY <3>1, <5>1, <5>2
      <4> QED BY <4>1, <4>2
    <3>3. Ok(n)
      BY <3>1, <3>2
    <3> HIDE DEF Ok
    <3> QED BY <3>3
  <2> QED BY <2>2, <2>3
<1> HIDE DEF S
<1>3. N \in S
  <2>1. 0 .. N \subseteq S
    BY <1>1, <1>2, Throughout
  <2> QED BY <2>1
<1>4. Ok(N)
  BY <1>3 DEF S
<1>5. PICK lo \in Int, hi \in Int : \A i \in D : i <= N => lo <= f[i] /\ f[i] <= hi
  BY <1>4
<1>6. \A i \in D : lo <= f[i] /\ f[i] <= hi
  BY <1>5
<1> QED BY <1>6

LEMMA MinMaxIs ==
  ASSUME NEW S, S \subseteq Int, S # {}, NEW lo \in Int, NEW hi \in Int,
         \A x \in S : lo <= x /\ x <= hi
  PROVE  /\ Min(S) \in S /\ \A x \in S : Min(S) <= x
         /\ Max(S) \in S /\ \A x \in S : x <= Max(S)
<1>1. \E x \in S : \A y \in S : x <= y
  <2> DEFINE T == {x - lo : x \in S}
  <2>1. T \subseteq Nat /\ T # {}
    <3>1. \A x \in S : x - lo \in Nat
      OBVIOUS
    <3> QED BY <3>1
  <2>2. PICK t \in T : \A u \in T : t <= u
    BY <2>1, LeastOf
  <2>3. PICK x \in S : t = x - lo
    OBVIOUS
  <2>4. ASSUME NEW y \in S PROVE x <= y
    <3>1. y - lo \in T
      OBVIOUS
    <3>2. x - lo <= y - lo
      BY <2>2, <2>3, <3>1
    <3> HIDE DEF T
    <3> QED BY <3>2
  <2> QED BY <2>4
<1>2. \E x \in S : \A y \in S : y <= x
  <2> DEFINE T == {hi - x : x \in S}
  <2>1. T \subseteq Nat /\ T # {}
    <3>1. \A x \in S : hi - x \in Nat
      OBVIOUS
    <3> QED BY <3>1
  <2>2. PICK t \in T : \A u \in T : t <= u
    BY <2>1, LeastOf
  <2>3. PICK x \in S : t = hi - x
    OBVIOUS
  <2>4. ASSUME NEW y \in S PROVE y <= x
    <3>1. hi - y \in T
      OBVIOUS
    <3>2. hi - x <= hi - y
      BY <2>2, <2>3, <3>1
    <3> HIDE DEF T
    <3> QED BY <3>2
  <2> QED BY <2>4
<1>3. Min(S) \in S /\ \A x \in S : Min(S) <= x
  BY <1>1 DEF Min
<1>4. Max(S) \in S /\ \A x \in S : x <= Max(S)
  <2>1. \E x \in S : \A y \in S : x >= y
    BY <1>2
  <2>2. Max(S) \in S /\ \A y \in S : Max(S) >= y
    BY <2>1 DEF Max
  <2> QED BY <2>2
<1> QED BY <1>3, <1>4

LEMMA HullCovers ==
  ASSUME NEW N \in Nat, NEW D, D \subseteq 1 .. N, D # {},
         NEW f, DOMAIN f = D, \A i \in D : f[i] \in Int \X Int
  PROVE  LET d == Hull(Range(f)) IN
         /\ d \in Int \X Int
         /\ \A i \in D : d[1] <= f[i][1] /\ f[i][2] <= d[2]
<1> DEFINE B == Range(f)
           L == {b[1] : b \in B}
           H == {b[2] : b \in B}
<1>1. B = {f[i] : i \in D}
  BY DEF Range
<1> HIDE DEF B
<1>2. L = {f[i][1] : i \in D} /\ H = {f[i][2] : i \in D}
  BY <1>1
<1>3. \A i \in D : f[i][1] \in Int /\ f[i][2] \in Int
  OBVIOUS
<1> HIDE DEF L, H
<1>4. L \subseteq Int /\ L # {} /\ H \subseteq Int /\ H # {}
  BY <1>2, <1>3
<1> DEFINE lows == [i \in D |-> f[i][1]]
           highs == [i \in D |-> f[i][2]]
<1>5. PICK l1 \in Int, h1 \in Int : \A i \in D : l1 <= f[i][1] /\ f[i][1] <= h1
  <2>1. \A i \in D : lows[i] \in Int
    BY <1>3
  <2>2. \A i \in D : lows[i] = f[i][1]
    OBVIOUS
  <2> HIDE DEF lows
  <2>3. \E lo, hi \in Int : \A i \in D : lo <= lows[i] /\ lows[i] <= hi
    BY <2>1, FiniteBounds
  <2> QED BY <2>2, <2>3
<1>6. PICK l2 \in Int, h2 \in Int : \A i \in D : l2 <= f[i][2] /\ f[i][2] <= h2
  <2>1. \A i \in D : highs[i] \in Int
    BY <1>3
  <2>2. \A i \in D : highs[i] = f[i][2]
    OBVIOUS
  <2> HIDE DEF highs
  <2>3. \E lo, hi \in Int : \A i \in D : lo <= highs[i] /\ highs[i] <= hi
    BY <2>1, FiniteBounds
  <2> QED BY <2>2, <2>3
<1>7. \A x \in L : l1 <= x /\ x <= h1
  BY <1>2, <1>5
<1>8. \A x \in H : l2 <= x /\ x <= h2
  BY <1>2, <1>6
<1>9. Min(L) \in L /\ \A x \in L : Min(L) <= x
  BY <1>4, <1>7, MinMaxIs
<1>10. Max(H) \in H /\ \A x \in H : x <= Max(H)
  BY <1>4, <1>8, MinMaxIs
<1>11. Hull(B) = <<Min(L), Max(H)>>
  BY DEF Hull, L, H
<1>12. \A i \in D : Min(L) <= f[i][1] /\ f[i][2] <= Max(H)
  BY <1>2, <1>9, <1>10
<1>13. Min(L) \in Int /\ Max(H) \in Int
  BY <1>4, <1>9, <1>10
<1> QED BY <1>11, <1>12, <1>13 DEF B

(* home is made longer; a row leaves the index; a row comes into it.       *)
LEMMA ListLen ==
  ASSUME NEW n \in Nat, NEW f, f = [j \in 1 .. n |-> f[j]]
  PROVE  Len(f) = n
<1> DEFINE V == {f[j] : j \in 1 .. n}
<1>1. f \in [1 .. n -> V]
  OBVIOUS
<1> HIDE DEF V
<1> QED BY <1>1

LEMMA EnsureExact ==
  ASSUME NEW s, NEW v, Exact(s, v), NEW i \in Nat
  PROVE  Exact(Ensure(s, i), v) /\ i <= Len(Ensure(s, i).home)
<1> DEFINE M == s.home
           n == IF i > Len(M) THEN i ELSE Len(M)
           H == [j \in 1 .. n |-> IF j <= Len(M) THEN M[j] ELSE None]
           t == Ensure(s, i)
<1>1. t = [unplaced |-> s.unplaced, places |-> s.places, hulls |-> s.hulls,
           bounds |-> s.bounds, home |-> H]
  BY DEF Ensure, Exact
<1>2. Homed(M, v)
  BY DEF Exact
<1>3. n \in Nat /\ Len(M) \in Nat /\ Len(M) <= n /\ i <= n
  BY <1>2 DEF Homed
<1> HIDE DEF n, M
<1>4. H = [j \in 1 .. n |-> H[j]] /\ \A j \in 1 .. n : H[j] = IF j <= Len(M) THEN M[j] ELSE None
  OBVIOUS
<1> HIDE DEF H
<1>5. Len(H) = n
  BY <1>3, <1>4, ListLen
<1>6. Homed(H, v)
  <2>1. ASSUME NEW j \in 1 .. n PROVE H[j] = IF j \in DOMAIN v THEN v[j].pl ELSE None
    <3>1. CASE j <= Len(M)
      BY <1>2, <1>3, <1>4, <3>1 DEF Homed
    <3>2. CASE ~(j <= Len(M))
      BY <1>2, <1>3, <1>4, <3>2 DEF Homed
    <3> QED BY <3>1, <3>2
  <2>2. DOMAIN v \subseteq 1 .. n
    BY <1>2, <1>3 DEF Homed
  <2> QED BY <1>3, <1>4, <1>5, <2>1, <2>2 DEF Homed
<1> HIDE DEF t
<1>7. t.unplaced = s.unplaced /\ t.places = s.places /\ t.hulls = s.hulls
      /\ t.bounds = s.bounds /\ t.home = H
      /\ t = [unplaced |-> t.unplaced, places |-> t.places, hulls |-> t.hulls,
              bounds |-> t.bounds, home |-> t.home]
  BY <1>1
<1>8. Gridded(t, v) /\ Bounded(t, v)
  BY <1>7 DEF Exact, Gridded, Bounded
<1>9. Exact(t, v)
  BY <1>6, <1>7, <1>8 DEF Exact
<1> QED BY <1>3, <1>5, <1>7, <1>9 DEF t

LEMMA WithoutFacts ==
  ASSUME NEW v, Boxed(v), NEW i
  PROVE  LET w == Without(v, i) IN
         /\ DOMAIN w = DOMAIN v \ {i} /\ \A j \in DOMAIN w : w[j] = v[j]
         /\ Boxed(w)
         /\ \A q : InGrid(w, q) = InGrid(v, q) \ {i}
         /\ \A q : BoxesOf(w, q) = Without(BoxesOf(v, q), i)
         /\ Used(w) = {q \in Used(v) : InGrid(w, q) # {}}
         /\ \A q, d : Covers(d, v, q) => Covers(d, w, q)
<1> DEFINE w == Without(v, i)
<1>1. /\ DOMAIN w = DOMAIN v \ {i} /\ \A j \in DOMAIN w : w[j] = v[j]
      /\ w = [j \in DOMAIN w |-> w[j]]
  BY DEF Without
<1> HIDE DEF w
<1>2. Boxed(w)
  BY <1>1 DEF Boxed
<1>3. \A q : InGrid(w, q) = InGrid(v, q) \ {i}
  BY <1>1 DEF InGrid
<1>4. ASSUME NEW q PROVE BoxesOf(w, q) = Without(BoxesOf(v, q), i)
  <2>1. \A j \in InGrid(w, q) : w[j].box = v[j].box /\ j \in InGrid(v, q)
    BY <1>1 DEF InGrid
  <2>2. DOMAIN BoxesOf(v, q) = InGrid(v, q) /\ \A j \in InGrid(v, q) : BoxesOf(v, q)[j] = v[j].box
    BY DEF BoxesOf
  <2>3. BoxesOf(w, q) = [j \in InGrid(v, q) \ {i} |-> BoxesOf(v, q)[j]]
    BY <1>3, <2>1, <2>2 DEF BoxesOf
  <2> QED BY <2>2, <2>3 DEF Without
<1>5. Used(w) = {q \in Used(v) : InGrid(w, q) # {}}
  <2>1. ASSUME NEW q \in Used(w) PROVE q \in Used(v) /\ InGrid(w, q) # {}
    <3>1. PICK j \in DOMAIN w : q = w[j].pl
      BY DEF Used
    <3>2. j \in DOMAIN v /\ v[j].pl = q /\ q # None /\ j \in InGrid(w, q)
      BY <1>1, <3>1 DEF Used, InGrid
    <3> QED BY <3>2 DEF Used
  <2>2. ASSUME NEW q \in Used(v), InGrid(w, q) # {} PROVE q \in Used(w)
    <3>1. PICK j \in InGrid(w, q) : TRUE
      BY <2>2
    <3>2. j \in DOMAIN w /\ w[j].pl = q /\ q # None
      BY <3>1 DEF InGrid, Used
    <3> QED BY <3>2 DEF Used
  <2> QED BY <2>1, <2>2
<1>6. \A q, d : Covers(d, v, q) => Covers(d, w, q)
  BY <1>1, <1>3 DEF Covers, InGrid
<1> QED BY <1>1, <1>2, <1>3, <1>4, <1>5, <1>6 DEF w

LEMMA HomedWithout ==
  ASSUME NEW M, NEW v, Homed(M, v), NEW i \in 1 .. Len(M)
  PROVE  Homed([M EXCEPT ![i] = None], Without(v, i))
<1> DEFINE H == [M EXCEPT ![i] = None]
           w == Without(v, i)
           n == Len(M)
<1>1. DOMAIN w = DOMAIN v \ {i} /\ \A j \in DOMAIN w : w[j] = v[j]
  BY DEF Without
<1>2. /\ n \in Nat /\ H = [j \in 1 .. n |-> H[j]]
      /\ \A j \in 1 .. n : H[j] = IF j = i THEN None ELSE M[j]
      /\ DOMAIN v \subseteq 1 .. n
      /\ \A j \in 1 .. n : M[j] = IF j \in DOMAIN v THEN v[j].pl ELSE None
  BY DEF Homed
<1> HIDE DEF H, w, n
<1>3. Len(H) = n
  BY <1>2, ListLen
<1>4. Homed(H, w)
  BY <1>1, <1>2, <1>3 DEF Homed
<1> QED BY <1>4 DEF H, w

LEMMA SpaceIs ==
  ASSUME NEW U, NEW P, NEW H, NEW B, NEW M, NEW v, Boxed(v), Homed(M, v),
         GridIs(U, v, None),
         P = [q \in Used(v) |-> P[q]], \A q \in Used(v) : GridIs(P[q], v, q),
         H = [q \in Used(v) |-> BoxesOf(v, q)],
         B = [q \in Used(v) |-> B[q]], \A q \in Used(v) : Covers(B[q], v, q)
  PROVE  Exact([unplaced |-> U, places |-> P, hulls |-> H, bounds |-> B, home |-> M], v)
<1> DEFINE t == [unplaced |-> U, places |-> P, hulls |-> H, bounds |-> B, home |-> M]
<1>1. t.unplaced = U /\ t.places = P /\ t.hulls = H /\ t.bounds = B /\ t.home = M
      /\ t = [unplaced |-> t.unplaced, places |-> t.places, hulls |-> t.hulls,
              bounds |-> t.bounds, home |-> t.home]
  OBVIOUS
<1> HIDE DEF t
<1>2. Gridded(t, v)
  BY <1>1 DEF Gridded
<1>3. Bounded(t, v)
  BY <1>1 DEF Bounded
<1>4. Exact(t, v)
  BY <1>1, <1>2, <1>3 DEF Exact
<1> QED BY <1>4 DEF t

Away(s, i) == [s EXCEPT !.home[i] = None]
AwayLoose(a, i) == [a EXCEPT !.unplaced = GridUnindex(@, i)]
AwayPlaced(a, i, pl) == [a EXCEPT !.places[pl] = GridUnindex(@, i), !.hulls[pl] = Without(@, i)]

LEMMA UnindexIs ==
  ASSUME NEW s, NEW i
  PROVE  Unindex(s, i) =
           IF i > Len(s.home) THEN s
           ELSE IF s.home[i] = None THEN AwayLoose(Away(s, i), i)
           ELSE SetBounds(AwayPlaced(Away(s, i), i, s.home[i]), s.home[i])
BY DEF Unindex, Away, AwayLoose, AwayPlaced

SpaceOf(U, P, H, B, M) == [unplaced |-> U, places |-> P, hulls |-> H, bounds |-> B, home |-> M]
TwoSet(a, P, H) == [a EXCEPT !.places = P, !.hulls = H]

LEMMA TwoFields ==
  ASSUME NEW U, NEW P0, NEW H0, NEW B, NEW G, NEW P, NEW H
  PROVE  TwoSet(SpaceOf(U, P0, H0, B, G), P, H) = SpaceOf(U, P, H, B, G)
<1> DEFINE x == [unplaced |-> U, places |-> P0, hulls |-> H0, bounds |-> B, home |-> G]
           y == [x EXCEPT !.places = P]
<1>1. y = [unplaced |-> U, places |-> P, hulls |-> H0, bounds |-> B, home |-> G]
  OBVIOUS
<1>2. [x EXCEPT !.places = P, !.hulls = H] = [y EXCEPT !.hulls = H]
  OBVIOUS
<1> HIDE DEF x
<1>3. [[unplaced |-> U, places |-> P, hulls |-> H0, bounds |-> B, home |-> G] EXCEPT !.hulls = H]
         = [unplaced |-> U, places |-> P, hulls |-> H, bounds |-> B, home |-> G]
  OBVIOUS
<1>4. [x EXCEPT !.places = P, !.hulls = H] =
        [unplaced |-> U, places |-> P, hulls |-> H, bounds |-> B, home |-> G]
  BY <1>1, <1>2, <1>3
<1>5. TwoSet(x, P, H) = [x EXCEPT !.places = P, !.hulls = H]
  BY DEF TwoSet
<1>6. x = SpaceOf(U, P0, H0, B, G)
  BY DEF x, SpaceOf
<1>7. SpaceOf(U, P, H, B, G) = [unplaced |-> U, places |-> P, hulls |-> H, bounds |-> B, home |-> G]
  BY DEF SpaceOf
<1> QED BY <1>4, <1>5, <1>6, <1>7

LEMMA AwayPlacedIs ==
  ASSUME NEW a, NEW i, NEW pl, a = SpaceOf(a.unplaced, a.places, a.hulls, a.bounds, a.home)
  PROVE  AwayPlaced(a, i, pl) =
           SpaceOf(a.unplaced, [a.places EXCEPT ![pl] = GridUnindex(a.places[pl], i)],
                   [a.hulls EXCEPT ![pl] = Without(a.hulls[pl], i)], a.bounds, a.home)
<1> DEFINE P == [a.places EXCEPT ![pl] = GridUnindex(a.places[pl], i)]
           H == [a.hulls EXCEPT ![pl] = Without(a.hulls[pl], i)]
<1>1. AwayPlaced(a, i, pl) = TwoSet(a, P, H)
  BY DEF AwayPlaced, TwoSet
<1> HIDE DEF P, H
<1>2. TwoSet(a, P, H) = SpaceOf(a.unplaced, P, H, a.bounds, a.home)
  BY TwoFields
<1> QED BY <1>1, <1>2 DEF P, H

LEMMA UnindexExact ==
  ASSUME NEW s, NEW v, Exact(s, v), NEW i \in Nat \ {0}
  PROVE  Exact(Unindex(s, i), Without(v, i))
<1> DEFINE w == Without(v, i)
           U == s.unplaced
           P == s.places
           H == s.hulls
           B == s.bounds
           M == s.home
<1>1. /\ s = [unplaced |-> U, places |-> P, hulls |-> H, bounds |-> B, home |-> M]
      /\ Boxed(v) /\ Homed(M, v) /\ GridIs(U, v, None)
      /\ P = [q \in Used(v) |-> P[q]] /\ \A q \in Used(v) : GridIs(P[q], v, q)
      /\ H = [q \in Used(v) |-> BoxesOf(v, q)]
      /\ B = [q \in Used(v) |-> B[q]] /\ \A q \in Used(v) : Covers(B[q], v, q)
  BY DEF Exact, Gridded, Bounded
<1>2. /\ DOMAIN w = DOMAIN v \ {i} /\ \A j \in DOMAIN w : w[j] = v[j]
      /\ Boxed(w)
      /\ \A q : InGrid(w, q) = InGrid(v, q) \ {i}
      /\ \A q : BoxesOf(w, q) = Without(BoxesOf(v, q), i)
      /\ Used(w) = {q \in Used(v) : InGrid(w, q) # {}}
      /\ \A q, d : Covers(d, v, q) => Covers(d, w, q)
  BY <1>1, WithoutFacts
<1>3. CASE i > Len(M)
  <2>1. i \notin DOMAIN v
    BY <1>1, <1>3 DEF Homed
  <2>2. w = v
    BY <1>1, <2>1 DEF Boxed, Without
  <2>3. Unindex(s, i) = s
    BY <1>3 DEF Unindex
  <2> QED BY <2>2, <2>3
<1>4. CASE i <= Len(M)
  <2> DEFINE pl == M[i]
             G == [M EXCEPT ![i] = None]
             away == [unplaced |-> U, places |-> P, hulls |-> H, bounds |-> B, home |-> G]
  <2>0. Len(M) \in Nat /\ i \in 1 .. Len(M)
    BY <1>1, <1>4 DEF Homed
  <2>1. Homed(G, w)
    BY <1>1, <2>0, HomedWithout
  <2>2. pl = IF i \in DOMAIN v THEN v[i].pl ELSE None
    BY <1>1, <2>0 DEF Homed
  <2>3. ~(i > Len(M))
    BY <2>0
  <2>4. Away(s, i) = away
    BY <1>1 DEF Away
  <2>5. CASE pl = None
    <3>1. Unindex(s, i) = [unplaced |-> GridUnindex(U, i), places |-> P, hulls |-> H,
                           bounds |-> B, home |-> G]
      <4>1. Unindex(s, i) = AwayLoose(away, i)
        BY <2>3, <2>4, <2>5, UnindexIs
      <4> QED BY <4>1 DEF AwayLoose
    <3>2. \A q \in Used(v) : i \notin InGrid(v, q)
      BY <2>2, <2>5 DEF Used, InGrid
    <3>3. \A q \in Used(v) : InGrid(w, q) = InGrid(v, q) /\ InGrid(v, q) # {}
      BY <1>2, <3>2 DEF Used, InGrid
    <3>4. Used(w) = Used(v)
      BY <1>2, <3>3
    <3>5. \A q \in Used(v) : BoxesOf(w, q) = BoxesOf(v, q)
      <4> SUFFICES ASSUME NEW q \in Used(v) PROVE BoxesOf(w, q) = BoxesOf(v, q)
        OBVIOUS
      <4>1. BoxesOf(w, q) = Without(BoxesOf(v, q), i)
        BY <1>2
      <4>2. DOMAIN BoxesOf(v, q) = InGrid(v, q)
            /\ BoxesOf(v, q) = [j \in InGrid(v, q) |-> BoxesOf(v, q)[j]]
        BY DEF BoxesOf
      <4> QED BY <3>2, <4>1, <4>2 DEF Without
    <3>6. GridIs(GridUnindex(U, i), w, None)
      BY <1>1, GridUnindexIs
    <3>7. \A q \in Used(w) : GridIs(P[q], w, q)
      <4> SUFFICES ASSUME NEW q \in Used(w) PROVE GridIs(P[q], w, q)
        OBVIOUS
      <4>1. GridIs(P[q], v, q) /\ (i \in DOMAIN v => v[i].pl # q)
        BY <1>1, <3>2, <3>4 DEF InGrid
      <4> QED BY <4>1, GridWithoutIs
    <3>8. H = [q \in Used(w) |-> BoxesOf(w, q)]
      BY <1>1, <3>4, <3>5
    <3>9. \A q \in Used(w) : Covers(B[q], w, q)
      BY <1>1, <1>2, <3>4
    <3>10. P = [q \in Used(w) |-> P[q]] /\ B = [q \in Used(w) |-> B[q]]
      BY <1>1, <3>4
    <3> DEFINE U2 == GridUnindex(U, i)
    <3> HIDE DEF U2, G, w, U, P, H, B
    <3>11. Exact([unplaced |-> U2, places |-> P, hulls |-> H, bounds |-> B, home |-> G], w)
      BY <1>2, <2>1, <3>6, <3>7, <3>8, <3>9, <3>10, SpaceIs DEF U2
    <3> QED BY <3>1, <3>11 DEF U2, w
  <2>6. CASE pl # None
    <3> DEFINE P2 == [P EXCEPT ![pl] = GridUnindex(P[pl], i)]
               H2 == [H EXCEPT ![pl] = Without(H[pl], i)]
               t == [unplaced |-> U, places |-> P2, hulls |-> H2, bounds |-> B, home |-> G]
    <3>1. Unindex(s, i) = SetBounds(t, pl)
      <4>1. Unindex(s, i) = SetBounds(AwayPlaced(away, i, pl), pl)
        BY <2>3, <2>4, <2>6, UnindexIs
      <4>2. /\ away.unplaced = U /\ away.places = P /\ away.hulls = H
            /\ away.bounds = B /\ away.home = G
            /\ away = SpaceOf(away.unplaced, away.places, away.hulls, away.bounds, away.home)
        BY DEF SpaceOf
      <4>3. AwayPlaced(away, i, pl) = t
        <5>1. AwayPlaced(away, i, pl) = SpaceOf(U, P2, H2, B, G)
          <6> HIDE DEF away
          <6>1. AwayPlaced(away, i, pl) =
                  SpaceOf(away.unplaced, [away.places EXCEPT ![pl] = GridUnindex(away.places[pl], i)],
                          [away.hulls EXCEPT ![pl] = Without(away.hulls[pl], i)],
                          away.bounds, away.home)
            BY <4>2, AwayPlacedIs
          <6> QED BY <4>2, <6>1
        <5> QED BY <5>1 DEF SpaceOf
      <4> QED BY <4>1, <4>3
    <3>2. i \in DOMAIN v /\ v[i].pl = pl /\ pl \in Used(v)
      BY <2>2, <2>6 DEF Used
    <3>3. /\ P2 = [q \in Used(v) |-> IF q = pl THEN GridUnindex(P[pl], i) ELSE P[q]]
          /\ H2 = [q \in Used(v) |-> BoxesOf(w, q)]
      <4>1. P2 = [q \in Used(v) |-> IF q = pl THEN GridUnindex(P[pl], i) ELSE P[q]]
        BY <1>1
      <4>2. H2 = [q \in Used(v) |-> IF q = pl THEN Without(H[pl], i) ELSE H[q]]
        BY <1>1
      <4>3. H[pl] = BoxesOf(v, pl) /\ \A q \in Used(v) : H[q] = BoxesOf(v, q)
        BY <1>1, <3>2
      <4>4. \A q \in Used(v) \ {pl} : BoxesOf(w, q) = BoxesOf(v, q)
        <5> SUFFICES ASSUME NEW q \in Used(v) \ {pl} PROVE BoxesOf(w, q) = BoxesOf(v, q)
          OBVIOUS
        <5>1. BoxesOf(w, q) = Without(BoxesOf(v, q), i) /\ i \notin InGrid(v, q)
          BY <1>2, <3>2 DEF InGrid
        <5>2. DOMAIN BoxesOf(v, q) = InGrid(v, q)
              /\ BoxesOf(v, q) = [j \in InGrid(v, q) |-> BoxesOf(v, q)[j]]
          BY DEF BoxesOf
        <5> QED BY <5>1, <5>2 DEF Without
      <4>5. BoxesOf(w, pl) = Without(BoxesOf(v, pl), i)
        BY <1>2
      <4>6. \A q \in Used(v) : (IF q = pl THEN Without(H[pl], i) ELSE H[q]) = BoxesOf(w, q)
        BY <4>3, <4>4, <4>5
      <4> QED BY <4>1, <4>2, <4>6
    <3>4. \A q \in Used(v) : GridIs(P2[q], w, q)
      <4> SUFFICES ASSUME NEW q \in Used(v) PROVE GridIs(P2[q], w, q)
        OBVIOUS
      <4>1. GridIs(P[q], v, q)
        BY <1>1
      <4>2. CASE q = pl
        <5>1. P2[q] = GridUnindex(P[q], i)
          BY <3>3, <4>2
        <5> QED BY <4>1, <5>1, GridUnindexIs
      <4>3. CASE q # pl
        <5>1. P2[q] = P[q] /\ v[i].pl # q
          BY <3>2, <3>3, <4>3
        <5> QED BY <4>1, <5>1, GridWithoutIs
      <4> QED BY <4>2, <4>3
    <3>5. GridIs(U, w, None)
      BY <1>1, <2>6, <3>2, GridWithoutIs
    <3>6. \A q \in Used(v) \ {pl} : q \in Used(w)
      <4> SUFFICES ASSUME NEW q \in Used(v) \ {pl} PROVE InGrid(w, q) # {}
        BY <1>2
      <4>1. PICK j \in DOMAIN v : v[j].pl = q
        BY DEF Used
      <4>2. j # i /\ j \in InGrid(v, q)
        BY <3>2, <4>1 DEF InGrid
      <4> QED BY <1>2, <4>2
    <3>7. Used(w) \subseteq Used(v)
      BY <1>2
    <3>8. H2[pl] = BoxesOf(w, pl) /\ DOMAIN H2[pl] = InGrid(w, pl)
      BY <3>2, <3>3 DEF BoxesOf
    <3>9. \A q \in Used(v) : Covers(B[q], w, q)
      BY <1>1, <1>2
    <3>10. P2 = [q \in Used(v) |-> P2[q]]
      BY <3>3
    <3>11. B = [q \in Used(v) |-> B[q]]
      BY <1>1
    <3>12. Len(M) \in Nat /\ DOMAIN v \subseteq 1 .. Len(M)
      BY <1>1 DEF Homed
    <3> HIDE DEF w, P2, H2, U, P, H, B, G, M, pl
    <3>13. t.unplaced = U /\ t.places = P2 /\ t.hulls = H2 /\ t.bounds = B /\ t.home = G
      OBVIOUS
    <3>14. CASE InGrid(w, pl) = {}
      <4>1. Used(w) = Used(v) \ {pl}
        BY <1>2, <3>6, <3>7, <3>14
      <4> DEFINE P3 == Without(P2, pl)
                 H3 == Without(H2, pl)
                 B3 == Without(B, pl)
      <4>2. SetBounds(t, pl) = [unplaced |-> U, places |-> P3, hulls |-> H3, bounds |-> B3, home |-> G]
        BY <3>8, <3>13, <3>14 DEF SetBounds
      <4>3. /\ P3 = [q \in Used(w) |-> P3[q]] /\ \A q \in Used(w) : P3[q] = P2[q]
            /\ B3 = [q \in Used(w) |-> B3[q]] /\ \A q \in Used(w) : B3[q] = B[q]
        BY <3>10, <3>11, <4>1 DEF Without
      <4>4. H3 = [q \in Used(w) |-> BoxesOf(w, q)]
        BY <3>3, <4>1 DEF Without
      <4> HIDE DEF P3, H3, B3
      <4>5. \A q \in Used(w) : GridIs(P3[q], w, q) /\ Covers(B3[q], w, q)
        BY <3>4, <3>7, <3>9, <4>3
      <4>6. Exact([unplaced |-> U, places |-> P3, hulls |-> H3, bounds |-> B3, home |-> G], w)
        BY <1>2, <2>1, <3>5, <4>3, <4>4, <4>5, SpaceIs
      <4> QED BY <3>1, <4>2, <4>6 DEF w
    <3>15. CASE InGrid(w, pl) # {}
      <4>1. Used(w) = Used(v)
        BY <1>2, <3>2, <3>6, <3>7, <3>15
      <4> DEFINE d == Hull(Range(H2[pl]))
                 B3 == [B EXCEPT ![pl] = d]
      <4>2. SetBounds(t, pl) = [unplaced |-> U, places |-> P2, hulls |-> H2, bounds |-> B3, home |-> G]
        BY <3>8, <3>13, <3>15 DEF SetBounds
      <4>3. Covers(d, w, pl)
        <5> DEFINE f == BoxesOf(w, pl)
        <5>1. DOMAIN f = InGrid(w, pl) /\ \A j \in InGrid(w, pl) : f[j] = w[j].box
          BY DEF BoxesOf
        <5>2. \A j \in InGrid(w, pl) : f[j] \in Int \X Int
          BY <1>2, <5>1 DEF Boxed, InGrid
        <5>3. InGrid(w, pl) \subseteq 1 .. Len(M)
          BY <1>2, <3>12 DEF InGrid
        <5> HIDE DEF f
        <5>4. /\ Hull(Range(f)) \in Int \X Int
              /\ \A j \in InGrid(w, pl) : Hull(Range(f))[1] <= f[j][1] /\ f[j][2] <= Hull(Range(f))[2]
          BY <3>12, <3>15, <5>1, <5>2, <5>3, HullCovers
        <5>5. d = Hull(Range(f))
          BY <3>8 DEF f
        <5> QED BY <5>1, <5>4, <5>5 DEF Covers
      <4> HIDE DEF d
      <4>4. /\ B3 = [q \in Used(w) |-> B3[q]]
            /\ \A q \in Used(w) : B3[q] = IF q = pl THEN d ELSE B[q]
        BY <3>11, <4>1
      <4> HIDE DEF B3
      <4>5. \A q \in Used(w) : Covers(B3[q], w, q)
        BY <3>9, <4>1, <4>3, <4>4
      <4>6. \A q \in Used(w) : GridIs(P2[q], w, q)
        BY <3>4, <4>1
      <4>7. H2 = [q \in Used(w) |-> BoxesOf(w, q)] /\ P2 = [q \in Used(w) |-> P2[q]]
        BY <3>3, <3>10, <4>1
      <4>8. Exact([unplaced |-> U, places |-> P2, hulls |-> H2, bounds |-> B3, home |-> G], w)
        BY <1>2, <2>1, <3>5, <4>4, <4>5, <4>6, <4>7, SpaceIs
      <4> QED BY <3>1, <4>2, <4>8 DEF w
    <3> QED BY <3>14, <3>15
  <2> QED BY <2>5, <2>6
<1>5. i > Len(M) \/ i <= Len(M)
  BY <1>1 DEF Homed
<1> QED BY <1>3, <1>4, <1>5

EntersAs(w, v, i, b, pl) ==
    /\ Boxed(v)
    /\ Used(v) = IF pl = None THEN Used(w) ELSE Used(w) \cup {pl}
    /\ \A q : BoxesOf(v, q) = IF q = pl THEN With(BoxesOf(w, q), i, b) ELSE BoxesOf(w, q)
    /\ \A q, d : Covers(d, w, q) => IF q = pl THEN Covers(Union(d, b), v, q) ELSE Covers(d, v, q)

LEMMA WithFacts ==
  ASSUME NEW w, Boxed(w), NEW i, i \notin DOMAIN w, NEW e, e.box \in Int \X Int, IsBox(e.box)
  PROVE  EntersAs(w, With(w, i, e), i, e.box, e.pl)
<1> DEFINE b == e.box
           pl == e.pl
<1>0. b \in Int \X Int /\ IsBox(b)
  OBVIOUS
<1> DEFINE v == With(w, i, e)
<1>1. /\ DOMAIN v = DOMAIN w \cup {i} /\ v = [j \in DOMAIN v |-> v[j]]
      /\ \A j \in DOMAIN w : v[j] = w[j]
      /\ v[i].box = b /\ v[i].pl = pl
  BY DEF With
<1> HIDE DEF v, b, pl
<1>2. Boxed(v)
  BY <1>0, <1>1 DEF Boxed
<1>3. \A q : InGrid(v, q) = IF q = pl THEN InGrid(w, q) \cup {i} ELSE InGrid(w, q)
  <2> SUFFICES ASSUME NEW q
               PROVE  InGrid(v, q) = IF q = pl THEN InGrid(w, q) \cup {i} ELSE InGrid(w, q)
    OBVIOUS
  <2>1. \A j : j \in InGrid(v, q) <=> j \in InGrid(w, q) \/ (q = pl /\ j = i)
    BY <1>1 DEF InGrid
  <2> QED BY <2>1
<1>4. Used(v) = IF pl = None THEN Used(w) ELSE Used(w) \cup {pl}
  <2>1. \A q : q \in Used(v) <=> q \in Used(w) \/ (q = pl /\ pl # None)
    BY <1>1 DEF Used
  <2> QED BY <2>1
<1>5. ASSUME NEW q
      PROVE  BoxesOf(v, q) = IF q = pl THEN With(BoxesOf(w, q), i, b) ELSE BoxesOf(w, q)
  <2>1. DOMAIN BoxesOf(w, q) = InGrid(w, q) /\ \A j \in InGrid(w, q) : BoxesOf(w, q)[j] = w[j].box
    BY DEF BoxesOf
  <2>2. \A j \in InGrid(w, q) : v[j].box = w[j].box /\ j # i
    BY <1>1 DEF InGrid
  <2>3. CASE q # pl
    BY <1>3, <2>2, <2>3 DEF BoxesOf
  <2>4. CASE q = pl
    <3>1. InGrid(v, q) = InGrid(w, q) \cup {i}
      BY <1>3, <2>4
    <3>2. \A j \in InGrid(v, q) : v[j].box = IF j = i THEN b ELSE BoxesOf(w, q)[j]
      BY <1>1, <2>1, <2>2, <3>1
    <3>3. BoxesOf(v, q) = [j \in InGrid(w, q) \cup {i} |-> IF j = i THEN b ELSE BoxesOf(w, q)[j]]
      BY <3>1, <3>2 DEF BoxesOf
    <3> QED BY <2>1, <2>4, <3>3 DEF With
  <2> QED BY <2>3, <2>4
<1>6. ASSUME NEW q, NEW d, Covers(d, w, q)
      PROVE  IF q = pl THEN Covers(Union(d, b), v, q) ELSE Covers(d, v, q)
  <2>1. CASE q # pl
    <3>1. Covers(d, v, q)
      BY <1>1, <1>3, <1>6, <2>1 DEF Covers, InGrid
    <3> QED BY <2>1, <3>1
  <2>2. CASE q = pl
    <3> DEFINE u == Union(d, b)
    <3>1. d[1] \in Int /\ d[2] \in Int /\ b[1] \in Int /\ b[2] \in Int
      BY <1>0, <1>6 DEF Covers
    <3>2. u \in Int \X Int /\ u[1] <= d[1] /\ d[2] <= u[2] /\ u[1] <= b[1] /\ b[2] <= u[2]
      BY <3>1 DEF Union
    <3> HIDE DEF u
    <3>3. ASSUME NEW j \in InGrid(v, q) PROVE u[1] <= v[j].box[1] /\ v[j].box[2] <= u[2]
      <4>1. CASE j = i
        BY <1>1, <3>2, <4>1
      <4>2. CASE j # i
        <5>1. j \in InGrid(w, q) /\ v[j] = w[j]
          BY <1>1, <1>3, <3>3, <4>2 DEF InGrid
        <5>2. d[1] <= w[j].box[1] /\ w[j].box[2] <= d[2]
          BY <1>6, <5>1 DEF Covers
        <5>3. w[j].box[1] \in Int /\ w[j].box[2] \in Int
          BY <5>1 DEF Boxed, InGrid
        <5>4. u[1] \in Int /\ u[2] \in Int
          BY <3>2
        <5> HIDE DEF u
        <5> QED BY <3>1, <3>2, <5>1, <5>2, <5>3, <5>4
      <4> QED BY <4>1, <4>2
    <3>4. Covers(u, v, q)
      BY <3>2, <3>3 DEF Covers
    <3> QED BY <2>2, <3>4 DEF u
  <2> QED BY <2>1, <2>2
<1>7. EntersAs(w, v, i, b, pl)
  BY <1>2, <1>4, <1>5, <1>6 DEF EntersAs
<1> QED BY <1>7 DEF v, b, pl

LEMMA HomedWith ==
  ASSUME NEW M, NEW w, Homed(M, w), NEW i \in 1 .. Len(M), NEW e
  PROVE  Homed([M EXCEPT ![i] = e.pl], With(w, i, e))
<1> DEFINE H == [M EXCEPT ![i] = e.pl]
           v == With(w, i, e)
           n == Len(M)
<1>1. DOMAIN v = DOMAIN w \cup {i} /\ v[i] = e /\ \A j \in DOMAIN w \ {i} : v[j] = w[j]
  BY DEF With
<1>2. /\ n \in Nat /\ H = [j \in 1 .. n |-> H[j]]
      /\ \A j \in 1 .. n : H[j] = IF j = i THEN e.pl ELSE M[j]
      /\ DOMAIN w \subseteq 1 .. n
      /\ \A j \in 1 .. n : M[j] = IF j \in DOMAIN w THEN w[j].pl ELSE None
  BY DEF Homed
<1> HIDE DEF H, v, n
<1>3. Len(H) = n
  BY <1>2, ListLen
<1>4. i \in 1 .. n
  BY DEF n
<1>5. Homed(H, v)
  <2>1. \A j \in 1 .. n : H[j] = IF j \in DOMAIN v THEN v[j].pl ELSE None
    BY <1>1, <1>2
  <2>2. DOMAIN v \subseteq 1 .. n
    BY <1>1, <1>2, <1>4
  <2> QED BY <1>2, <1>3, <2>1, <2>2 DEF Homed
<1> QED BY <1>5 DEF H, v

IndexLoose(u, i, b, oc) == [u EXCEPT !.unplaced = GridIndex(@, i, b, oc), !.home[i] = None]
IndexPlaced(u, i, b, oc, pl) ==
    [u EXCEPT !.places = With(@, pl, GridIndex(Get(@, pl, EmptyGrid), i, b, oc)),
              !.hulls = With(@, pl, With(Get(@, pl, <<>>), i, b)),
              !.bounds = With(@, pl, Union(Get(@, pl, b), b)),
              !.home[i] = pl]

LEMMA IndexIs ==
  ASSUME NEW s, NEW i, NEW b, NEW oc, NEW pl
  PROVE  Index(s, i, b, oc, pl) =
           IF ~IsBox(b) THEN Unindex(s, i)
           ELSE IF pl = None THEN IndexLoose(Ensure(Unindex(s, i), i), i, b, oc)
           ELSE IndexPlaced(Ensure(Unindex(s, i), i), i, b, oc, pl)
BY DEF Index, IndexLoose, IndexPlaced

LooseSet(a, U, M) == [a EXCEPT !.unplaced = U, !.home = M]
PlacedSet(a, P, H, B, M) == [a EXCEPT !.places = P, !.hulls = H, !.bounds = B, !.home = M]

LEMMA LooseFields ==
  ASSUME NEW U, NEW P, NEW H, NEW B, NEW M, NEW U2, NEW M2
  PROVE  LooseSet(SpaceOf(U, P, H, B, M), U2, M2) = SpaceOf(U2, P, H, B, M2)
<1> DEFINE x == [unplaced |-> U, places |-> P, hulls |-> H, bounds |-> B, home |-> M]
           y == [x EXCEPT !.unplaced = U2]
<1>1. y = [unplaced |-> U2, places |-> P, hulls |-> H, bounds |-> B, home |-> M]
  OBVIOUS
<1>2. [x EXCEPT !.unplaced = U2, !.home = M2] = [y EXCEPT !.home = M2]
  OBVIOUS
<1> HIDE DEF x
<1>3. [[unplaced |-> U2, places |-> P, hulls |-> H, bounds |-> B, home |-> M] EXCEPT !.home = M2]
         = [unplaced |-> U2, places |-> P, hulls |-> H, bounds |-> B, home |-> M2]
  OBVIOUS
<1>4. [x EXCEPT !.unplaced = U2, !.home = M2] =
        [unplaced |-> U2, places |-> P, hulls |-> H, bounds |-> B, home |-> M2]
  BY <1>1, <1>2, <1>3
<1>5. LooseSet(x, U2, M2) = [x EXCEPT !.unplaced = U2, !.home = M2]
  BY DEF LooseSet
<1>6. x = SpaceOf(U, P, H, B, M)
  BY DEF x, SpaceOf
<1>7. SpaceOf(U2, P, H, B, M2) = [unplaced |-> U2, places |-> P, hulls |-> H, bounds |-> B, home |-> M2]
  BY DEF SpaceOf
<1> QED BY <1>4, <1>5, <1>6, <1>7

LEMMA PlacedFields ==
  ASSUME NEW U, NEW P, NEW H, NEW B, NEW M, NEW P2, NEW H2, NEW B2, NEW M2
  PROVE  PlacedSet(SpaceOf(U, P, H, B, M), P2, H2, B2, M2) = SpaceOf(U, P2, H2, B2, M2)
<1> DEFINE x == [unplaced |-> U, places |-> P, hulls |-> H, bounds |-> B, home |-> M]
           y == [x EXCEPT !.places = P2]
           z == [y EXCEPT !.hulls = H2]
           a == [z EXCEPT !.bounds = B2]
<1>1. y = [unplaced |-> U, places |-> P2, hulls |-> H, bounds |-> B, home |-> M]
  OBVIOUS
<1>2. [x EXCEPT !.places = P2, !.hulls = H2, !.bounds = B2, !.home = M2] = [a EXCEPT !.home = M2]
  OBVIOUS
<1> HIDE DEF y
<1>3. z = [unplaced |-> U, places |-> P2, hulls |-> H2, bounds |-> B, home |-> M]
  BY <1>1
<1> HIDE DEF z
<1>4. a = [unplaced |-> U, places |-> P2, hulls |-> H2, bounds |-> B2, home |-> M]
  BY <1>3
<1> HIDE DEF a
<1>5. [a EXCEPT !.home = M2] =
        [unplaced |-> U, places |-> P2, hulls |-> H2, bounds |-> B2, home |-> M2]
  BY <1>4
<1> HIDE DEF x
<1>6. PlacedSet(x, P2, H2, B2, M2) = [x EXCEPT !.places = P2, !.hulls = H2, !.bounds = B2, !.home = M2]
  BY DEF PlacedSet
<1>7. x = SpaceOf(U, P, H, B, M)
  BY DEF x, SpaceOf
<1>8. SpaceOf(U, P2, H2, B2, M2) =
        [unplaced |-> U, places |-> P2, hulls |-> H2, bounds |-> B2, home |-> M2]
  BY DEF SpaceOf
<1> QED BY <1>2, <1>5, <1>6, <1>7, <1>8

LEMMA ExactParts ==
  ASSUME NEW s, NEW v, Exact(s, v)
  PROVE  /\ s = SpaceOf(s.unplaced, s.places, s.hulls, s.bounds, s.home)
         /\ Boxed(v) /\ Homed(s.home, v) /\ GridIs(s.unplaced, v, None)
         /\ s.places = [q \in Used(v) |-> s.places[q]]
         /\ \A q \in Used(v) : GridIs(s.places[q], v, q)
         /\ s.hulls = [q \in Used(v) |-> BoxesOf(v, q)]
         /\ s.bounds = [q \in Used(v) |-> s.bounds[q]]
         /\ \A q \in Used(v) : Covers(s.bounds[q], v, q)
BY DEF Exact, Gridded, Bounded, SpaceOf

LEMMA IndexLooseExact ==
  ASSUME NEW u, NEW w, Exact(u, w), NEW i \in 1 .. Len(u.home), i \notin DOMAIN w,
         NEW b, b \in Int \X Int, IsBox(b), NEW oc
  PROVE  Exact(IndexLoose(u, i, b, oc), With(w, i, [box |-> b, oc |-> oc, pl |-> None]))
<1> DEFINE v == With(w, i, [box |-> b, oc |-> oc, pl |-> None])
           U == u.unplaced
           P == u.places
           H == u.hulls
           B == u.bounds
           M == u.home
           U2 == GridIndex(U, i, b, oc)
           M2 == [M EXCEPT ![i] = None]
<1>1. /\ u = SpaceOf(U, P, H, B, M)
      /\ Boxed(w) /\ Homed(M, w) /\ GridIs(U, w, None)
      /\ P = [q \in Used(w) |-> P[q]] /\ \A q \in Used(w) : GridIs(P[q], w, q)
      /\ H = [q \in Used(w) |-> BoxesOf(w, q)]
      /\ B = [q \in Used(w) |-> B[q]] /\ \A q \in Used(w) : Covers(B[q], w, q)
  BY ExactParts
<1>2. /\ Boxed(v) /\ Used(v) = Used(w)
      /\ \A q : q # None => BoxesOf(v, q) = BoxesOf(w, q)
      /\ \A q, d : Covers(d, w, q) /\ q # None => Covers(d, v, q)
  <2>1. Boxed(w)
    BY <1>1
  <2>2. EntersAs(w, v, i, b, None)
    <3> DEFINE e == [box |-> b, oc |-> oc, pl |-> None]
    <3>1. v = With(w, i, e) /\ e.box = b /\ e.pl = None
      OBVIOUS
    <3> HIDE DEF e, v
    <3>2. EntersAs(w, With(w, i, e), i, e.box, e.pl)
      BY <2>1, <3>1, WithFacts
    <3> QED BY <3>1, <3>2
  <2> HIDE DEF v
  <2> QED BY <2>2 DEF EntersAs
<1>3. Homed(M2, v)
  <2> DEFINE e == [box |-> b, oc |-> oc, pl |-> None]
  <2>1. e.pl = None
    OBVIOUS
  <2> HIDE DEF e
  <2>2. Homed([M EXCEPT ![i] = e.pl], With(w, i, e))
    BY <1>1, HomedWith
  <2> QED BY <2>1, <2>2 DEF e
<1>4. GridIs(U2, v, None)
  BY <1>1, GridIndexIs
<1>5. \A q \in Used(w) : q # None
  BY DEF Used
<1>6. \A q \in Used(v) : GridIs(P[q], v, q)
  <2> SUFFICES ASSUME NEW q \in Used(v) PROVE GridIs(P[q], v, q)
    OBVIOUS
  <2> DEFINE e == [box |-> b, oc |-> oc, pl |-> None]
  <2>1. GridIs(P[q], w, q) /\ e.pl # q
    BY <1>1, <1>2, <1>5
  <2> HIDE DEF e, P
  <2>2. GridIs(P[q], With(w, i, e), q)
    BY <2>1, GridWithIs
  <2> QED BY <2>2 DEF e
<1> HIDE DEF v
<1>7. H = [q \in Used(v) |-> BoxesOf(v, q)]
  BY <1>1, <1>2, <1>5
<1>8. P = [q \in Used(v) |-> P[q]] /\ B = [q \in Used(v) |-> B[q]]
      /\ \A q \in Used(v) : Covers(B[q], v, q)
  BY <1>1, <1>2, <1>5
<1>9. IndexLoose(u, i, b, oc) = SpaceOf(U2, P, H, B, M2)
  <2>1. IndexLoose(u, i, b, oc) = LooseSet(u, U2, M2)
    BY DEF IndexLoose, LooseSet
  <2> HIDE DEF U2, M2, U, P, H, B, M
  <2>2. LooseSet(u, U2, M2) = SpaceOf(U2, P, H, B, M2)
    BY <1>1, LooseFields
  <2> QED BY <2>1, <2>2
<1> HIDE DEF U2, M2, U, P, H, B, M
<1>10. Exact([unplaced |-> U2, places |-> P, hulls |-> H, bounds |-> B, home |-> M2], v)
  BY <1>2, <1>3, <1>4, <1>6, <1>7, <1>8, SpaceIs
<1> QED BY <1>9, <1>10 DEF SpaceOf, v

LEMMA IndexPlacedExact ==
  ASSUME NEW u, NEW w, Exact(u, w), NEW i \in 1 .. Len(u.home), i \notin DOMAIN w,
         NEW b, b \in Int \X Int, IsBox(b), NEW oc, NEW pl, pl # None
  PROVE  Exact(IndexPlaced(u, i, b, oc, pl), With(w, i, [box |-> b, oc |-> oc, pl |-> pl]))
<1> DEFINE v == With(w, i, [box |-> b, oc |-> oc, pl |-> pl])
           U == u.unplaced
           P == u.places
           H == u.hulls
           B == u.bounds
           M == u.home
           g == Get(P, pl, EmptyGrid)
           h == Get(H, pl, <<>>)
           d == Get(B, pl, b)
           P2 == With(P, pl, GridIndex(g, i, b, oc))
           H2 == With(H, pl, With(h, i, b))
           B2 == With(B, pl, Union(d, b))
           M2 == [M EXCEPT ![i] = pl]
<1>1. /\ u = SpaceOf(U, P, H, B, M)
      /\ Boxed(w) /\ Homed(M, w) /\ GridIs(U, w, None)
      /\ P = [q \in Used(w) |-> P[q]] /\ \A q \in Used(w) : GridIs(P[q], w, q)
      /\ H = [q \in Used(w) |-> BoxesOf(w, q)]
      /\ B = [q \in Used(w) |-> B[q]] /\ \A q \in Used(w) : Covers(B[q], w, q)
  BY ExactParts
<1>2. /\ Boxed(v) /\ Used(v) = Used(w) \cup {pl}
      /\ \A q : BoxesOf(v, q) = IF q = pl THEN With(BoxesOf(w, q), i, b) ELSE BoxesOf(w, q)
      /\ \A q, c : Covers(c, w, q) => IF q = pl THEN Covers(Union(c, b), v, q) ELSE Covers(c, v, q)
  <2>1. Boxed(w)
    BY <1>1
  <2>2. EntersAs(w, v, i, b, pl)
    <3> DEFINE e == [box |-> b, oc |-> oc, pl |-> pl]
    <3>1. v = With(w, i, e) /\ e.box = b /\ e.pl = pl
      OBVIOUS
    <3> HIDE DEF e, v
    <3>2. EntersAs(w, With(w, i, e), i, e.box, e.pl)
      BY <2>1, <3>1, WithFacts
    <3> QED BY <3>1, <3>2
  <2> HIDE DEF v
  <2> QED BY <2>2 DEF EntersAs
<1>3. Homed(M2, v)
  <2> DEFINE e == [box |-> b, oc |-> oc, pl |-> pl]
  <2>1. e.pl = pl
    OBVIOUS
  <2> HIDE DEF e
  <2>2. Homed([M EXCEPT ![i] = e.pl], With(w, i, e))
    BY <1>1, HomedWith
  <2> QED BY <2>1, <2>2 DEF e
<1>4. pl \notin Used(w) => InGrid(w, pl) = {}
  BY DEF Used, InGrid
<1>5. GridIs(g, w, pl)
  <2>1. CASE pl \in Used(w)
    <3>1. g = P[pl]
      BY <1>1, <2>1 DEF Get
    <3> QED BY <1>1, <2>1, <3>1
  <2>2. CASE pl \notin Used(w)
    <3>1. g = EmptyGrid
      BY <1>1, <2>2 DEF Get
    <3>2. EmptyGrid.cells = {}
      BY DEF EmptyGrid
    <3>3. \A j \in DOMAIN w : w[j].pl # pl
      BY <1>4, <2>2 DEF InGrid
    <3> QED BY <3>1, <3>2, <3>3 DEF GridIs
  <2> QED BY <2>1, <2>2
<1>6. h = BoxesOf(w, pl)
  <2>1. CASE pl \in Used(w)
    BY <1>1, <2>1 DEF Get
  <2>2. CASE pl \notin Used(w)
    <3>1. h = <<>>
      BY <1>1, <2>2 DEF Get
    <3>2. BoxesOf(w, pl) = [j \in {} |-> w[j].box]
      BY <1>4, <2>2 DEF BoxesOf
    <3>3. [j \in {} |-> w[j].box] = <<>>
      OBVIOUS
    <3> QED BY <3>1, <3>2, <3>3
  <2> QED BY <2>1, <2>2
<1>7. Covers(d, w, pl)
  <2>1. CASE pl \in Used(w)
    <3>1. d = B[pl]
      BY <1>1, <2>1 DEF Get
    <3> QED BY <1>1, <2>1, <3>1
  <2>2. CASE pl \notin Used(w)
    <3>1. d = b
      BY <1>1, <2>2 DEF Get
    <3> QED BY <1>4, <2>2, <3>1 DEF Covers
  <2> QED BY <2>1, <2>2
<1>8. GridIs(U, v, None)
  <2> DEFINE e == [box |-> b, oc |-> oc, pl |-> pl]
  <2>1. e.pl # None
    OBVIOUS
  <2> HIDE DEF e
  <2>2. GridIs(U, With(w, i, e), None)
    BY <1>1, <2>1, GridWithIs
  <2> QED BY <2>2 DEF e
<1>9. GridIs(GridIndex(g, i, b, oc), v, pl)
  BY <1>5, GridIndexIs
<1>10. \A q \in Used(w) \ {pl} : GridIs(P[q], v, q)
  <2> SUFFICES ASSUME NEW q \in Used(w) \ {pl} PROVE GridIs(P[q], v, q)
    OBVIOUS
  <2> DEFINE e == [box |-> b, oc |-> oc, pl |-> pl]
  <2>1. GridIs(P[q], w, q) /\ e.pl # q
    BY <1>1
  <2> HIDE DEF e, P
  <2>2. GridIs(P[q], With(w, i, e), q)
    BY <2>1, GridWithIs
  <2> QED BY <2>2 DEF e
<1>11. IndexPlaced(u, i, b, oc, pl) = SpaceOf(U, P2, H2, B2, M2)
  <2>1. IndexPlaced(u, i, b, oc, pl) = PlacedSet(u, P2, H2, B2, M2)
    BY DEF IndexPlaced, PlacedSet
  <2> HIDE DEF P2, H2, B2, M2, U, P, H, B, M
  <2>2. PlacedSet(u, P2, H2, B2, M2) = SpaceOf(U, P2, H2, B2, M2)
    BY <1>1, PlacedFields
  <2> QED BY <2>1, <2>2
<1> DEFINE k == GridIndex(g, i, b, oc)
           f == With(h, i, b)
           c == Union(d, b)
<1>12. /\ DOMAIN P = Used(w) /\ DOMAIN H = Used(w) /\ DOMAIN B = Used(w)
       /\ \A q \in Used(w) : H[q] = BoxesOf(w, q)
  BY <1>1
<1>13. /\ P2 = With(P, pl, k) /\ H2 = With(H, pl, f) /\ B2 = With(B, pl, c)
       /\ GridIs(k, v, pl) /\ f = BoxesOf(v, pl) /\ Covers(c, v, pl)
  BY <1>2, <1>6, <1>7, <1>9
<1> HIDE DEF P2, H2, B2, M2, U, P, H, B, M, g, h, d, k, f, c, v
<1>14. /\ P2 = [q \in Used(v) |-> P2[q]] /\ B2 = [q \in Used(v) |-> B2[q]]
       /\ \A q \in Used(v) : P2[q] = IF q = pl THEN k ELSE P[q]
       /\ \A q \in Used(v) : B2[q] = IF q = pl THEN c ELSE B[q]
  BY <1>2, <1>12, <1>13 DEF With
<1>15. H2 = [q \in Used(v) |-> BoxesOf(v, q)]
  <2>1. \A q \in Used(v) : (IF q = pl THEN f ELSE H[q]) = BoxesOf(v, q)
    BY <1>2, <1>12, <1>13
  <2>2. H2 = [q \in Used(v) |-> IF q = pl THEN f ELSE H[q]]
    BY <1>2, <1>12, <1>13 DEF With
  <2> QED BY <2>1, <2>2
<1>16. \A q \in Used(v) : GridIs(P2[q], v, q)
  BY <1>2, <1>10, <1>13, <1>14
<1>17. \A q \in Used(v) : Covers(B2[q], v, q)
  BY <1>1, <1>2, <1>13, <1>14
<1>18. Exact([unplaced |-> U, places |-> P2, hulls |-> H2, bounds |-> B2, home |-> M2], v)
  BY <1>2, <1>3, <1>8, <1>14, <1>15, <1>16, <1>17, SpaceIs
<1> QED BY <1>11, <1>18 DEF SpaceOf, v

(* What v says of a row; and v once row i is indexed again.                *)
Entry(p, c, i) == [box |-> WorldHull(p, i), oc |-> OpaqueClosed(p, c, i), pl |-> PlaceFor(p, i)]
Anew(v, p, c, i) ==
    IF IsBox(WorldHull(p, i)) THEN With(Without(v, i), i, Entry(p, c, i)) ELSE Without(v, i)

LEMMA ReindexExact ==
  ASSUME NEW s, NEW v, Exact(s, v), NEW p, NEW c, NEW i \in Nat \ {0},
         WorldHull(p, i) = None \/ WorldHull(p, i) \in Int \X Int
  PROVE  Exact(Reindex(s, p, c, i), Anew(v, p, c, i))
<1> DEFINE w == Without(v, i)
           t == Unindex(s, i)
           u == Ensure(t, i)
           b == WorldHull(p, i)
           oc == OpaqueClosed(p, c, i)
           pl == PlaceFor(p, i)
<1>1. Exact(t, w) /\ i \notin DOMAIN w
  BY UnindexExact DEF Without
<1>2. Exact(u, w) /\ i \in 1 .. Len(u.home)
  <2> HIDE DEF t, w
  <2>1. Exact(u, w) /\ i <= Len(u.home)
    BY <1>1, EnsureExact
  <2>2. Len(u.home) \in Nat
    BY <2>1 DEF Exact, Homed
  <2> QED BY <2>1, <2>2
<1>3. ~IsBox(None)
  BY DEF IsBox
<1>4. CASE b = None
  <2>1. Reindex(s, p, c, i) = t
    BY <1>4 DEF Reindex
  <2>2. Anew(v, p, c, i) = w
    BY <1>3, <1>4 DEF Anew
  <2> QED BY <1>1, <2>1, <2>2
<1>5. CASE b # None
  <2>1. Reindex(s, p, c, i) = Index(s, i, b, oc, pl)
    BY <1>5 DEF Reindex
  <2>2. CASE ~IsBox(b)
    <3>1. Reindex(s, p, c, i) = t
      BY <2>1, <2>2, IndexIs
    <3>2. Anew(v, p, c, i) = w
      BY <2>2 DEF Anew
    <3> QED BY <1>1, <3>1, <3>2
  <2>3. CASE IsBox(b) /\ pl = None
    <3>1. Reindex(s, p, c, i) = IndexLoose(u, i, b, oc)
      BY <2>1, <2>3, IndexIs
    <3>2. Anew(v, p, c, i) = With(w, i, [box |-> b, oc |-> oc, pl |-> None])
      BY <2>3 DEF Anew, Entry
    <3> HIDE DEF w, u, b, oc, pl
    <3>3. b \in Int \X Int
      BY <1>5 DEF b
    <3> QED BY <1>1, <1>2, <2>3, <3>1, <3>2, <3>3, IndexLooseExact
  <2>4. CASE IsBox(b) /\ pl # None
    <3>1. Reindex(s, p, c, i) = IndexPlaced(u, i, b, oc, pl)
      BY <2>1, <2>4, IndexIs
    <3>2. Anew(v, p, c, i) = With(w, i, [box |-> b, oc |-> oc, pl |-> pl])
      BY <2>4 DEF Anew, Entry
    <3> HIDE DEF w, u, b, oc, pl
    <3>3. b \in Int \X Int
      BY <1>5 DEF b
    <3> QED BY <1>1, <1>2, <2>4, <3>1, <3>2, <3>3, IndexPlacedExact
  <2> QED BY <2>2, <2>3, <2>4
<1> QED BY <1>4, <1>5

(* What the index is to say of the first n rows, and of all of them.       *)
SeenTo(p, c, n) == [i \in {j \in 1 .. n : IsBox(WorldHull(p, j))} |-> Entry(p, c, i)]
Seen(p, c) == SeenTo(p, c, Len(p.sigils))

LEMMA HullTyped ==
  ASSUME NEW p, Packed(p), NEW i \in Slots(p)
  PROVE  WorldHull(p, i) = None \/ WorldHull(p, i) \in Int \X Int
<1> DEFINE h == p.cols["hull"][i]
           x == p.cols["pose"][i]
<1>1. (h = None \/ h \in Int \X Int) /\ (x = None \/ x \in Int)
  <2>1. IsRow(At(p, i))
    BY DEF Packed, Filled
  <2>2. At(p, i)["hull"] = h /\ At(p, i)["pose"] = x
    BY AtFields DEF Cols
  <2> QED BY <2>1, <2>2 DEF IsRow
<1>2. WorldHull(p, i) = IF None \in {h, x} THEN None ELSE <<h[1] + x, h[2] + x>>
  BY DEF WorldHull
<1> HIDE DEF h, x
<1>3. CASE None \in {h, x}
  BY <1>2, <1>3
<1>4. CASE None \notin {h, x}
  <2>1. h[1] \in Int /\ h[2] \in Int /\ x \in Int
    BY <1>1, <1>4
  <2>2. WorldHull(p, i) = <<h[1] + x, h[2] + x>>
    BY <1>2, <1>4
  <2> QED BY <2>1, <2>2
<1> QED BY <1>3, <1>4

(* Rows that look the same to the index.                                   *)
Alike(p, q, j) ==
    /\ \A f \in {"hull", "pose", "afford", "within", "kind"} : At(q, j)[f] = At(p, j)[f]
    /\ Locked(At(q, j)) <=> Locked(At(p, j))
    /\ q.sigils[j] = p.sigils[j]

LEMMA AlikeSeen ==
  ASSUME NEW p, NEW q, NEW c, NEW j, Alike(p, q, j)
  PROVE  WorldHull(q, j) = WorldHull(p, j) /\ Entry(q, c, j) = Entry(p, c, j)
<1>1. \A f \in {"hull", "pose", "afford", "within", "kind"} : q.cols[f][j] = p.cols[f][j]
  <2>1. {"hull", "pose", "afford", "within", "kind"} \subseteq Cols
    BY DEF Cols
  <2> QED BY <2>1, AtFields DEF Alike
<1>2. WorldHull(q, j) = WorldHull(p, j)
  BY <1>1 DEF WorldHull
<1>3. PlaceFor(q, j) = PlaceFor(p, j)
  BY <1>1 DEF PlaceFor, Alike
<1>4. OpaqueClosed(q, c, j) = OpaqueClosed(p, c, j)
  <2>1. At(q, j)["rels"] = Item(q, "rels", j) /\ At(p, j)["rels"] = Item(p, "rels", j)
    BY AtFields DEF Maps
  <2>2. (\E e \in Item(q, "rels", j) : e[1] = "LockedBy") <=> (\E e \in Item(p, "rels", j) : e[1] = "LockedBy")
    BY <2>1 DEF Alike, Locked
  <2>3. q.cols["afford"][j] = p.cols["afford"][j]
    BY <1>1
  <2>4. OpaqueClosed(q, c, j) <=> OpaqueClosed(p, c, j)
    BY <2>2, <2>3 DEF OpaqueClosed
  <2> QED BY <2>4 DEF OpaqueClosed
<1> QED BY <1>2, <1>3, <1>4 DEF Entry

LEMMA SameSeen ==
  ASSUME NEW p, NEW q, NEW c, q.sigils = p.sigils, \A j \in Slots(p) : Alike(p, q, j)
  PROVE  Seen(q, c) = Seen(p, c)
<1>1. \A j \in 1 .. Len(p.sigils) : WorldHull(q, j) = WorldHull(p, j) /\ Entry(q, c, j) = Entry(p, c, j)
  BY AlikeSeen DEF Slots
<1>2. {j \in 1 .. Len(p.sigils) : IsBox(WorldHull(q, j))} = {j \in 1 .. Len(p.sigils) : IsBox(WorldHull(p, j))}
  BY <1>1
<1> QED BY <1>1, <1>2 DEF Seen, SeenTo

(* One row is indexed again: either it was the only one to look different  *)
(* or it is the next of a list.                                            *)
LEMMA AnewSeen ==
  ASSUME NEW p, Packed(p), NEW q, NEW c, q.sigils = p.sigils, NEW i \in Slots(p),
         \A j \in Slots(p) \ {i} : Alike(p, q, j)
  PROVE  Anew(Seen(p, c), q, c, i) = Seen(q, c)
<1> DEFINE v == Seen(p, c)
           w == Seen(q, c)
           D == {j \in 1 .. Len(p.sigils) : IsBox(WorldHull(q, j))}
<1>1. \A j \in 1 .. Len(p.sigils) : j # i =>
         WorldHull(q, j) = WorldHull(p, j) /\ Entry(q, c, j) = Entry(p, c, j)
  BY AlikeSeen DEF Slots
<1>2. /\ DOMAIN v = {j \in 1 .. Len(p.sigils) : IsBox(WorldHull(p, j))}
      /\ \A j \in DOMAIN v : v[j] = Entry(p, c, j)
  BY DEF Seen, SeenTo
<1>3. w = [j \in D |-> Entry(q, c, j)]
  BY DEF Seen, SeenTo
<1>4. i \in 1 .. Len(p.sigils)
  BY DEF Slots
<1> HIDE DEF v, w
<1>5. DOMAIN v \ {i} = D \ {i} /\ \A j \in D \ {i} : v[j] = Entry(q, c, j)
  BY <1>1, <1>2
<1>6. CASE IsBox(WorldHull(q, i))
  <2>1. Anew(v, q, c, i) = With(Without(v, i), i, Entry(q, c, i))
    BY <1>6 DEF Anew
  <2>2. D = (DOMAIN v \ {i}) \cup {i}
    BY <1>4, <1>5, <1>6
  <2> HIDE DEF D
  <2>3. With(Without(v, i), i, Entry(q, c, i)) = [j \in D |-> Entry(q, c, j)]
    BY <1>5, <2>2 DEF With, Without
  <2> QED BY <1>3, <2>1, <2>3 DEF v, w
<1>7. CASE ~IsBox(WorldHull(q, i))
  <2>1. Anew(v, q, c, i) = Without(v, i)
    BY <1>7 DEF Anew
  <2>2. D = DOMAIN v \ {i}
    BY <1>5, <1>7
  <2> HIDE DEF D
  <2>3. Without(v, i) = [j \in D |-> Entry(q, c, j)]
    BY <1>5, <2>2 DEF Without
  <2> QED BY <1>3, <2>1, <2>3 DEF v, w
<1> QED BY <1>6, <1>7

LEMMA NextSeen ==
  ASSUME NEW p, NEW c, NEW n \in Nat \ {0}
  PROVE  /\ IsBox(WorldHull(p, n)) => Anew(SeenTo(p, c, n - 1), p, c, n) = SeenTo(p, c, n)
         /\ ~IsBox(WorldHull(p, n)) =>
              /\ Anew(SeenTo(p, c, n - 1), p, c, n) = SeenTo(p, c, n)
              /\ SeenTo(p, c, n) = SeenTo(p, c, n - 1)
<1> DEFINE C == {j \in 1 .. n - 1 : IsBox(WorldHull(p, j))}
           D == {j \in 1 .. n : IsBox(WorldHull(p, j))}
           v == SeenTo(p, c, n - 1)
           w == SeenTo(p, c, n)
<1>1. v = [j \in C |-> Entry(p, c, j)] /\ w = [j \in D |-> Entry(p, c, j)]
  BY DEF SeenTo
<1>2. n \notin C /\ D = IF IsBox(WorldHull(p, n)) THEN C \cup {n} ELSE C
  <2>1. 1 .. n = (1 .. n - 1) \cup {n} /\ n \notin 1 .. n - 1
    OBVIOUS
  <2> QED BY <2>1
<1> HIDE DEF C, D, v, w
<1>3. Without(v, n) = v
  BY <1>1, <1>2 DEF Without
<1>4. CASE IsBox(WorldHull(p, n))
  <2>1. Anew(v, p, c, n) = With(v, n, Entry(p, c, n))
    BY <1>3, <1>4 DEF Anew
  <2>2. With(v, n, Entry(p, c, n)) = w
    BY <1>1, <1>2, <1>4 DEF With
  <2> QED BY <1>4, <2>1, <2>2 DEF v, w
<1>5. CASE ~IsBox(WorldHull(p, n))
  <2>1. Anew(v, p, c, n) = v /\ w = v
    BY <1>1, <1>2, <1>3, <1>5 DEF Anew
  <2> QED BY <1>5, <2>1 DEF v, w
<1> QED BY <1>4, <1>5

(* rebuild_space_ix.                                                       *)
LEMMA EmptyExact ==
  ASSUME NEW v, v = [i \in {} |-> v[i]]
  PROVE  Exact(EmptySpace, v)
<1>1. DOMAIN v = {}
  OBVIOUS
<1>2. /\ EmptySpace = [unplaced |-> EmptyGrid, places |-> <<>>, hulls |-> <<>>, bounds |-> <<>>,
                       home |-> <<>>]
  BY DEF EmptySpace
<1>3. Used(v) = {}
  BY <1>1 DEF Used
<1>4. Boxed(v)
  BY <1>1 DEF Boxed
<1> DEFINE M == <<>>
<1>5. Len(M) = 0 /\ M = [i \in {} |-> M[i]] /\ 1 .. 0 = {}
  OBVIOUS
<1>6. Homed(M, v)
  BY <1>1, <1>5 DEF Homed
<1>7. GridIs(EmptyGrid, v, None)
  BY <1>1 DEF GridIs, EmptyGrid
<1>8. M = [q \in Used(v) |-> M[q]] /\ M = [q \in Used(v) |-> BoxesOf(v, q)]
  BY <1>3, <1>5
<1>9. (\A q \in Used(v) : GridIs(M[q], v, q)) /\ \A q \in Used(v) : Covers(M[q], v, q)
  BY <1>3
<1> HIDE DEF M
<1>10. Exact([unplaced |-> EmptyGrid, places |-> M, hulls |-> M, bounds |-> M, home |-> M], v)
  BY <1>4, <1>6, <1>7, <1>8, <1>9, SpaceIs
<1> QED BY <1>2, <1>10 DEF M

LEMMA RebuildExact ==
  ASSUME NEW p, Packed(p), NEW c
  PROVE  Exact(Rebuild(p, c), Seen(p, c))
<1> DEFINE N == Len(p.sigils)
<1>1. N \in Nat /\ Slots(p) = 1 .. N
  BY DEF Packed, Tabled, Slots
<1>2. PICK f : /\ Rebuild(p, c) = f[N] /\ f[0] = EmptySpace
               /\ \A n \in 1 .. N : f[n] = ReindexHull(f[n - 1], p, c, n)
  <2>1. \E f : /\ Rebuild(p, c) = f[Len(p.sigils)]
               /\ f[0] = EmptySpace
               /\ \A n \in 1 .. Len(p.sigils) : f[n] = ReindexHull(f[n - 1], p, c, n)
    BY <1>1, RebuildRuns
  <2> QED BY <2>1
<1> DEFINE S == {n \in 0 .. N : Exact(f[n], SeenTo(p, c, n))}
<1>3. 0 \in S
  <2>1. SeenTo(p, c, 0) = [i \in {} |-> SeenTo(p, c, 0)[i]]
    <3>1. {j \in 1 .. 0 : IsBox(WorldHull(p, j))} = {}
      OBVIOUS
    <3> QED BY <3>1 DEF SeenTo
  <2> QED BY <1>1, <1>2, <2>1, EmptyExact
<1>4. ASSUME NEW n \in 1 .. N, n - 1 \in S PROVE n \in S
  <2>1. Exact(f[n - 1], SeenTo(p, c, n - 1)) /\ f[n] = ReindexHull(f[n - 1], p, c, n)
    BY <1>2, <1>4
  <2>2. n \in Nat \ {0} /\ n \in Slots(p) /\ n \in 0 .. N
    BY <1>1
  <2>3. ~IsBox(None)
    BY DEF IsBox
  <2>4. CASE WorldHull(p, n) = None
    <3>1. f[n] = f[n - 1]
      BY <2>1, <2>4 DEF ReindexHull
    <3>2. SeenTo(p, c, n) = SeenTo(p, c, n - 1)
      BY <2>2, <2>3, <2>4, NextSeen
    <3> QED BY <2>1, <2>2, <3>1, <3>2
  <2>5. CASE WorldHull(p, n) # None
    <3>1. f[n] = Reindex(f[n - 1], p, c, n)
      BY <2>1, <2>5 DEF ReindexHull
    <3>2. SeenTo(p, c, n) = Anew(SeenTo(p, c, n - 1), p, c, n)
      BY <2>2, NextSeen
    <3>3. WorldHull(p, n) = None \/ WorldHull(p, n) \in Int \X Int
      BY <2>2, HullTyped
    <3>4. Exact(Reindex(f[n - 1], p, c, n), Anew(SeenTo(p, c, n - 1), p, c, n))
      BY <2>1, <2>2, <3>3, ReindexExact
    <3> QED BY <2>2, <3>1, <3>2, <3>4
  <2> QED BY <2>4, <2>5
<1> HIDE DEF S
<1>5. N \in S
  <2>1. 0 .. N \subseteq S
    BY <1>1, <1>3, <1>4, Throughout
  <2> QED BY <1>1, <2>1
<1> QED BY <1>2, <1>5 DEF S, Seen

-----------------------------------------------------------------------------
(* A setter: the row it names is indexed again, or looks as before.        *)
LEMMA TouchedExact ==
  ASSUME NEW p, Packed(p), NEW q, NEW l \in DOMAIN p.by, Touches(p, q, l),
         NEW s, NEW c, Exact(s, Seen(p, c))
  PROVE  /\ Exact(Reindex(s, q, c, q.by[l]), Seen(q, c))
         /\ Unseen(p, q, l) => Exact(s, Seen(q, c))
<1> DEFINE i == p.by[l]
<1>1. i \in Slots(p) /\ i \in Nat \ {0} /\ q.by[l] = i
  <2>1. i \in Slots(p) /\ Len(p.sigils) \in Nat
    BY DEF Packed, Tabled
  <2> QED BY <2>1 DEF Slots, Touches
<1>2. q.sigils = p.sigils /\ Packed(q) /\ Slots(q) = Slots(p)
  BY DEF Touches, Slots
<1>3. \A j \in Slots(p) \ {i} : Alike(p, q, j)
  BY DEF Touches, Alike
<1>4. Exact(Reindex(s, q, c, i), Seen(q, c))
  <2> HIDE DEF i
  <2>1. WorldHull(q, i) = None \/ WorldHull(q, i) \in Int \X Int
    BY <1>1, <1>2, HullTyped
  <2>2. Anew(Seen(p, c), q, c, i) = Seen(q, c)
    BY <1>1, <1>2, <1>3, AnewSeen
  <2>3. Exact(Reindex(s, q, c, i), Anew(Seen(p, c), q, c, i))
    BY <1>1, <2>1, ReindexExact
  <2> QED BY <2>2, <2>3
<1>5. ASSUME Unseen(p, q, l) PROVE Exact(s, Seen(q, c))
  <2>1. Alike(p, q, i)
    BY <1>5 DEF Touches, Alike, Unseen
  <2>2. \A j \in Slots(p) : Alike(p, q, j)
    BY <1>3, <2>1
  <2>3. Seen(q, c) = Seen(p, c)
    BY <1>2, <2>2, SameSeen
  <2> QED BY <2>3
<1> QED BY <1>1, <1>4, <1>5

LEMMA KeptExact ==
  ASSUME NEW p, Packed(p), NEW q, NEW l \in DOMAIN p.by, Touches(p, q, l),
         NEW s, NEW t, NEW c, Exact(s, Seen(p, c)), Kept(p, q, s, t, c, l)
  PROVE  Exact(t, Seen(q, c))
BY TouchedExact DEF Kept

(* A new row has no hull: the index has nothing to say of it.              *)
LEMMA BlankSeen ==
  ASSUME NEW p, Packed(p), NEW l \in Loci \ DOMAIN p.by, NEW row, IsRow(row),
         row["hull"] = None, NEW c
  PROVE  Seen(Push(p, l, row), c) = Seen(p, c)
<1> DEFINE q == Push(p, l, row)
           n == Len(p.sigils) + 1
<1>2. /\ Packed(q)
      /\ Len(q.sigils) = n /\ q.sigils = Append(p.sigils, l)
      /\ q.by = [m \in DOMAIN p.by \cup {l} |-> IF m = l THEN n ELSE p.by[m]]
      /\ At(q, n) = row /\ \A i \in Slots(p) : At(q, i) = At(p, i)
  BY PushAt
<1>3. Len(p.sigils) \in Nat /\ n = Len(p.sigils) + 1 /\ p.sigils \in Seq(Loci) /\ Slots(p) = 1 .. Len(p.sigils)
  BY DEF Packed, Tabled, Slots
<1> HIDE DEF q
<1>4. \A i \in Slots(p) : q.sigils[i] = p.sigils[i]
  BY <1>2, <1>3
<1>5. \A i \in Slots(p) : Alike(p, q, i)
  BY <1>2, <1>4 DEF Alike
<1>6. \A i \in 1 .. Len(p.sigils) : WorldHull(q, i) = WorldHull(p, i) /\ Entry(q, c, i) = Entry(p, c, i)
  BY <1>3, <1>5, AlikeSeen
<1>7. ~IsBox(WorldHull(q, n))
  <2>1. q.cols["hull"][n] = None
    BY <1>2, AtFields DEF Cols
  <2>2. WorldHull(q, n) = None
    BY <2>1 DEF WorldHull
  <2> QED BY <2>2 DEF IsBox
<1>8. {j \in 1 .. n : IsBox(WorldHull(q, j))} = {j \in 1 .. Len(p.sigils) : IsBox(WorldHull(p, j))}
  <2>1. 1 .. n = (1 .. Len(p.sigils)) \cup {n}
    BY <1>3
  <2> HIDE DEF n
  <2> QED BY <1>6, <1>7, <2>1
<1>9. SeenTo(q, c, n) = SeenTo(p, c, Len(p.sigils))
  <2> HIDE DEF n
  <2> QED BY <1>6, <1>8 DEF SeenTo
<1> QED BY <1>2, <1>9 DEF Seen, q

LEMMA BasedSeen ==
  ASSUME NEW p, Packed(p), NEW l \in Loci, NEW c
  PROVE  Seen(Based(p, l), c) = Seen(p, c)
<1> DEFINE row == Blank("relic")
<1>1. IsRow(row) /\ row["hull"] = None
  BY BlankIsRow
<1> HIDE DEF row
<1>2. l \notin DOMAIN p.by => Seen(Push(p, l, row), c) = Seen(p, c)
  BY <1>1, BlankSeen
<1> QED BY <1>2 DEF Based, Has, row

LEMMA RowIndex ==
  ASSUME NEW p, Packed(p), NEW l \in DOMAIN p.by
  PROVE  p.by[l] \in Nat /\ p.by[l] \in Slots(p)
<1>1. p.by[l] \in Slots(p) /\ Len(p.sigils) \in Nat
  BY DEF Packed, Tabled
<1> QED BY <1>1 DEF Slots

(* A row there is or one that is new is posed and indexed.                 *)
LEMMA PosedExact ==
  ASSUME NEW p, Packed(p), NEW l \in Loci, NEW q, Touches(Based(p, l), q, l),
         NEW s, NEW c, Exact(s, Seen(p, c))
  PROVE  Exact(Reindex(Ensure(s, q.by[l]), q, c, q.by[l]), Seen(q, c))
<1> DEFINE b == Based(p, l)
<1>1. Packed(b) /\ l \in DOMAIN b.by /\ Seen(b, c) = Seen(p, c)
  BY BasedRows, BasedSeen
<1>2. q.by[l] \in Nat
  <2> HIDE DEF b
  <2>1. b.by[l] \in Nat
    BY <1>1, RowIndex
  <2> QED BY <2>1 DEF Touches, b
<1>3. Exact(Ensure(s, q.by[l]), Seen(b, c))
  BY <1>1, <1>2, EnsureExact
<1>4. Touches(b, q, l)
  OBVIOUS
<1> HIDE DEF b
<1> QED BY <1>1, <1>3, <1>4, TouchedExact

IndexInv == Exact(space, Seen(proj, canon))

LEMMA InsertExact ==
  ASSUME RowsInv, IndexInv, NEW l \in Loci, NEW k, InsertLocus(l, k)
  PROVE  IndexInv'
<1> DEFINE row == Blank(k)
           p == Push(proj, l, row)
<1>1. canon' = canon /\ Packed(proj) /\ Exact(space, Seen(proj, canon))
  BY DEF InsertLocus, Writes, RowsInv, IndexInv
<1>2. CASE /\ Has(proj, l)
           /\ Writes(proj, Ensure(space, proj.by[l]))
  <2>1. proj' = proj /\ space' = Ensure(space, proj.by[l]) /\ l \in DOMAIN proj.by
    BY <1>2 DEF Writes, Calls, Has
  <2>2. proj.by[l] \in Nat
    BY <1>1, <2>1, RowIndex
  <2>3. Exact(Ensure(space, proj.by[l]), Seen(proj, canon))
    BY <1>1, <2>2, EnsureExact
  <2> QED BY <1>1, <2>1, <2>3 DEF IndexInv
<1>3. CASE ~Has(proj, l) /\ Writes(p, Ensure(space, p.by[l]))
  <2>1. proj' = p /\ space' = Ensure(space, p.by[l]) /\ l \in Loci \ DOMAIN proj.by
    BY <1>3 DEF Writes, Calls, Has
  <2>2. IsRow(row) /\ row["hull"] = None
    BY BlankIsRow
  <2> HIDE DEF row
  <2>3. Packed(p) /\ l \in DOMAIN p.by
    <3>1. Packed(p) /\ DOMAIN p.by = DOMAIN proj.by \cup {l}
      BY <1>1, <2>1, <2>2, PushRows
    <3> QED BY <3>1
  <2>4. Seen(p, canon) = Seen(proj, canon)
    BY <1>1, <2>1, <2>2, BlankSeen
  <2> HIDE DEF p
  <2>5. p.by[l] \in Nat
    BY <2>3, RowIndex
  <2>6. Exact(Ensure(space, p.by[l]), Seen(p, canon))
    BY <1>1, <2>4, <2>5, EnsureExact
  <2> QED BY <1>1, <2>1, <2>6 DEF IndexInv
<1> QED BY <1>2, <1>3 DEF InsertLocus

LEMMA SetsExact ==
  ASSUME RowsInv, IndexInv, NEW l, Sets(l)
  PROVE  IndexInv'
BY KeptExact DEF RowsInv, IndexInv, Sets

LEMMA SpawnExact ==
  ASSUME RowsInv, IndexInv, NEW l \in Loci, NEW x \in Spots, Spawn(l, x)
  PROVE  IndexInv'
<1> DEFINE q == Based(proj, l)
           p == SetCell(q, l, "pose", x)
<1>1. /\ proj' = p /\ canon' = canon
      /\ space' = Reindex(Ensure(space, p.by[l]), p, canon, p.by[l])
  BY DEF Spawn, Based, Writes, Calls
<1>2. Packed(proj) /\ Exact(space, Seen(proj, canon))
  BY DEF RowsInv, IndexInv
<1>3. Packed(q) /\ l \in DOMAIN q.by /\ x \in Int
  BY <1>2, BasedRows, CellAssumption
<1>4. Touches(q, p, l)
  <2> HIDE DEF q
  <2> QED BY <1>3, PoseAsWas
<1> HIDE DEF p
<1>5. Exact(Reindex(Ensure(space, p.by[l]), p, canon, p.by[l]), Seen(p, canon))
  BY <1>2, <1>4, PosedExact
<1> QED BY <1>1, <1>5 DEF IndexInv

LEMMA MovedExact ==
  ASSUME NEW at, Packed(at.p), Exact(at.s, Seen(at.p, canon)),
         NEW l \in Loci, NEW x \in Int, cap \in Nat
  PROVE  LET r == Moved(at, l, x) IN Packed(r.p) /\ Exact(r.s, Seen(r.p, canon))
<1> DEFINE r == Moved(at, l, x)
<1>1. /\ Packed(r.p)
      /\ \/ r = at
         \/ /\ Touches(Based(at.p, l), r.p, l)
            /\ r.s = Reindex(Ensure(at.s, r.p.by[l]), r.p, canon, r.p.by[l])
  BY MovedRows
<1> HIDE DEF r
<1>2. Exact(r.s, Seen(r.p, canon))
  <2>1. CASE r = at
    BY <2>1
  <2>2. CASE /\ Touches(Based(at.p, l), r.p, l)
             /\ r.s = Reindex(Ensure(at.s, r.p.by[l]), r.p, canon, r.p.by[l])
    <3> DEFINE p == at.p
               s == at.s
               q == r.p
    <3>1. /\ Packed(p) /\ Exact(s, Seen(p, canon)) /\ Touches(Based(p, l), q, l)
          /\ r.s = Reindex(Ensure(s, q.by[l]), q, canon, q.by[l])
      BY <2>2
    <3> HIDE DEF p, s, q
    <3>2. Exact(Reindex(Ensure(s, q.by[l]), q, canon, q.by[l]), Seen(q, canon))
      BY <3>1, PosedExact
    <3> QED BY <3>1, <3>2 DEF q
  <2> QED BY <1>1, <2>1, <2>2
<1> QED BY <1>1, <1>2 DEF r

LEMMA IslandSnapExact ==
  ASSUME RowsInv, IndexInv, NEW l \in Loci, NEW b \in Loci, NEW x \in Spots, IslandSnap(l, b, x)
  PROVE  IndexInv'
<1> DEFINE at == [p |-> proj, s |-> space]
           one == Moved(at, l, x)
           two == Moved(one, b, x)
<1>1. proj' = two.p /\ space' = two.s /\ canon' = canon
  <2>1. Once(Moved([p |-> proj, s |-> space], l, x), LAMBDA a : Moved(a, b, x)) = two
    BY OnceMoved
  <2> HIDE DEF two
  <2> QED BY <2>1 DEF IslandSnap, Writes, Calls
<1>2. /\ Packed(at.p) /\ cap \in Nat /\ x \in Int
      /\ Exact(at.s, Seen(at.p, canon))
  BY CellAssumption DEF RowsInv, IndexInv
<1> HIDE DEF at
<1>3. Packed(one.p) /\ Exact(one.s, Seen(one.p, canon))
  BY <1>2, MovedExact
<1> HIDE DEF one
<1>4. Packed(two.p) /\ Exact(two.s, Seen(two.p, canon))
  BY <1>2, <1>3, MovedExact
<1> HIDE DEF two
<1> QED BY <1>1, <1>4 DEF IndexInv

LEMMA RebuiltExact ==
  ASSUME RowsInv', space' = Rebuild(proj', canon')
  PROVE  IndexInv'
<1>1. Packed(proj')
  BY DEF RowsInv
<1>2. Exact(Rebuild(proj', canon'), Seen(proj', canon'))
  BY <1>1, RebuildExact
<1> QED BY <1>2 DEF IndexInv

LEMMA StepExact ==
  ASSUME RowsInv, IndexInv, [Next]_vars
  PROVE  IndexInv'
<1>1. RowsInv'
  BY StepImplements
<1>2. CASE UNCHANGED vars
  BY <1>2 DEF vars, IndexInv
<1>3. ASSUME NEW l, Setter(l) PROVE IndexInv'
  <2>1. Sets(l)
    BY <1>3, SettersSet DEF RowsInv
  <2> QED BY <2>1, SetsExact
<1>4. ASSUME NEW l \in Loci, SetRow(l) PROVE IndexInv'
  BY <1>3, <1>4, SpawnExact DEF SetRow, Setter
<1>5. ASSUME NEW l \in Loci, NEW b \in Loci, Relate(l, b) PROVE IndexInv'
  BY <1>3, <1>5 DEF Setter
<1>6. ASSUME NEW l \in Loci, CapturePlace(l) PROVE IndexInv'
  <2>1. UNCHANGED <<proj, space, canon>>
    BY <1>6 DEF CapturePlace, Calls
  <2> QED BY <2>1 DEF IndexInv
<1>7. ASSUME NEW l \in Loci, RemoveLocus(l) \/ EvictPlace(l) PROVE IndexInv'
  <2>1. space' = Rebuild(proj', canon')
    BY <1>7 DEF RemoveLocus, EvictPlace, EvictRows, Writes, Calls
  <2> QED BY <1>1, <2>1, RebuiltExact
<1>8. ASSUME LoadCooked \/ LoadHeld \/ Reload PROVE IndexInv'
  <2>1. space' = Rebuild(proj', canon')
    BY <1>8 DEF LoadCooked, LoadHeld, ApplyPlaceSnap, Reload, Calls
  <2> QED BY <1>1, <2>1, RebuiltExact
<1>9. ASSUME NEW c \in Canons, ApplyEpoch(c) PROVE IndexInv'
  <2>1. space' = Rebuild(proj', canon')
    BY <1>9 DEF ApplyEpoch, Calls
  <2> QED BY <1>1, <2>1, RebuiltExact
<1>10. CASE Next
  BY <1>4, <1>5, <1>6, <1>7, <1>8, <1>9, <1>10, InsertExact, IslandSnapExact DEF Next, Page
<1> QED BY <1>2, <1>10

(* Boxes that meet have a cell in common.                                  *)
LEMMA DivMono ==
  ASSUME NEW x \in Int, NEW y \in Int, x <= y
  PROVE  /\ x \div CellMm \in Int /\ y \div CellMm \in Int
         /\ x \div CellMm <= y \div CellMm
BY CellAssumption

LEMMA MeetCells ==
  ASSUME NEW b \in Int \X Int, NEW d \in Int \X Int, Meet(b, d)
  PROVE  CellsOf(b) \cap CellsOf(d) # {}
<1>1. /\ b[1] \in Int /\ b[2] \in Int /\ d[1] \in Int /\ d[2] \in Int
      /\ b[1] <= b[2] /\ d[1] <= d[2] /\ b[1] <= d[2] /\ d[1] <= b[2]
  BY DEF Meet, IsBox
<1> DEFINE Q(x) == x \div CellMm
<1>2. /\ Q(b[1]) \in Int /\ Q(b[2]) \in Int /\ Q(d[1]) \in Int /\ Q(d[2]) \in Int
      /\ Q(b[1]) <= Q(b[2]) /\ Q(d[1]) <= Q(d[2]) /\ Q(b[1]) <= Q(d[2]) /\ Q(d[1]) <= Q(b[2])
  BY <1>1, DivMono
<1>3. CellsOf(b) = Q(b[1]) .. Q(b[2]) /\ CellsOf(d) = Q(d[1]) .. Q(d[2])
  BY DEF CellsOf
<1> HIDE DEF Q
<1>4. CASE Q(b[1]) <= Q(d[1])
  <2>1. Q(d[1]) \in CellsOf(b) \cap CellsOf(d)
    BY <1>2, <1>3, <1>4
  <2> QED BY <2>1
<1>5. CASE Q(d[1]) <= Q(b[1])
  <2>1. Q(b[1]) \in CellsOf(b) \cap CellsOf(d)
    BY <1>2, <1>3, <1>5
  <2> QED BY <2>1
<1> QED BY <1>2, <1>4, <1>5

LEMMA MeetBounds ==
  ASSUME NEW v, NEW pl, NEW d, Covers(d, v, pl), NEW i \in InGrid(v, pl),
         v[i].box \in Int \X Int, NEW b \in Int \X Int, Meet(v[i].box, b)
  PROVE  Meet(d, b)
<1> DEFINE x == v[i].box
<1>1. d \in Int \X Int /\ d[1] <= x[1] /\ x[2] <= d[2]
  BY DEF Covers
<1>2. x \in Int \X Int /\ Meet(x, b)
  OBVIOUS
<1> HIDE DEF x
<1>3. /\ x[1] <= x[2] /\ b[1] <= b[2] /\ x[1] <= b[2] /\ b[1] <= x[2] /\ b # None
      /\ x[1] \in Int /\ x[2] \in Int /\ d[1] \in Int /\ d[2] \in Int /\ b[1] \in Int /\ b[2] \in Int
  BY <1>1, <1>2 DEF Meet, IsBox
<1>4. d[1] <= d[2] /\ d[1] <= b[2] /\ b[1] <= d[2]
  BY <1>1, <1>3
<1>5. d # None
  BY <1>1, CellAssumption
<1> QED BY <1>3, <1>4, <1>5 DEF Meet, IsBox

(* What a grid answers.                                                    *)
Sought(v, i, b, closed) == (closed => v[i].oc) /\ CellsOf(v[i].box) \cap CellsOf(b) # {}
GridAnswer(g, v, pl, b, closed) ==
    /\ \A i \in GridCandidates(g, b, closed) :
         i \in DOMAIN v /\ v[i].pl = pl /\ Sought(v, i, b, closed)
    /\ \A i \in DOMAIN v :
         v[i].pl = pl /\ Sought(v, i, b, closed) => i \in GridCandidates(g, b, closed)

LEMMA GridAnswers ==
  ASSUME NEW g, NEW v, NEW pl, GridIs(g, v, pl), NEW b, NEW closed \in BOOLEAN
  PROVE  GridAnswer(g, v, pl, b, closed)
<1>1. ASSUME NEW i \in GridCandidates(g, b, closed)
      PROVE  /\ i \in DOMAIN v /\ v[i].pl = pl /\ (closed => v[i].oc)
             /\ CellsOf(v[i].box) \cap CellsOf(b) # {}
  <2>1. PICK e \in g.cells : e[2] = i /\ e[1] \in CellsOf(b) /\ (closed => e[3])
    BY DEF GridCandidates
  <2>2. /\ e[2] \in DOMAIN v /\ v[e[2]].pl = pl
        /\ e[1] \in CellsOf(v[e[2]].box) /\ e[3] = v[e[2]].oc
    BY DEF GridIs
  <2>3. i \in DOMAIN v /\ v[i].pl = pl /\ e[1] \in CellsOf(v[i].box) /\ e[3] = v[i].oc
    BY <2>1, <2>2
  <2>4. closed => v[i].oc
    BY <2>1, <2>3, Zenon
  <2> QED BY <2>1, <2>3, <2>4
<1>2. ASSUME NEW i \in DOMAIN v, v[i].pl = pl, CellsOf(v[i].box) \cap CellsOf(b) # {},
             closed => v[i].oc
      PROVE  i \in GridCandidates(g, b, closed)
  <2>1. PICK x : x \in CellsOf(v[i].box) /\ x \in CellsOf(b)
    BY <1>2
  <2> DEFINE e == <<x, i, v[i].oc>>
  <2>2. e \in g.cells
    BY <1>2, <2>1 DEF GridIs
  <2>3. e[1] = x /\ e[2] = i /\ e[3] = v[i].oc
    OBVIOUS
  <2> HIDE DEF e
  <2>4. closed => e[3]
    BY <1>2, <2>3, Zenon
  <2>5. e \in {y \in g.cells : y[1] \in CellsOf(b) /\ (closed => y[3])}
    BY <2>1, <2>2, <2>3, <2>4, Zenon
  <2>6. e[2] \in GridCandidates(g, b, closed)
    BY <2>5, Zenon DEF GridCandidates
  <2> QED BY <2>3, <2>6
<1> QED BY <1>1, <1>2, Zenon DEF GridAnswer, Sought

(* What the index answers.                                                 *)
IndexAnswer(s, v, b, closed) ==
    /\ \A i \in DOMAIN v :
         Meet(v[i].box, b) /\ (closed => v[i].oc) => i \in Candidates(s, b, closed)
    /\ \A i \in Candidates(s, b, closed) : i \in DOMAIN v /\ Sought(v, i, b, closed)
    /\ \A pl \in DOMAIN s.places : \A i \in GridCandidates(s.places[pl], b, closed) :
         i \in DOMAIN v /\ v[i].pl = pl

LEMMA IndexAnswers ==
  ASSUME NEW s, NEW v, Exact(s, v), NEW b \in Int \X Int, NEW closed \in BOOLEAN
  PROVE  IndexAnswer(s, v, b, closed)
<1> DEFINE G(pl) == GridCandidates(s.places[pl], b, closed)
           U == GridCandidates(s.unplaced, b, closed)
           P == {x \in DOMAIN s.bounds \cap DOMAIN s.places : Meet(s.bounds[x], b)}
           C == Candidates(s, b, closed)
<1>1. /\ GridIs(s.unplaced, v, None)
      /\ DOMAIN s.places = Used(v) /\ DOMAIN s.bounds = Used(v)
      /\ \A pl \in Used(v) : GridIs(s.places[pl], v, pl) /\ Covers(s.bounds[pl], v, pl)
      /\ \A i \in DOMAIN v : v[i].box \in Int \X Int
  BY DEF Exact, Gridded, Bounded, Boxed
<1>2. C = IF ~IsBox(b) THEN {} ELSE U \cup UNION {G(pl) : pl \in P}
  BY DEF Candidates
<1>3. GridAnswer(s.unplaced, v, None, b, closed)
  BY <1>1, GridAnswers
<1>4. \A pl \in Used(v) : GridAnswer(s.places[pl], v, pl, b, closed)
  BY <1>1, GridAnswers
<1>5. ASSUME NEW i \in DOMAIN v, Meet(v[i].box, b), closed => v[i].oc
      PROVE  i \in C
  <2>1. Sought(v, i, b, closed)
    <3>1. CellsOf(v[i].box) \cap CellsOf(b) # {}
      BY <1>1, <1>5, MeetCells
    <3> QED BY <1>5, <3>1, Zenon DEF Sought
  <2>2. IsBox(b)
    BY <1>5 DEF Meet
  <2>3. CASE v[i].pl = None
    <3>1. i \in U
      BY <1>3, <2>1, <2>3, Zenon DEF GridAnswer
    <3> QED BY <1>2, <2>2, <3>1
  <2>4. CASE v[i].pl # None
    <3> DEFINE pl == v[i].pl
    <3>1. pl \in Used(v) /\ i \in InGrid(v, pl)
      BY <2>4 DEF Used, InGrid
    <3>2. Meet(s.bounds[pl], b)
      <4>1. Covers(s.bounds[pl], v, pl) /\ v[i].box \in Int \X Int
        BY <1>1, <3>1
      <4> HIDE DEF pl
      <4> QED BY <1>5, <3>1, <4>1, MeetBounds
    <3>3. pl \in P
      BY <1>1, <3>1, <3>2
    <3>4. GridAnswer(s.places[pl], v, pl, b, closed) /\ v[i].pl = pl
      BY <1>4, <3>1
    <3> HIDE DEF pl, P
    <3>5. i \in G(pl)
      BY <2>1, <3>4, Zenon DEF GridAnswer
    <3> HIDE DEF G, U
    <3> QED BY <1>2, <2>2, <3>3, <3>5
  <2> QED BY <2>3, <2>4
<1>6. ASSUME NEW i \in C PROVE i \in DOMAIN v /\ Sought(v, i, b, closed)
  <2>1. i \in U \/ \E pl \in Used(v) : i \in G(pl)
    BY <1>1, <1>2, <1>6
  <2> QED BY <1>3, <1>4, <2>1, Zenon DEF GridAnswer
<1> HIDE DEF U, P, C
<1>7. \A pl \in DOMAIN s.places : \A i \in G(pl) : i \in DOMAIN v /\ v[i].pl = pl
  BY <1>1, <1>4, Zenon DEF GridAnswer
<1>8. /\ \A i \in DOMAIN v : Meet(v[i].box, b) /\ (closed => v[i].oc) => i \in C
      /\ \A i \in C : i \in DOMAIN v /\ Sought(v, i, b, closed)
  BY <1>5, <1>6, Zenon
<1> QED BY <1>7, <1>8, Zenon DEF C, IndexAnswer

LEMMA IndexFinds ==
  ASSUME RowsInv, IndexInv
  PROVE  CandidatesExact
<1> SUFFICES ASSUME NEW b \in Sweeps, NEW closed \in BOOLEAN
    PROVE  LET hits == Candidates(space, b, closed)
               Wanted(i) == closed => OpaqueClosed(proj, canon, i)
           IN  /\ \A i \in Ixs(proj) : Meet(WorldHull(proj, i), b) /\ Wanted(i) => i \in hits
               /\ \A i \in hits :
                    /\ i \in Ixs(proj) /\ IsBox(WorldHull(proj, i)) /\ Wanted(i)
                    /\ CellsOf(WorldHull(proj, i)) \cap CellsOf(b) # {}
               /\ \A pl \in DOMAIN space.places : \A i \in GridCandidates(space.places[pl], b, closed) :
                    i \in Ixs(proj) /\ PlaceFor(proj, i) = pl
  BY DEF CandidatesExact
<1> DEFINE v == Seen(proj, canon)
           N == Len(proj.sigils)
           C == Candidates(space, b, closed)
<1>1. b \in Int \X Int
  BY CellAssumption
<1>2. Ixs(proj) = 1 .. N
  BY DEF RowsInv, Packed, Tabled, Ixs
<1>3. /\ \A i : i \in DOMAIN v <=> i \in Ixs(proj) /\ IsBox(WorldHull(proj, i))
      /\ \A i \in DOMAIN v : v[i] = Entry(proj, canon, i)
  BY <1>2 DEF Seen, SeenTo
<1>4. \A i \in DOMAIN v : /\ v[i].box = WorldHull(proj, i) /\ v[i].pl = PlaceFor(proj, i)
                          /\ v[i].oc = OpaqueClosed(proj, canon, i)
  BY <1>3 DEF Entry
<1> HIDE DEF v
<1>5. /\ \A i \in DOMAIN v : Meet(v[i].box, b) /\ (closed => v[i].oc) => i \in C
      /\ \A i \in C : /\ i \in DOMAIN v /\ (closed => v[i].oc)
                      /\ CellsOf(v[i].box) \cap CellsOf(b) # {}
      /\ \A pl \in DOMAIN space.places : \A i \in GridCandidates(space.places[pl], b, closed) :
           i \in DOMAIN v /\ v[i].pl = pl
  <2>1. IndexAnswer(space, v, b, closed)
    BY <1>1, IndexAnswers DEF IndexInv, v
  <2> QED BY <2>1, Zenon DEF IndexAnswer, Sought
<1> HIDE DEF C
<1>6. ASSUME NEW i \in Ixs(proj), Meet(WorldHull(proj, i), b),
             closed => OpaqueClosed(proj, canon, i)
      PROVE  i \in C
  <2>1. i \in DOMAIN v
    BY <1>3, <1>6 DEF Meet
  <2>2. Meet(v[i].box, b) /\ (closed => v[i].oc)
    BY <1>4, <1>6, <2>1, Zenon
  <2> QED BY <1>5, <2>1, <2>2, Zenon
<1>7. ASSUME NEW i \in C
      PROVE  /\ i \in Ixs(proj) /\ IsBox(WorldHull(proj, i))
             /\ closed => OpaqueClosed(proj, canon, i)
             /\ CellsOf(WorldHull(proj, i)) \cap CellsOf(b) # {}
  <2>1. i \in DOMAIN v /\ (closed => v[i].oc) /\ CellsOf(v[i].box) \cap CellsOf(b) # {}
    BY <1>5, <1>7, Zenon
  <2>2. /\ closed => OpaqueClosed(proj, canon, i)
        /\ CellsOf(WorldHull(proj, i)) \cap CellsOf(b) # {}
    BY <1>4, <2>1, Zenon
  <2> QED BY <1>3, <2>1, <2>2, Zenon
<1>8. \A pl \in DOMAIN space.places : \A i \in GridCandidates(space.places[pl], b, closed) :
         i \in Ixs(proj) /\ PlaceFor(proj, i) = pl
  BY <1>3, <1>4, <1>5, Zenon
<1> QED BY <1>6, <1>7, <1>8, Zenon DEF C

(* A sweep of the spatial index answers with every row it must and with no *)
(* other, in every state: row by row, by rebuild, after rows changed their *)
(* indices.                                                                *)
THEOREM SpecCandidatesExact == Spec => []CandidatesExact
<1>1. Init => RowsInv /\ IndexInv
  <2> SUFFICES ASSUME Init PROVE RowsInv /\ IndexInv
    OBVIOUS
  <2>1. RowsInv
    BY RowsInit
  <2>2. space = Rebuild(proj, canon)
    BY DEF Init
  <2>3. Exact(Rebuild(proj, canon), Seen(proj, canon))
    BY <2>1, RebuildExact DEF RowsInv
  <2> QED BY <2>1, <2>2, <2>3 DEF IndexInv
<1>2. RowsInv /\ IndexInv /\ [Next]_vars => RowsInv' /\ IndexInv'
  BY StepImplements, StepExact
<1>3. RowsInv /\ IndexInv => CandidatesExact
  BY IndexFinds
<1> QED BY <1>1, <1>2, <1>3, PTL DEF Spec
=============================================================================
