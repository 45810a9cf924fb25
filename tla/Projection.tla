----------------------------- MODULE Projection -----------------------------
(***************************************************************************)
(* klotho-world: the projection.  Rows are packed: parallel columns, maps  *)
(* keyed by the packed index, a table from loci to indices, and a spatial  *)
(* index of hulls (grids of cells, one per Place) that setters keep up row *)
(* by row.  A row is removed by swapping the last one into its slot, so    *)
(* that everything keyed by index has to move with it.                     *)
(*                                                                         *)
(* Packed indices count from 1.  Space is one axis; a box is <<lo, hi>>.   *)
(* The column "body" stands for those that nothing here reads (velocity,   *)
(* rates, island, sleep, LOD, support, hull id); columns and neighbours    *)
(* are values, shared or not (copy on write, the inline neighbour).  A     *)
(* call that is refused changes nothing and is no action.                  *)
(***************************************************************************)
EXTENDS Integers, Sequences, FiniteSets, SequencesExt

CONSTANTS
    Loci,          \* Sigils
    None,          \* no value
    CellMm,        \* width of a cell
    ProcessCap,    \* MAX_LOCI_PROCESS: the cap of a decoded snapshot
    Canons,        \* cooked Canons
    Opaque,        \* Opaque[c]: the affordance id of Opaque, or None
    Names,         \* Names[c]: authoring name of each id: [afford, knows, qty, rites]
    Resumable,     \* Resumable[c]: the <<rite name, pc>> that c's code holds
    Catalog,       \* Catalog[c]: PlaceSnaps cooked for c, as <<locus, row>> lists
    Seeds,         \* initial rows: [cap, canon, rows] with rows a list
    Hulls, Spots,  \* boxes and positions that callers write
    Sweeps,        \* boxes that readers ask for
    MaxOps         \* bound of the model: calls

VARIABLES
    proj,     \* [by, sigils, cols, maps]
    space,    \* PlaceIndex
    cap,      \* locus_cap
    canon,    \* the Canon the rows are packed for (and opaque_id of it)
    held,     \* the PlaceSnap captured last, if any, as its rows
    was,      \* history: [rows, back] since that capture, or None
    ops       \* calls made

vars == <<proj, space, cap, canon, held, was, ops>>

Kinds == {"place", "relic"}
Cols == {"kind", "afford", "hull", "pose", "within", "seat", "body"}
Maps == {"rels", "qty", "rites", "knows", "phys"}
Carriers == {"AttachedTo", "PilotedBy"}
Rels == Carriers \cup {"LockedBy", "OwnedBy"}

ASSUME CellAssumption ==
    /\ CellMm \in Nat \ {0} /\ ProcessCap \in Nat
    /\ IsFiniteSet(Loci)
    /\ None \notin Int /\ None \notin Int \X Int
    /\ Spots \subseteq Int /\ Hulls \subseteq Int \X Int /\ Sweeps \subseteq Int \X Int

(* A row, and a list of rows by Sigil, as snapshots and seeds have them.   *)
IsRow(row) ==
    /\ row = [f \in Cols \cup Maps |-> row[f]]
    /\ row.hull = None \/ row.hull \in Int \X Int
    /\ row.pose = None \/ row.pose \in Int
IsList(list) ==
    /\ Len(list) \in Nat
    /\ list = [i \in 1 .. Len(list) |-> <<list[i][1], list[i][2]>>]
    /\ \A i \in 1 .. Len(list) : list[i][1] \in Loci /\ IsRow(list[i][2])

LociOf(list) == {list[i][1] : i \in DOMAIN list}
Distinct(list) == Cardinality(LociOf(list)) = Len(list)

ASSUME RowsAssumption ==
    /\ \A c \in Canons : \A list \in Catalog[c] : IsList(list)
    /\ \A seed \in Seeds :
         /\ seed.canon \in Canons /\ seed.cap \in 0 .. ProcessCap
         /\ IsList(seed.rows) /\ Distinct(seed.rows)

(* insert_locus_at_end: the columns of a new row.                          *)
Blank(k) ==
    [f \in Cols \cup Maps |->
        CASE f = "kind" -> k
          [] f = "afford" -> {}
          [] f \in {"hull", "pose", "within", "seat"} -> None
          [] f = "body" -> 0
          [] f \in Maps -> {}]

-----------------------------------------------------------------------------
(* Op(x), with x evaluated once.                                           *)
Once(x, Op(_)) == CHOOSE y \in {Op(v) : v \in {x}} : TRUE

(* Packed rows.                                                            *)
Empty == [by |-> <<>>, sigils |-> <<>>, cols |-> [c \in Cols |-> <<>>],
          maps |-> [m \in Maps |-> {}]]

Has(p, l) == l \in DOMAIN p.by
Ixs(p) == DOMAIN p.sigils
Item(p, m, i) == {e[2] : e \in {x \in p.maps[m] : x[1] = i}}

(* capture_row and capture_snap_row: every column and map of the row.      *)
RowOf(p, l) ==
    LET i == p.by[l]
    IN  [f \in Cols \cup Maps |-> IF f \in Cols THEN p.cols[f][i] ELSE Item(p, f, i)]

RowsOf(p) == [l \in DOMAIN p.by |-> RowOf(p, l)]

StripRels(maps, D) ==           \* mutant: only the relations are stripped
    [maps EXCEPT !["rels"] = {e \in @ : e[1] \notin D}]

(* strip_packed_maps: what is keyed by the indices D.                      *)
Strip(maps, D) == [m \in Maps |-> {e \in maps[m] : e[1] \notin D}]

(* push_snap_row, and append_snap_rows for a row that is new.              *)
Push(p, l, row) ==
    LET i == Len(p.sigils) + 1
    IN  [by |-> [m \in DOMAIN p.by \cup {l} |-> IF m = l THEN i ELSE p.by[m]],
         sigils |-> Append(p.sigils, l),
         cols |-> [c \in Cols |-> Append(p.cols[c], row[c])],
         maps |-> [m \in Maps |-> p.maps[m] \cup {<<i, e>> : e \in row[m]}]]

(* write_snap_row: a row there is gets the snapshot's columns and maps.    *)
Overwrite(p, l, row) ==
    LET i == p.by[l]
        kept == Strip(p.maps, {i})
    IN  [p EXCEPT !.cols = [c \in Cols |-> [@[c] EXCEPT ![i] = row[c]]],
                  !.maps = [m \in Maps |-> kept[m] \cup {<<i, e>> : e \in row[m]}]]

PutNewRow(p, e) ==              \* mutant: a row there is is left alone
    IF Has(p, e[1]) THEN p ELSE Push(p, e[1], e[2])

PutRow(p, e) ==
    IF Has(p, e[1]) THEN Overwrite(p, e[1], e[2]) ELSE Push(p, e[1], e[2])

(* apply_place_snap after its checks, and from_snap_rows: relations (their *)
(* targets unchecked) and rites come last but only touch their own row.    *)
PutRows(p, list) ==
    LET run[n \in 0 .. Len(list)] ==
            IF n = 0 THEN p ELSE Once(run[n - 1], LAMBDA q : PutRow(q, list[n]))
    IN  run[Len(list)]

SetCell(p, l, c, v) == [p EXCEPT !.cols[c][p.by[l]] = v]

Exchanged(s, i, j) ==
    [k \in DOMAIN s |-> CASE k = i -> s[j] [] k = j -> s[i] [] OTHER -> s[k]]

(* remap_packed: what is keyed by `from` is keyed by `to`.                 *)
Remap(maps, from, to) ==
    [m \in Maps |-> {IF e[1] = from THEN <<to, e[2]>> ELSE e : e \in maps[m]}]

(* swap_out_locus: swap_packed with the last row, remap_packed, the moved  *)
(* row's entry, pop_packed, the entry of l.                                *)
SwapOut(p, l) ==
    LET i == p.by[l]
        n == Len(p.sigils)
        by == IF i = n THEN p.by ELSE [p.by EXCEPT ![p.sigils[n]] = i]
    IN  [by |-> [m \in DOMAIN by \ {l} |-> by[m]],
         sigils |-> Front(Exchanged(p.sigils, i, n)),
         cols |-> [c \in Cols |-> Front(Exchanged(p.cols[c], i, n))],
         maps |-> IF i = n THEN p.maps ELSE Remap(p.maps, n, i)]

(* scrub_incoming_set: nothing refers to S any more.                       *)
Scrub(p, S) ==
    [p EXCEPT !.maps["rels"] = {e \in @ : e[2][2] \notin S},
              !.cols["within"] = [i \in DOMAIN @ |-> IF @[i] \in S THEN None ELSE @[i]]]

(* drop_loci: from the highest index down.                                 *)
Bared(p, S) == Scrub([p EXCEPT !.maps = Strip(@, {p.by[l] : l \in S})], S)
DropIf(q, l, S) == IF l \in S THEN SwapOut(q, l) ELSE q
DropLoci(p, S) ==
    LET run[n \in 0 .. Len(p.sigils)] ==
            IF n = 0 THEN Bared(p, S)
            ELSE Once(run[n - 1], LAMBDA q : DropIf(q, p.sigils[Len(p.sigils) + 1 - n], S))
    IN  run[Len(p.sigils)]

(* place_members, is_migrating, plan_place_evict.                          *)
PlaceMembers(p, l) == {m \in DOMAIN p.by \ {l} : p.cols["within"][p.by[m]] = l}
HostsOf(p, l) ==
    {e[2] : e \in {x \in Item(p, "rels", p.by[l]) : x[1] \in Carriers}}
EvictPlan(p, l) ==
    {m \in PlaceMembers(p, l) : HostsOf(p, m) \subseteq PlaceMembers(p, l) \cup {l}}

(* capture_place: the Place, then its members by index.                    *)
Captured(p, l, list, m) ==
    IF m \in PlaceMembers(p, l) THEN Append(list, <<m, RowOf(p, m)>>) ELSE list
PlaceSnap(p, l) ==
    LET run[n \in 0 .. Len(p.sigils)] ==
            IF n = 0 THEN <<<<l, RowOf(p, l)>>>>
            ELSE Once(run[n - 1], LAMBDA list : Captured(p, l, list, p.sigils[n]))
    IN  run[Len(p.sigils)]

(* capture_snap_rows: every row, by index.                                 *)
SnapRows(p) == [i \in Ixs(p) |-> <<p.sigils[i], RowOf(p, p.sigils[i])>>]

-----------------------------------------------------------------------------
(* The spatial index.                                                      *)
IsBox(b) == b # None /\ b[1] <= b[2]
Meet(b, d) == IsBox(b) /\ IsBox(d) /\ b[1] <= d[2] /\ d[1] <= b[2]
Union(b, d) ==
    <<IF b[1] < d[1] THEN b[1] ELSE d[1], IF b[2] > d[2] THEN b[2] ELSE d[2]>>

(* cells_of.                                                               *)
CellsOf(b) == (b[1] \div CellMm) .. (b[2] \div CellMm)

(* GridIndex: cells holds <<cell, ix, opaque_closed>>, occ <<ix, cell>>.   *)
EmptyGrid == [cells |-> {}, occ |-> {}]

GridUnindex(g, i) ==
    [cells |-> {e \in g.cells : ~(e[2] = i /\ <<i, e[1]>> \in g.occ)},
     occ |-> {e \in g.occ : e[1] # i}]

GridIndex(g, i, b, oc) ==
    LET h == GridUnindex(g, i)
    IN  [cells |-> h.cells \cup {<<c, i, oc>> : c \in CellsOf(b)},
         occ |-> h.occ \cup {<<i, c>> : c \in CellsOf(b)}]

GridCandidates(g, b, closed) ==
    {e[2] : e \in {x \in g.cells : x[1] \in CellsOf(b) /\ (closed => x[3])}}

(* PlaceIndex: a grid per Place that holds a hull, the hulls and their     *)
(* bounds, and for each index the Place whose grid it is in.               *)
EmptySpace == [unplaced |-> EmptyGrid, places |-> <<>>, hulls |-> <<>>,
               bounds |-> <<>>, home |-> <<>>]

Without(f, x) == [y \in DOMAIN f \ {x} |-> f[y]]
With(f, x, v) == [y \in DOMAIN f \cup {x} |-> IF y = x THEN v ELSE f[y]]
Get(f, x, v) == IF x \in DOMAIN f THEN f[x] ELSE v

Ensure(s, i) ==
    [s EXCEPT !.home = [j \in 1 .. (IF i > Len(@) THEN i ELSE Len(@)) |->
                            IF j <= Len(@) THEN @[j] ELSE None]]

Hull(boxes) == <<Min({b[1] : b \in boxes}), Max({b[2] : b \in boxes})>>

(* set_place_bounds: what is left in the Place; nothing is no Place.       *)
SetBounds(s, pl) ==
    IF DOMAIN s.hulls[pl] = {}
    THEN [s EXCEPT !.hulls = Without(@, pl), !.places = Without(@, pl),
                   !.bounds = Without(@, pl)]
    ELSE [s EXCEPT !.bounds[pl] = Hull(Range(s.hulls[pl]))]

Unindex(s, i) ==
    IF i > Len(s.home) THEN s
    ELSE LET pl == s.home[i]
             away == [s EXCEPT !.home[i] = None]
         IN  IF pl = None
             THEN [away EXCEPT !.unplaced = GridUnindex(@, i)]
             ELSE SetBounds([away EXCEPT !.places[pl] = GridUnindex(@, i),
                                         !.hulls[pl] = Without(@, i)], pl)

Index(s, i, b, oc, pl) ==
    LET t == Unindex(s, i)
        u == Ensure(t, i)
    IN  CASE ~IsBox(b) -> t
          [] IsBox(b) /\ pl = None ->
                [u EXCEPT !.unplaced = GridIndex(@, i, b, oc), !.home[i] = None]
          [] IsBox(b) /\ pl # None ->
                [u EXCEPT !.places = With(@, pl, GridIndex(Get(@, pl, EmptyGrid), i, b, oc)),
                          !.hulls = With(@, pl, With(Get(@, pl, <<>>), i, b)),
                          !.bounds = With(@, pl, Union(Get(@, pl, b), b)),
                          !.home[i] = pl]

(* world_hull, opaque_closed_ix, place_for.                                *)
WorldHull(p, i) ==
    IF None \in {p.cols["hull"][i], p.cols["pose"][i]} THEN None
    ELSE <<p.cols["hull"][i][1] + p.cols["pose"][i], p.cols["hull"][i][2] + p.cols["pose"][i]>>

OpaqueClosed(p, c, i) ==
    /\ Opaque[c] \in p.cols["afford"][i]
    /\ \E e \in Item(p, "rels", i) : e[1] = "LockedBy"

PlaceFor(p, i) ==
    IF p.cols["kind"][i] = "place" THEN p.sigils[i] ELSE p.cols["within"][i]

(* reindex_ix.                                                             *)
Reindex(s, p, c, i) ==
    IF WorldHull(p, i) = None THEN Unindex(s, i)
    ELSE Index(s, i, WorldHull(p, i), OpaqueClosed(p, c, i), PlaceFor(p, i))

(* rebuild_space_ix.                                                       *)
ReindexHull(s, p, c, i) == IF WorldHull(p, i) = None THEN s ELSE Reindex(s, p, c, i)
Rebuild(p, c) ==
    LET run[n \in 0 .. Len(p.sigils)] ==
            IF n = 0 THEN EmptySpace
            ELSE Once(run[n - 1], LAMBDA s : ReindexHull(s, p, c, n))
    IN  run[Len(p.sigils)]

(* PlaceIndex::candidates.                                                 *)
Candidates(s, b, closed) ==
    IF ~IsBox(b) THEN {}
    ELSE GridCandidates(s.unplaced, b, closed)
           \cup UNION {GridCandidates(s.places[pl], b, closed) :
                          pl \in {x \in DOMAIN s.bounds \cap DOMAIN s.places : Meet(s.bounds[x], b)}}

-----------------------------------------------------------------------------
(* EpochMap::between: ids are carried over by authoring name.              *)
IdsOf(f, c, d, x) ==
    {y \in DOMAIN Names[d][f] : Names[d][f][y] = Names[c][f][x]}

Keyed(f, c, d, S) == UNION {{<<y, e[2]>> : y \in IdsOf(f, c, d, e[1])} : e \in S}

(* remap_epoch, for the affordances or the items of one row: a rite whose  *)
(* pc the new code does not hold is evicted.                               *)
CarriedOver(f, c, d, S) ==
    CASE f = "afford" -> UNION {IdsOf(f, c, d, a) : a \in S}
      [] f \in {"qty", "knows"} -> Keyed(f, c, d, S)
      [] f = "rites" -> Keyed(f, c, d, S) \cap Resumable[d]
      [] OTHER -> S

Carried(c, d, row) ==
    [f \in DOMAIN row |->
        IF f \in Maps \cup {"afford"} THEN CarriedOver(f, c, d, row[f]) ELSE row[f]]

RemapEpoch(p, c, d) ==
    [p EXCEPT !.cols["afford"] = [i \in DOMAIN @ |-> CarriedOver("afford", c, d, @[i])],
              !.maps = [m \in Maps |->
                  UNION {{<<i, e>> : e \in CarriedOver(m, c, d, Item(p, m, i))} : i \in Ixs(p)}]]

-----------------------------------------------------------------------------
Init ==
    \E seed \in Seeds :
        /\ proj = PutRows(Empty, seed.rows)
        /\ space = Rebuild(proj, seed.canon)
        /\ cap = seed.cap /\ canon = seed.canon
        /\ held = {} /\ was = None /\ ops = 0

Calls(p, s) ==
    /\ ops < MaxOps /\ ops' = ops + 1
    /\ proj' = p /\ space' = s

Writes(p, s) == Calls(p, s) /\ was' = None /\ UNCHANGED <<cap, canon, held>>

Indexed(p, l) == Reindex(space, p, canon, p.by[l])

(* insert_locus, which also makes room in home; a Trace names Relics.      *)
InsertLocus(l, k) ==
    \/ /\ Has(proj, l)
       /\ Writes(proj, Ensure(space, proj.by[l]))
    \/ /\ ~Has(proj, l) /\ Len(proj.sigils) < cap
       /\ LET p == Push(proj, l, Blank(k)) IN Writes(p, Ensure(space, p.by[l]))

(* set_affordance, set_hull, set_pose: the row is indexed again.           *)
SetAffordance(l, a, on) ==
    /\ Has(proj, l)
    /\ LET now == proj.cols["afford"][proj.by[l]]
           p == SetCell(proj, l, "afford", IF on THEN now \cup {a} ELSE now \ {a})
       IN  Writes(p, Indexed(p, l))

SetHull(l, h) ==
    /\ Has(proj, l)
    /\ LET p == SetCell(proj, l, "hull", h) IN Writes(p, Indexed(p, l))

SetPose(l, x) ==
    /\ Has(proj, l)
    /\ LET p == SetCell(proj, l, "pose", x) IN Writes(p, Indexed(p, l))

(* set_vel, set_rates, set_support, set_island, set_sim_lod.               *)
SetBody(l, v) == Has(proj, l) /\ Writes(SetCell(proj, l, "body", v), space)

SetItem(l, m, k, item) ==
    LET i == proj.by[l]
    IN  [proj EXCEPT !.maps[m] = {e \in @ : ~(e[1] = i /\ e[2][1] = k)} \cup {<<i, e>> : e \in item}]

(* set_qty, set_phys_req and clear_phys_req, put_rite and the Rite events, *)
(* Learned: one item of a map keyed by row.                                *)
SetMap(l, m, k, item) ==
    /\ Has(proj, l)
    /\ Writes(SetItem(l, m, k, item), space)

SetMaps(l) ==
    \/ \E r \in DOMAIN Names[canon].qty : SetMap(l, "qty", r, {<<r, 1>>})
    \/ \E S \in {{}, {<<"req", 1>>}} : SetMap(l, "phys", "req", S)
    \/ \E f \in DOMAIN Names[canon].knows : SetMap(l, "knows", f, {<<f, 1>>})
    \/ \E e \in Resumable[canon] : \E S \in {{}, {e}} : SetMap(l, "rites", e[1], S)

(* default_attach_local, without the turn.                                 *)
Seat(p, l, b) ==
    IF ~Has(p, b) \/ None \in {p.cols["pose"][p.by[l]], p.cols["pose"][p.by[b]]} THEN None
    ELSE p.cols["pose"][p.by[l]] - p.cols["pose"][p.by[b]]

(* add_rel: b need not be a row.                                           *)
AddRel(l, r, b) ==
    /\ Has(proj, l)
    /\ LET i == proj.by[l]
           p == [proj EXCEPT !.maps["rels"] = @ \cup {<<i, <<r, b>>>>}]
       IN  Writes(IF r \in Carriers /\ p.cols["seat"][i] = None
                  THEN SetCell(p, l, "seat", Seat(p, l, b)) ELSE p,
                  IF r = "LockedBy" THEN Indexed(p, l) ELSE space)

(* add_rel and del_rel of Rel::In, the column.                             *)
AddIn(l, b) ==
    /\ Has(proj, l)
    /\ LET p == SetCell(proj, l, "within", b) IN Writes(p, Indexed(p, l))

DelIn(l, b) ==
    /\ Has(proj, l)
    /\ LET i == proj.by[l]
           p == IF proj.cols["within"][i] = b THEN SetCell(proj, l, "within", None) ELSE proj
       IN  Writes(p, Indexed(p, l))

(* del_rel: a row that nothing carries any more loses its seat.            *)
DelRel(l, r, b) ==
    /\ Has(proj, l)
    /\ LET i == proj.by[l]
           p == [proj EXCEPT !.maps["rels"] = @ \ {<<i, <<r, b>>>>}]
       IN  Writes(IF r \in Carriers /\ HostsOf(p, l) = {} THEN SetCell(p, l, "seat", None) ELSE p,
                  IF r = "LockedBy" THEN Indexed(p, l) ELSE space)

(* IslandSnap: a member that is no row becomes one if it fits.             *)
Moved(at, l, x) ==
    IF ~Has(at.p, l) /\ Len(at.p.sigils) >= cap THEN at
    ELSE LET q == IF Has(at.p, l) THEN at.p ELSE Push(at.p, l, Blank("relic"))
             p == SetCell(SetCell(q, l, "pose", x), l, "body", 1)
         IN  [p |-> p, s |-> Reindex(Ensure(at.s, p.by[l]), p, canon, p.by[l])]

IslandSnap(l, b, x) ==
    LET at == Once(Moved([p |-> proj, s |-> space], l, x), LAMBDA a : Moved(a, b, x))
    IN  Writes(at.p, at.s)

(* Spawned.                                                                *)
Spawn(l, x) ==
    /\ Has(proj, l) \/ Len(proj.sigils) < cap
    /\ LET q == IF Has(proj, l) THEN proj ELSE Push(proj, l, Blank("relic"))
           p == SetCell(q, l, "pose", x)
       IN  Writes(p, Reindex(Ensure(space, p.by[l]), p, canon, p.by[l]))

RemoveLocus(l) ==
    /\ Has(proj, l)
    /\ LET p == DropLoci(proj, {l}) IN Writes(p, Rebuild(p, canon))

CapturePlace(l) ==
    /\ Has(proj, l)
    /\ held' = {PlaceSnap(proj, l)}
    /\ was' = [place |-> l, rows |-> RowsOf(proj), gone |-> {}, stage |-> "captured"]
    /\ Calls(proj, space) /\ UNCHANGED <<cap, canon>>

EvictUnindexed(l) ==            \* mutant: space_ix is not rebuilt
    Calls(DropLoci(proj, EvictPlan(proj, l)), space)

EvictRows(l) ==
    LET p == DropLoci(proj, EvictPlan(proj, l)) IN Calls(p, Rebuild(p, canon))

EvictPlace(l) ==
    /\ Has(proj, l)
    /\ EvictRows(l)
    /\ was' = IF was # None /\ was.stage = "captured" /\ was.place = l
              THEN [was EXCEPT !.stage = "evicted", !.gone = EvictPlan(proj, l)] ELSE None
    /\ UNCHANGED <<cap, canon, held>>

(* apply_place_snap: all rows or none.  The caller refuses a snapshot of   *)
(* another Canon.                                                          *)
ApplyPlaceSnap(list) ==
    /\ Distinct(list)
    /\ Len(proj.sigils) + Cardinality(LociOf(list) \ DOMAIN proj.by) <= cap
    /\ LET p == PutRows(proj, list) IN Calls(p, Rebuild(p, canon))
    /\ UNCHANGED <<cap, canon, held>>

LoadCooked == \E list \in Catalog[canon] : ApplyPlaceSnap(list) /\ was' = None

LoadHeld ==
    /\ \E list \in held : ApplyPlaceSnap(list)
    /\ was' = IF was # None /\ was.stage = "evicted" THEN [was EXCEPT !.stage = "back"] ELSE None

(* encode, decode and resume: from_snap_rows of the rows captured.         *)
Reload ==
    /\ LET p == PutRows(Empty, SnapRows(proj)) IN Calls(p, Rebuild(p, canon))
    /\ cap' = ProcessCap
    /\ was' = None /\ UNCHANGED <<canon, held>>

(* apply_canon_epoch.  Snapshots of the old Canon are refused from now on. *)
ApplyEpoch(c) ==
    /\ c # canon /\ canon' = c
    /\ LET p == RemapEpoch(proj, canon, c) IN Calls(p, Rebuild(p, c))
    /\ held' = {} /\ was' = None /\ UNCHANGED cap

SetRow(l) ==
    \/ \E a \in DOMAIN Names[canon].afford, on \in BOOLEAN : SetAffordance(l, a, on)
    \/ \E h \in Hulls : SetHull(l, h)
    \/ \E x \in Spots : SetPose(l, x) \/ Spawn(l, x)
    \/ SetBody(l, 1) \/ SetMaps(l)

Relate(l, b) ==
    \/ AddIn(l, b) \/ DelIn(l, b)
    \/ \E r \in Rels : AddRel(l, r, b) \/ DelRel(l, r, b)

Page(l) == RemoveLocus(l) \/ CapturePlace(l) \/ EvictPlace(l)

Next ==
    \/ \E l \in Loci : SetRow(l) \/ Page(l) \/ \E k \in Kinds : InsertLocus(l, k)
    \/ \E l, b \in Loci : Relate(l, b)
    \/ \E l, b \in Loci, x \in Spots : IslandSnap(l, b, x)
    \/ LoadCooked \/ LoadHeld \/ Reload
    \/ \E c \in Canons : ApplyEpoch(c)

Spec == Init /\ [][Next]_vars

-----------------------------------------------------------------------------
(* A sweep finds every hull it meets, and only rows there are, in a cell   *)
(* it touches; asked for walls, closed and opaque ones; and the grid of a  *)
(* Place holds its members only: though the index is kept up by index and  *)
(* rows change theirs.                                                     *)
CandidatesExact ==
    \A b \in Sweeps, closed \in BOOLEAN :
        LET hits == Candidates(space, b, closed)
            Wanted(i) == closed => OpaqueClosed(proj, canon, i)
        IN  /\ \A i \in Ixs(proj) : Meet(WorldHull(proj, i), b) /\ Wanted(i) => i \in hits
            /\ \A i \in hits :
                 /\ i \in Ixs(proj) /\ IsBox(WorldHull(proj, i)) /\ Wanted(i)
                 /\ CellsOf(WorldHull(proj, i)) \cap CellsOf(b) # {}
            /\ \A pl \in DOMAIN space.places : \A i \in GridCandidates(space.places[pl], b, closed) :
                 i \in Ixs(proj) /\ PlaceFor(proj, i) = pl

(* A Place that is captured, evicted and loaded again is as it was, the    *)
(* members that migrated included; the rows outside it have lost their     *)
(* references to those that were gone, and nothing else.                   *)
Scrubbed(row, S) ==
    [row EXCEPT !.rels = {e \in @ : e[2] \notin S}, !.within = IF @ \in S THEN None ELSE @]

PagingKeeps ==
    was # None /\ was.stage = "back" =>
        RowsOf(proj) =
            [l \in DOMAIN was.rows |->
                IF l \in UNION {LociOf(list) : list \in held} THEN was.rows[l] ELSE Scrubbed(was.rows[l], was.gone)]

(* The packed projection is a map of rows: LocusRows.                      *)
RowsIn(list) == [l \in LociOf(list) |-> (CHOOSE e \in Range(list) : e[1] = l)[2]]
Cooked(c) == {RowsIn(list) : list \in Catalog[c]}

Map == INSTANCE LocusRows
           WITH rows <- RowsOf(proj), held <- {RowsIn(list) : list \in held}, Snaps <- Cooked

ImplementsRows == Map!Spec
=============================================================================
