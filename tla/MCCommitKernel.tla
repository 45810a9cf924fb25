--------------------------- MODULE MCCommitKernel ---------------------------
(* A Place 1, an actor 2 outside and a vehicle 3 (a Relic) in the Place.   *)
EXTENDS CommitKernel, TLC

Sigils == 1 .. 3
OnePlace == {1}
Vehicles == {3}
PlayerSlots == {0}
OneIsland == {0}
TwoPoses == {"p", "q"}
TwoCanons == {"a", "b"}
TooLarge == {"IslandTooLarge"}
NoOmits == {}

(* Rows are created with island id 0, which is an island like any other.   *)
Fresh(p) == [pose |-> "p", within |-> p, parent |-> None, island |-> 0]

(* Captured while the vehicle was attached to 4, which has its own Place.  *)
PlaceSnap == (1 :> Fresh(None)) @@ (3 :> [Fresh(1) EXCEPT !.parent = 4])

Seeded == [l \in Sigils |-> Fresh(IF l = 3 THEN 1 ELSE None)]

Player(verb, at, target) ==
    [kind |-> "player", slot |-> 0, verb |-> verb, at |-> at,
     target |-> target, claimed |-> FALSE]

Spatial(kind, mover, p) ==
    [kind |-> kind, mover |-> mover, pose |-> p, island |-> NoIsland]

PlaceOp(op) == [kind |-> "residency", place |-> 1, op |-> op]

IslandGrain(p) == [kind |-> "phys", island |-> 0, pose |-> p]

Mind(verb) == [kind |-> "mind", locus |-> 2, verb |-> verb, target |-> 3]

Infer(facts) ==
    [kind |-> "infer", locus |-> 2, verb |-> "use", target |-> 3,
     facts |-> facts]

(* Spatial producers against a player who boards the vehicle.              *)
SpatialGrains ==
    {Player("use", 0, 3), Spatial("motion", 2, "q"), Spatial("space", 3, "p"),
     IslandGrain("q"), PlaceOp("evict"), PlaceOp("load")}

(* The same key with the same and with a different grain.                  *)
ClassGrains ==
    {Player("use", 0, 3), Player("time", 0, 3), Spatial("motion", 2, "q"),
     Spatial("motion", 2, "p"), Mind("use"), Infer(FALSE)}

Shots == {Player("fire", at, 3) : at \in 0 .. 3} \cup {Spatial("space", 3, "q")}

(* The actor boards the vehicle, or takes it along out of the Place.       *)
(* Place 4 is not loaded at first.                                         *)
ResidencyGrains ==
    {Player("use", 0, 3), Player("use", 0, 2), Spatial("space", 3, "q"),
     PlaceOp("evict"), PlaceOp("load"),
     [PlaceOp("load") EXCEPT !.place = 4]}

Sigils4 == 1 .. 4
TwoPlaces == {1, 4}
PlaceSnaps ==
    [p \in TwoPlaces |-> IF p = 1 THEN PlaceSnap ELSE 4 :> Fresh(None)]

EpochGrains ==
    {IslandGrain("q"), PlaceOp("evict"), PlaceOp("load"),
     Player("fire", 1, 3)}

NoSync == {<<>>}
MotionSync == {<<>>, <<<<Spatial("motion", 2, "p"), 0>>>>}
MindSync == {<<>>, <<<<Mind("use"), 0>>>>, <<<<Mind("time"), 0>>>>}

-----------------------------------------------------------------------------
(* One kind of traffic is chosen with the initial state and kept: the      *)
(* spaces of the mixes add up in one run instead of multiplying.           *)
Mix(grains, syncs, regs, dts, caps, ticks, len, epochs) ==
    [grains |-> grains, syncs |-> syncs, regs |-> regs, dts |-> dts,
     caps |-> caps, ticks |-> ticks, len |-> len, epochs |-> epochs]

Mixes ==
    {Mix(SpatialGrains, MotionSync, {0}, {1}, {0}, 1, 2, 0),
     Mix(ClassGrains, MindSync, {0, 1}, {1}, {0}, 1, 2, 0),
     Mix(Shots, NoSync, {0}, {1, 2}, {0, 2}, 4, 1, 0),
     Mix(EpochGrains, NoSync, {0}, {1}, {0, 2}, 2, 1, 2),
     Mix(ResidencyGrains, NoSync, {0}, {1}, {0}, 2, 2, 0)}

AllGrains == UNION {m.grains : m \in Mixes}
AllSyncs == UNION {m.syncs : m \in Mixes}

(* A residency is handed in at once, or was held from the prefix before.   *)
Held(g) == IF g.kind = "residency" THEN {prefix, prefix - 1} \cap Nat ELSE {prefix}

VARIABLE mix

MixInit == Init /\ mix \in Mixes

(* CommitKernel's Next with what the mix offers.                           *)
MixNext ==
    /\ \/ \E s \in Slots, l \in Loci : BindPlayer(s, l)
       \/ /\ Len(heap) < mix.len
          /\ \E g \in mix.grains, reg \in mix.regs : \E held \in Held(g) :
                Ingest(g, reg, held)
       \/ \E a \in [rows -> IslandIds \cup {NoIsland}], o \in SUBSET Omits :
            Partition([l \in Loci |-> IF l \in rows THEN a[l] ELSE NoIsland], o)
       \/ /\ epoch < mix.epochs
          /\ \E c \in Canons, k \in 0 .. 1 : ApplyEpoch(c, k)
       \/ \E dt \in mix.dts, cap \in mix.caps, sync \in mix.syncs :
            tick + dt <= mix.ticks /\ BeginStep(dt, cap, sync)
       \/ AdmitClass
       \/ EndStep
    /\ UNCHANGED mix

MixSpec == MixInit /\ [][MixNext]_<<vars, mix>>
=============================================================================
