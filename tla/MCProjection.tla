--------------------------- MODULE MCProjection ---------------------------
(* A Place of three members, one of them a closed door, one that may be    *)
(* carried by a row outside; a second Place that is only a name; and the   *)
(* kinds of calls that come together: paging, indexing, another Canon.     *)
EXTENDS Projection, TLC

Row(k, w) == [Blank(k) EXCEPT !.within = w]
Posed(row, h, x) == [row EXCEPT !.hull = h, !.pose = x]
Door == [Posed(Row("relic", "p"), <<0, 1>>, 2) EXCEPT
            !.afford = {1}, !.rels = {<<"LockedBy", "h">>}, !.knows = {<<1, 1>>}]
Rider == [Posed(Row("relic", "p"), <<0, 0>>, 3) EXCEPT
            !.rels = {<<"AttachedTo", "h">>, <<"OwnedBy", "a">>}, !.seat = 1, !.qty = {<<1, 1>>},
            !.rites = {<<0, 1>>}]
Guest == [Posed(Row("relic", "p"), <<0, 1>>, 6) EXCEPT !.phys = {<<"req", 1>>}]
Host == [Posed(Row("relic", None), <<0, 2>>, 4) EXCEPT
            !.rels = {<<"OwnedBy", "a">>, <<"LockedBy", "c">>}, !.afford = {0, 1}]
Ground == Posed(Row("place", None), <<0, 4>>, 0)

Whole == <<<<"p", Ground>>, <<"a", Door>>, <<"b", Rider>>, <<"h", Host>>, <<"c", Guest>>>>
Apart == <<<<"a", Door>>, <<"h", Host>>>>
SeedsMC ==
    {[cap |-> 5, canon |-> "first", rows |-> Whole],
     [cap |-> 3, canon |-> "first", rows |-> Apart]}

Plan == <<<<"p", Ground>>, <<"a", Door>>, <<"c", Guest>>>>
CatalogMC == [first |-> {Plan}, second |-> {}]

(* The second Canon drops the first affordance, fact and resource and      *)
(* moves the others down; the rite there stops at another pc.              *)
NamesMC ==
    [first |-> [afford |-> (0 :> "Hittable" @@ 1 :> "Opaque"), knows |-> (1 :> "seen" @@ 2 :> "heard"),
                qty |-> (1 :> "hp" @@ 2 :> "coin"), rites |-> (0 :> "jab" @@ 1 :> "kick")],
     second |-> [afford |-> (0 :> "Opaque"), knows |-> (1 :> "heard"),
                 qty |-> (1 :> "coin"), rites |-> (0 :> "kick" @@ 1 :> "jab")]]
OpaqueMC == [first |-> 1, second |-> 0]
ResumableMC == [first |-> {<<0, 1>>, <<1, 1>>}, second |-> {<<0, 1>>, <<1, 2>>}]

HullsMC == {<<0, 0>>, <<0, 3>>, <<1, 0>>}
SweepsMC == {<<x, x>> : x \in 0 .. 8} \cup {<<1, 4>>, <<0, 8>>, <<3, 2>>}

VARIABLE mix

Paging ==
    \/ \E l \in Loci : RemoveLocus(l)
    \/ \E l \in {"p", "h"} : CapturePlace(l) \/ EvictPlace(l)
    \/ LoadCooked \/ LoadHeld \/ Reload
    \/ \E l \in {"b", "c"} : \E r \in {"AttachedTo", "PilotedBy"} : AddRel(l, r, "h") \/ DelRel(l, r, "h")
    \/ AddIn("h", "p") \/ AddRel("h", "OwnedBy", "c") \/ DelIn("b", "p")

Indexing ==
    \/ \E l \in {"a", "h"} :
          \/ \E x \in Spots : SetPose(l, x)
          \/ \E h \in Hulls : SetHull(l, h)
          \/ \E on \in BOOLEAN : SetAffordance(l, 1, on)
          \/ AddIn(l, "q") \/ DelIn(l, "p") \/ AddRel(l, "LockedBy", "h") \/ DelRel(l, "LockedBy", "h")
          \/ RemoveLocus(l)
    \/ \E l \in {"a", "p"} : \E k \in Kinds : InsertLocus(l, k)
    \/ \E x \in Spots : Spawn("b", x) \/ IslandSnap("b", "c", x) \/ IslandSnap("a", "h", x)
    \/ EvictPlace("q") \/ LoadCooked \/ SetBody("a", 1)

Packing ==
    \/ \E l \in {"a", "b"} : SetMaps(l) \/ RemoveLocus(l)
    \/ \E on \in BOOLEAN : SetAffordance("h", 0, on)
    \/ \E c \in Canons : ApplyEpoch(c)
    \/ Reload \/ CapturePlace("p") \/ LoadHeld

Mixes == {[kind |-> "paging", cap |-> 5, ops |-> 5],
          [kind |-> "indexing", cap |-> 3, ops |-> 4],
          [kind |-> "packing", cap |-> 5, ops |-> 5]}

MixInit == Init /\ mix \in Mixes /\ mix.cap = cap

MixNext ==
    /\ ops < mix.ops
    /\ \/ mix.kind = "paging" /\ Paging
       \/ mix.kind = "indexing" /\ Indexing
       \/ mix.kind = "packing" /\ Packing
    /\ UNCHANGED mix

MixSpec == MixInit /\ [][MixNext]_<<vars, mix>>
=============================================================================
