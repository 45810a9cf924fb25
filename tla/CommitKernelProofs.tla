------------------------- MODULE CommitKernelProofs -------------------------
(***************************************************************************)
(* Theorems about the commit kernel, for every world, every set of grains  *)
(* and every bound.  The properties are proved one by one; each rests on   *)
(* the types (Types) and adds the strengthening it needs.                  *)
(***************************************************************************)
EXTENDS CommitKernel, SequenceTheorems, FiniteSetTheorems,
        WellFoundedInduction, TLAPS

Snapshots == [tick : Nat, epoch : Nat, pose : [Loci -> Poses]]
Entries == Proposal \X Nat
Outcomes == [entry : Entries,
             verdict : {"admitted", "rejected", "ambiguous"},
             seen : SUBSET Snapshots,
             riders : SUBSET (Loci \X Targets),
             events : Nat]

WorldTypes ==
    /\ rows \in SUBSET Loci
    /\ pose \in [Loci -> Poses]
    /\ within \in [Loci -> Places \cup {None}]
    /\ parent \in [Loci -> Targets]
    /\ island \in [Loci -> IslandIds \cup {NoIsland}]

ScalarTypes ==
    /\ phase \in {"idle", "admit"}
    /\ tick \in 0 .. MaxTick
    /\ epoch \in 0 .. MaxEpoch
    /\ canon \in Canons
    /\ prefix \in Nat
    /\ begun \in Nat
    /\ players \in [Slots -> Targets]
    /\ partitionRejects \in SUBSET Omits

RingTypes ==
    /\ ring \in [cap : Nat, snaps : Seq(Snapshots)]
    /\ Len(ring.snaps) <= ring.cap

BatchTypes ==
    /\ heap \in Seq(Entries)
    /\ rest \in Seq(Entries)
    /\ out \in Seq(Outcomes)
    /\ posed \in [Loci -> Nat]
    /\ phase = "idle" => rest = <<>> /\ out = <<>>

Types == WorldTypes /\ ScalarTypes /\ RingTypes /\ BatchTypes

-----------------------------------------------------------------------------
(* What trim returns: the last cap snapshots, in their order.              *)
LEMMA TrimProperties ==
    ASSUME NEW S, NEW q \in Seq(S), NEW cap \in Nat
    PROVE  /\ Trim(q, cap) \in Seq(S)
           /\ Len(Trim(q, cap)) <= cap
           /\ \E off \in Nat :
                /\ Len(Trim(q, cap)) + off = Len(q)
                /\ \A i \in DOMAIN Trim(q, cap) : Trim(q, cap)[i] = q[i + off]
           /\ \A i \in DOMAIN Trim(q, cap) :
                \E j \in DOMAIN q : Trim(q, cap)[i] = q[j]
<1> DEFINE t == Trim(q, cap)
<1>1. Len(q) \in Nat /\ \A i \in 1 .. Len(q) : q[i] \in S
  OBVIOUS
<1>2. /\ t \in Seq(S) /\ Len(t) <= cap
      /\ \E off \in Nat : /\ Len(t) + off = Len(q)
                          /\ \A i \in 1 .. Len(t) : t[i] = q[i + off]
  <2>1. CASE Len(q) <= cap
    <3>1. t = q
      BY <1>1, <2>1 DEF Trim
    <3>2. Len(q) + 0 = Len(q) /\ \A i \in 1 .. Len(q) : q[i] = q[i + 0]
      BY <1>1
    <3> HIDE DEF t
    <3> QED
      BY <2>1, <3>1, <3>2
  <2>2. CASE Len(q) > cap
    <3> DEFINE off == Len(q) - cap
    <3>1. off \in Nat /\ off + 1 \in Int /\ off + 1 <= Len(q) + 1
      BY <1>1, <2>2
    <3>2. t = SubSeq(q, off + 1, Len(q))
      BY <2>2 DEF Trim
    <3> HIDE DEF t
    <3>3. \A i \in off + 1 .. Len(q) : q[i] \in S
      BY <1>1, <3>1
    <3>4. /\ t \in Seq(S)
          /\ Len(t) = IF off + 1 <= Len(q) THEN Len(q) - (off + 1) + 1 ELSE 0
          /\ \A i \in 1 .. Len(q) - (off + 1) + 1 : t[i] = q[off + 1 + i - 1]
      BY <1>1, <3>1, <3>2, <3>3, SubSeqProperties
    <3>5. Len(t) = cap
      BY <1>1, <2>2, <3>4
    <3>6. \A i \in 1 .. Len(t) : t[i] = q[i + off]
      BY <1>1, <2>2, <3>4, <3>5
    <3>7. Len(t) + off = Len(q)
      BY <1>1, <3>5
    <3> HIDE DEF off
    <3> QED
      BY <3>1, <3>4, <3>5, <3>6, <3>7
  <2> HIDE DEF t
  <2> QED
    BY <1>1, <2>1, <2>2
<1> HIDE DEF t
<1>3. PICK off \in Nat : /\ Len(t) + off = Len(q)
                         /\ \A i \in 1 .. Len(t) : t[i] = q[i + off]
  BY <1>2
<1>4. DOMAIN t = 1 .. Len(t) /\ DOMAIN q = 1 .. Len(q) /\ Len(t) \in Nat
  BY <1>2
<1>5. \A i \in DOMAIN t : i + off \in DOMAIN q /\ t[i] = q[i + off]
  BY <1>1, <1>3, <1>4
<1> QED
  BY <1>2, <1>3, <1>4, <1>5 DEF t

(* push keeps the ring within its cap, and adds nothing but the snapshot.  *)
LEMMA PushProperties ==
    ASSUME NEW S, NEW r \in [cap : Nat, snaps : Seq(S)], NEW s \in S
    PROVE  /\ Push(r, s) \in [cap : Nat, snaps : Seq(S)]
           /\ Len(Push(r, s).snaps) <= Push(r, s).cap
           /\ \A i \in DOMAIN Push(r, s).snaps :
                \/ Push(r, s).snaps[i] = s
                \/ \E j \in DOMAIN r.snaps : Push(r, s).snaps[i] = r.snaps[j]
<1>1. CASE r.cap = 0
  <2> DEFINE t == <<>>
  <2>1. Push(r, s) = [r EXCEPT !.snaps = t]
    BY <1>1 DEF Push
  <2>2. t \in Seq(S) /\ Len(t) <= r.cap /\ DOMAIN t = {}
    BY <1>1
  <2> HIDE DEF t
  <2> QED
    BY <2>1, <2>2
<1>2. CASE r.cap # 0
  <2> DEFINE q == Append(r.snaps, s)
             t == Trim(q, r.cap)
  <2>1. Push(r, s) = [r EXCEPT !.snaps = t]
    BY <1>2 DEF Push
  <2>2. /\ q \in Seq(S)
        /\ \A j \in DOMAIN q :
              q[j] = s \/ (j \in DOMAIN r.snaps /\ q[j] = r.snaps[j])
    <3>1. r.snaps \in Seq(S)
      OBVIOUS
    <3> QED
      BY <3>1, AppendProperties
  <2> HIDE DEF q
  <2>3. /\ t \in Seq(S) /\ Len(t) <= r.cap
        /\ \A i \in DOMAIN t : \E j \in DOMAIN q : t[i] = q[j]
    BY <2>2, TrimProperties
  <2> HIDE DEF t
  <2>4. \A i \in DOMAIN t : t[i] = s \/ \E j \in DOMAIN r.snaps : t[i] = r.snaps[j]
    BY <2>2, <2>3
  <2>5. Push(r, s).snaps = t /\ Push(r, s).cap = r.cap
    BY <2>1
  <2> QED
    BY <2>1, <2>3, <2>4, <2>5
<1> QED
  BY <1>1, <1>2

(* Dropping the class at the front leaves a sequence of entries, each of   *)
(* which was there before.                                                 *)
LEMMA DropFront ==
    ASSUME NEW S, NEW q \in Seq(S), NEW n \in 1 .. Len(q)
    PROVE  /\ SubSeq(q, n + 1, Len(q)) \in Seq(S)
           /\ \A i \in DOMAIN SubSeq(q, n + 1, Len(q)) :
                \E j \in DOMAIN q : SubSeq(q, n + 1, Len(q))[i] = q[j]
<1> DEFINE t == SubSeq(q, n + 1, Len(q))
<1>1. Len(q) \in Nat /\ n \in Nat /\ \A i \in 1 .. Len(q) : q[i] \in S
  OBVIOUS
<1>2. /\ t \in Seq(S)
      /\ Len(t) = IF n + 1 <= Len(q) THEN Len(q) - (n + 1) + 1 ELSE 0
      /\ \A i \in 1 .. Len(q) - (n + 1) + 1 : t[i] = q[n + 1 + i - 1]
  <2>1. \A i \in n + 1 .. Len(q) : q[i] \in S
    BY <1>1
  <2> QED
    BY <1>1, <2>1, SubSeqProperties
<1>3. ASSUME NEW i \in DOMAIN t
      PROVE  \E j \in DOMAIN q : t[i] = q[j]
  <2>1. i \in 1 .. Len(t)
    BY <1>2
  <2>2. i \in 1 .. Len(q) - (n + 1) + 1
    BY <2>1, <1>1, <1>2
  <2>3. n + 1 + i - 1 \in DOMAIN q
    BY <2>2, <1>1
  <2> QED
    BY <1>2, <2>2, <2>3
<1> QED
  BY <1>2, <1>3

(* An outcome of the new out is an old one or one just appended.           *)
LEMMA OutElement ==
    ASSUME NEW S, NEW q \in Seq(S), NEW r \in Seq(S)
    PROVE  /\ q \o r \in Seq(S)
           /\ \A i \in DOMAIN (q \o r) :
                \/ i \in DOMAIN q /\ (q \o r)[i] = q[i]
                \/ i \notin DOMAIN q /\ i - Len(q) \in DOMAIN r
                   /\ (q \o r)[i] = r[i - Len(q)]
<1>1. /\ q \o r \in Seq(S)
      /\ Len(q \o r) = Len(q) + Len(r)
      /\ \A i \in 1 .. Len(q) + Len(r) :
            (q \o r)[i] = IF i <= Len(q) THEN q[i] ELSE r[i - Len(q)]
  BY ConcatProperties
<1>2. Len(q) \in Nat /\ Len(r) \in Nat
  OBVIOUS
<1> QED
  BY <1>1, <1>2

(* A non-empty set of naturals has a minimum, a bounded one a maximum: the *)
(* CHOOSE of Min and Max is from a non-empty set.                          *)
LEMMA NatMin ==
    ASSUME NEW T, T \subseteq Nat, T # {}
    PROVE  Min(T) \in T /\ \A y \in T : Min(T) <= y
<1> DEFINE R == {ss \in Nat \X Nat : ss[1] < ss[2]}
<1>1. IsWellFoundedOn(R, Nat)
  BY NatLessThanWellFounded, Zenon DEF OpToRel
<1>2. \A x, y \in Nat : x < y => <<x, y>> \in R
  OBVIOUS
<1> HIDE DEF R
<1>3. PICK x \in T : \A y \in T : ~(<<y, x>> \in R)
  BY <1>1, WFMin, Zenon
<1>4. \A y \in T : ~(y < x)
  BY <1>3, <1>2
<1>5. \A y \in T : x <= y
  BY <1>4
<1> QED
  BY <1>5 DEF Min

(* The same for the maximum, through the minimum of the distances to n.    *)
LEMMA NatMax ==
    ASSUME NEW n \in Nat, NEW T, T \subseteq 1 .. n, T # {}
    PROVE  Max(T) \in T /\ \A y \in T : y <= Max(T)
<1> DEFINE M == {n - x : x \in T}
<1>1. M \subseteq Nat /\ M # {}
  <2>1. \A x \in T : n - x \in Nat
    OBVIOUS
  <2>2. M \subseteq Nat
    BY <2>1
  <2>3. PICK x \in T : TRUE
    OBVIOUS
  <2>4. n - x \in M
    BY <2>3
  <2> QED
    BY <2>2, <2>4
<1>2. Min(M) \in M /\ \A y \in M : Min(M) <= y
  <2> HIDE DEF M
  <2> QED
    BY <1>1, NatMin, Zenon
<1>3. PICK x \in T : Min(M) = n - x
  BY <1>2
<1>4. \A y \in T : n - x <= n - y
  BY <1>2, <1>3
<1>5. \A y \in T : y <= x
  BY <1>4
<1> QED
  BY <1>5 DEF Max

(* The rewind window hands out snapshots that are in the ring, or none.    *)
LEMMA LookupInRing ==
    ASSUME NEW r \in [cap : Nat, snaps : Seq(Snapshots)],
           NEW now \in Nat, NEW at \in Nat
    PROVE  Lookup(r, now, at) \in SUBSET Snapshots
<1> DEFINE lo == IF now >= r.cap THEN now - r.cap ELSE 0
           exact == {i \in DOMAIN r.snaps : r.snaps[i].tick = at}
           found == Candidates(r, lo, at)
<1>1. /\ r.snaps \in Seq(Snapshots) /\ Len(r.snaps) \in Nat
      /\ DOMAIN r.snaps = 1 .. Len(r.snaps)
      /\ \A i \in DOMAIN r.snaps : r.snaps[i] \in Snapshots
  OBVIOUS
<1>2. exact # {} => Min(exact) \in exact
  <2>1. exact \subseteq Nat
    BY <1>1
  <2> HIDE DEF exact
  <2> QED
    BY <2>1, NatMin
<1>3. found # {} => Max(found) \in found
  <2>1. found \subseteq 1 .. Len(r.snaps)
    BY <1>1 DEF Candidates
  <2> HIDE DEF found
  <2> QED
    BY <1>1, <2>1, NatMax
<1>4. exact \subseteq DOMAIN r.snaps /\ found \subseteq DOMAIN r.snaps
  BY DEF Candidates
<1>5. \/ Lookup(r, now, at) = {}
      \/ exact # {} /\ Lookup(r, now, at) = {r.snaps[Min(exact)]}
      \/ found # {} /\ Lookup(r, now, at) = {r.snaps[Max(found)]}
  BY Zenon DEF Lookup
<1> HIDE DEF exact, found
<1> QED
  BY <1>1, <1>2, <1>3, <1>4, <1>5

-----------------------------------------------------------------------------
(* What a grain of each kind carries.                                      *)
LEMMA Kinds ==
    ASSUME NEW g \in Proposal
    PROVE  /\ g.kind = "player" => g.slot \in Slots /\ g.at \in Nat
           /\ g.kind \in {"mind", "infer"} => g.locus \in Targets
           /\ Intent(g) => g.target \in Targets
           /\ g.kind \in {"space", "motion"} =>
                /\ g.mover \in Loci /\ g.pose \in Poses
                /\ g.island \in IslandIds \cup {NoIsland}
           /\ g.kind = "phys" =>
                /\ g.bodies \in SUBSET Loci /\ g.pose \in Poses
                /\ g.epoch \in Nat /\ g.tick \in Nat
           /\ g.kind = "residency" =>
                /\ g.place \in Places /\ g.op \in {"load", "evict"}
                /\ g.prefix \in Nat /\ g.canon \in Canons
  BY DEF Proposal, Unstamped, PlayerIntent, MindIntent, InferIntent,
         SpatialDelta, PhysIsland, Residency, Intent, Targets

(* A grain is stamped into a proposal: the world at hand types the stamp.  *)
LEMMA StampType ==
    ASSUME Types, NEW g \in Grains, NEW held \in 0 .. prefix
    PROVE  Stamp(g, held) \in Proposal
<1>1. /\ rows \in SUBSET Loci /\ epoch \in Nat /\ tick + 1 \in Nat
      /\ held \in Nat /\ canon \in Canons
  BY BoundsAssumption DEF Types, WorldTypes, ScalarTypes
<1>2. CASE g.kind = "phys"
  <2>1. g.island \in IslandIds /\ g.pose \in Poses
    BY <1>2, GrainsAssumption
       DEF Unstamped, PlayerIntent, MindIntent, InferIntent, SpatialDelta
  <2>2. IslandMembers(g.island) \in SUBSET Loci
    BY <1>1 DEF IslandMembers
  <2>3. Required(IslandMembers(g.island)) \in SUBSET Loci
    BY <2>2 DEF Required
  <2> QED
    BY <1>1, <1>2, <2>1, <2>2, <2>3 DEF Stamp, Proposal, PhysIsland
<1>3. CASE g.kind = "residency"
  <2>1. g.place \in Places /\ g.op \in {"load", "evict"}
    BY <1>3, GrainsAssumption
       DEF Unstamped, PlayerIntent, MindIntent, InferIntent, SpatialDelta
  <2> QED
    BY <1>1, <1>3, <2>1 DEF Stamp, Proposal, Residency
<1>4. CASE g.kind \notin {"phys", "residency"}
  <2>1. g \in Unstamped
    BY <1>4, GrainsAssumption
  <2> QED
    BY <1>4, <2>1 DEF Stamp, Proposal
<1> QED
  BY <1>2, <1>3, <1>4

(* The world an admitted Fire is judged on is a published snapshot or the  *)
(* live one.                                                               *)
LEMMA SeenType ==
    ASSUME Types, NEW g \in Proposal, g.kind = "player"
    PROVE  Seen(g) \in SUBSET Snapshots
<1>1. g.at \in Nat
  BY Kinds
<1>2. /\ tick \in Nat /\ epoch \in Nat /\ pose \in [Loci -> Poses]
      /\ ring \in [cap : Nat, snaps : Seq(Snapshots)]
  BY BoundsAssumption DEF Types, WorldTypes, ScalarTypes, RingTypes
<1>3. Snapshot \in Snapshots
  BY <1>2 DEF Snapshot, Snapshots
<1>4. Lookup(ring, tick, g.at) \in SUBSET Snapshots
  BY <1>1, <1>2, LookupInRing
<1> QED
  BY <1>3, <1>4, Zenon DEF Seen

(* A pass of the loop takes the class off the front and appends outcomes.  *)
LEMMA TakeEffect ==
    ASSUME Types, NEW n \in 1 .. Len(rest), NEW r \in Seq(Outcomes),
           Take(n, r)
    PROVE  /\ rest[1] \in Entries
           /\ rest' \in Seq(Entries) /\ out' \in Seq(Outcomes)
           /\ phase = "admit" /\ phase' = "admit"
           /\ \A i \in DOMAIN rest' : \E j \in DOMAIN rest : rest'[i] = rest[j]
           /\ \A i \in DOMAIN out' :
                \/ i \in DOMAIN out /\ out'[i] = out[i]
                \/ /\ i \notin DOMAIN out /\ i - Len(out) \in DOMAIN r
                   /\ out'[i] = r[i - Len(out)]
<1>1. rest \in Seq(Entries) /\ out \in Seq(Outcomes)
  BY DEF Types, BatchTypes
<1>2. /\ phase = "admit" /\ phase' = phase
      /\ rest' = SubSeq(rest, n + 1, Len(rest)) /\ out' = out \o r
  BY DEF Take
<1>3. /\ SubSeq(rest, n + 1, Len(rest)) \in Seq(Entries)
      /\ \A i \in DOMAIN SubSeq(rest, n + 1, Len(rest)) :
           \E j \in DOMAIN rest : SubSeq(rest, n + 1, Len(rest))[i] = rest[j]
  BY <1>1, DropFront
<1>4. /\ out \o r \in Seq(Outcomes)
      /\ \A i \in DOMAIN (out \o r) :
           \/ i \in DOMAIN out /\ (out \o r)[i] = out[i]
           \/ /\ i \notin DOMAIN out /\ i - Len(out) \in DOMAIN r
              /\ (out \o r)[i] = r[i - Len(out)]
  BY <1>1, OutElement, Zenon
<1>5. rest[1] \in Entries
  BY <1>1
<1> QED
  BY <1>2, <1>3, <1>4, <1>5, Zenon

(* A pass that admits nothing appends outcomes that carry nobody.          *)
LEMMA RefusalEffect ==
    ASSUME Types, NEW n \in 1 .. Len(rest),
           AdmitAmbiguous(n) \/ AdmitRefused(n)
    PROVE  \E r \in Seq(Outcomes) :
             /\ Take(n, r) /\ NoWrite
             /\ \A i \in DOMAIN r : /\ r[i].verdict # "admitted"
                                   /\ r[i].riders = {} /\ r[i].events = 0
<1>1. rest \in Seq(Entries) /\ Len(rest) \in Nat /\ n \in 1 .. Len(rest)
  BY DEF Types, BatchTypes
<1>2. \A e \in Entries, v \in {"rejected", "ambiguous"} :
        [entry |-> e, verdict |-> v, seen |-> {}, riders |-> {},
         events |-> 0] \in Outcomes
  BY DEF Outcomes
<1>3. CASE AdmitRefused(n)
  <2> DEFINE o == Lost(rest[1], "rejected")
  <2>1. o = [entry |-> rest[1], verdict |-> "rejected", seen |-> {},
             riders |-> {}, events |-> 0]
    BY DEF Lost, Outcome
  <2>2. rest[1] \in Entries
    BY <1>1
  <2>3. o \in Outcomes
    BY <1>2, <2>1, <2>2
  <2>4. o.verdict # "admitted" /\ o.riders = {} /\ o.events = 0
    BY <2>1
  <2>5. Take(n, <<o>>) /\ NoWrite
    BY <1>3 DEF AdmitRefused
  <2> HIDE DEF o
  <2>6. <<o>> \in Seq(Outcomes) /\ DOMAIN <<o>> = {1} /\ <<o>>[1] = o
    BY <2>3
  <2> QED
    BY <2>4, <2>5, <2>6
<1>4. CASE AdmitAmbiguous(n)
  <2> DEFINE o(i) == Lost(rest[i], "ambiguous")
             r == [i \in 1 .. n |-> o(i)]
  <2>1. \A i \in 1 .. n :
          o(i) = [entry |-> rest[i], verdict |-> "ambiguous", seen |-> {},
                  riders |-> {}, events |-> 0]
    BY DEF Lost, Outcome
  <2>2. \A i \in 1 .. n : rest[i] \in Entries
    BY <1>1
  <2>3. \A i \in 1 .. n : /\ o(i) \in Outcomes
                          /\ o(i).verdict # "admitted" /\ o(i).riders = {}
                          /\ o(i).events = 0
    <3>1. TAKE i \in 1 .. n
    <3>2. o(i) = [entry |-> rest[i], verdict |-> "ambiguous", seen |-> {},
                  riders |-> {}, events |-> 0]
      BY <2>1
    <3>3. rest[i] \in Entries
      BY <2>2
    <3> HIDE DEF o
    <3>4. o(i) \in Outcomes
      BY <1>2, <3>2, <3>3
    <3> QED
      BY <3>2, <3>4
  <2>4. Take(n, r) /\ NoWrite
    BY <1>4 DEF AdmitAmbiguous
  <2> HIDE DEF o
  <2>5. r \in Seq(Outcomes) /\ DOMAIN r = 1 .. n
    BY <1>1, <2>3
  <2>6. \A i \in DOMAIN r : /\ r[i].verdict # "admitted"
                           /\ r[i].riders = {} /\ r[i].events = 0
    BY <2>3
  <2> HIDE DEF r
  <2> QED
    BY <2>4, <2>5, <2>6
<1> QED
  BY <1>3, <1>4

(* The outcomes are the old ones and o.                                    *)
OneMore(o) ==
    \A i \in DOMAIN out' :
        \/ i \in DOMAIN out /\ out'[i] = out[i]
        \/ i = Len(out) + 1 /\ out'[i] = o

(* A pass that admits: one outcome more, and the cells were free.          *)
LEMMA AdmitEffect ==
    ASSUME Types, NEW n \in 1 .. Len(rest), NEW seen \in SUBSET Snapshots,
           NEW riders \in SUBSET Loci, NEW m \in {0, 1},
           Admit(n, seen, riders, m)
    PROVE  /\ rest[1] \in Entries /\ rest[1][1] \in Proposal
           /\ rest' \in Seq(Entries) /\ out' \in Seq(Outcomes)
           /\ phase = "admit" /\ phase' = "admit"
           /\ UNCHANGED <<tick, epoch, canon, players, heap, partitionRejects,
                          ring, batch, published>>
           /\ \A i \in DOMAIN rest' : \E j \in DOMAIN rest : rest'[i] = rest[j]
           /\ OneMore(Outcome(rest[1], "admitted", seen, riders, m))
           /\ ~Refused(rest[1][1])
           /\ Cells(rest[1][1]) \cap written = {}
           /\ written' = written \cup Cells(rest[1][1])
           /\ prefix' = prefix + m /\ begun' = begun
<1> DEFINE o == Outcome(rest[1], "admitted", seen, riders, m)
<1>1. /\ Take(n, <<o>>) /\ ~Refused(rest[1][1])
      /\ written' = written \cup Cells(rest[1][1])
      /\ prefix' = prefix + m /\ begun' = begun
  BY DEF Admit, Emit, Take
<1>2. rest \in Seq(Entries) /\ parent \in [Loci -> Targets]
  BY DEF Types, BatchTypes, WorldTypes
<1>3. rest[1] \in Entries
  BY <1>2
<1>4. {<<c, parent[c]>> : c \in riders} \in SUBSET (Loci \X Targets)
  BY <1>2
<1>5. o \in Outcomes
  BY <1>3, <1>4, <1>2 DEF Outcome, Outcomes
<1>6. Cells(rest[1][1]) \cap written = {}
  BY <1>1 DEF Refused
<1>7. UNCHANGED <<tick, epoch, canon, players, heap, partitionRejects,
                  ring, batch, published>>
  BY <1>1 DEF Take
<1>8. rest[1][1] \in Proposal
  BY <1>3 DEF Entries
<1> HIDE DEF o
<1>9. /\ rest' \in Seq(Entries) /\ out' \in Seq(Outcomes)
      /\ phase = "admit" /\ phase' = "admit"
      /\ \A i \in DOMAIN rest' : \E j \in DOMAIN rest : rest'[i] = rest[j]
      /\ \A i \in DOMAIN out' :
           \/ i \in DOMAIN out /\ out'[i] = out[i]
           \/ i \notin DOMAIN out /\ i - Len(out) \in DOMAIN <<o>>
              /\ out'[i] = <<o>>[i - Len(out)]
  <2>1. <<o>> \in Seq(Outcomes)
    BY <1>5
  <2> QED
    BY <1>1, <2>1, TakeEffect
<1>10. OneMore(o)
  <2>1. Len(out) \in Nat /\ DOMAIN out' \subseteq Nat
    BY <1>9 DEF Types, BatchTypes
  <2>2. DOMAIN <<o>> = {1} /\ <<o>>[1] = o
    OBVIOUS
  <2> QED
    BY <1>9, <2>1, <2>2 DEF OneMore
<1> QED
  BY <1>1, <1>3, <1>6, <1>7, <1>8, <1>9, <1>10 DEF o

(* An admission that leaves a typed world keeps the rest typed.            *)
LEMMA AdmitTypes ==
    ASSUME Types, NEW n \in 1 .. Len(rest), NEW seen \in SUBSET Snapshots,
           NEW riders \in SUBSET Loci, NEW m \in {0, 1},
           Admit(n, seen, riders, m), WorldTypes',
           posed' \in [Loci -> Nat]
    PROVE  Types'
<1>1. /\ rest' \in Seq(Entries) /\ out' \in Seq(Outcomes) /\ phase' = "admit"
      /\ UNCHANGED <<tick, epoch, canon, players, heap, partitionRejects, ring>>
      /\ prefix' = prefix + m /\ begun' = begun
  BY AdmitEffect
<1>2. ScalarTypes'
  BY <1>1 DEF Types, ScalarTypes
<1>3. RingTypes' /\ BatchTypes'
  BY <1>1 DEF Types, RingTypes, BatchTypes
<1> QED
  BY <1>2, <1>3 DEF Types

(* The end of a step emits an event per island that is awake.              *)
LEMMA EndEmits ==
    ASSUME Types, EndStep
    PROVE  \E k \in Nat : prefix' = prefix + k
<1> DEFINE J == {island[l] : l \in rows}
           f == [l \in rows |-> island[l]]
<1>1. IsFiniteSet(rows)
  BY LociAssumption, FS_Subset DEF Types, WorldTypes
<1>2. f \in Surjection(rows, J)
  BY DEF Surjection
<1>3. PICK awake \in SUBSET (J \ {NoIsland}) :
        Emit(IF tick % Period = 0 THEN Cardinality(awake) ELSE 0)
  BY DEF EndStep
<1> HIDE DEF f, J
<1> DEFINE k == IF tick % Period = 0 THEN Cardinality(awake) ELSE 0
<1>4. IsFiniteSet(awake)
  <2>1. IsFiniteSet(J)
    BY <1>1, <1>2, FS_Surjection
  <2> QED
    BY <1>3, <2>1, FS_Subset
<1>5. k \in Nat
  BY <1>4, FS_CardinalityType
<1>6. prefix' = prefix + k
  BY <1>3 DEF Emit
<1> HIDE DEF k
<1> QED
  BY <1>5, <1>6

(* The types hold initially ...                                            *)
THEOREM TypesInit == Init => Types
<1> SUFFICES ASSUME Init
             PROVE  Types
  OBVIOUS
<1>1. WorldTypes
  BY StartAssumption DEF Init, WorldTypes, Targets, Row, IsSnap
<1>2. ScalarTypes
  BY CanonAssumption, BoundsAssumption DEF Init, ScalarTypes, Targets
<1>3. RingTypes
  BY DEF Init, RingTypes, EmptyRing
<1>4. BatchTypes
  BY DEF Init, BatchTypes
<1> QED
  BY <1>1, <1>2, <1>3, <1>4 DEF Types

(* ... and every step keeps them.                                          *)
THEOREM TypesPreserved == Types /\ [Next]_vars => Types'
<1> SUFFICES ASSUME Types, [Next]_vars
             PROVE  Types'
  OBVIOUS
<1> USE BoundsAssumption
<1>1. ASSUME NEW s \in Slots, NEW l \in Loci, BindPlayer(s, l)
      PROVE  Types'
  BY <1>1 DEF BindPlayer, Types, WorldTypes, ScalarTypes, RingTypes,
              BatchTypes, world, batchVars, Targets
<1>2. ASSUME NEW g \in Grains, NEW reg \in Regs,
             NEW held \in 0 .. prefix, Ingest(g, reg, held)
      PROVE  Types'
  <2>1. <<Stamp(g, held), reg>> \in Entries
    BY StampType, GrainsAssumption DEF Entries
  <2>2. heap \in Seq(Entries)
    BY DEF Types, BatchTypes
  <2>3. heap' \in Seq(Entries)
    <3> DEFINE e == <<Stamp(g, held), reg>>
    <3>1. e \in Entries /\ heap' = Append(heap, e)
      BY <1>2, <2>1 DEF Ingest
    <3> HIDE DEF e
    <3> QED
      BY <2>2, <3>1
  <2> QED
    BY <1>2, <2>3 DEF Ingest, Types, WorldTypes, ScalarTypes, RingTypes,
                      BatchTypes, world, batchVars
<1>3. ASSUME NEW a \in [Loci -> IslandIds \cup {NoIsland}],
             NEW o \in SUBSET Omits, Partition(a, o)
      PROVE  Types'
  BY <1>3 DEF Partition, Types, WorldTypes, ScalarTypes, RingTypes,
              BatchTypes, batchVars
<1>4. ASSUME NEW c \in Canons, NEW k \in 0 .. 1, ApplyEpoch(c, k)
      PROVE  Types'
  <2>1. WorldTypes'
    BY <1>4 DEF ApplyEpoch, Types, WorldTypes, world
  <2>2. ScalarTypes'
    BY <1>4 DEF ApplyEpoch, Emit, Types, ScalarTypes, batchVars
  <2>3. RingTypes'
    <3> DEFINE snap == [Snapshot EXCEPT !.epoch = epoch + 1]
    <3>1. snap \in Snapshots
      BY DEF Types, WorldTypes, ScalarTypes, Snapshot, Snapshots
    <3>2. ring.cap \in Nat
      BY DEF Types, RingTypes
    <3>3. ring' = EpochRing(snap)
      BY <1>4 DEF ApplyEpoch
    <3>4. EmptyRing(ring.cap) \in [cap : Nat, snaps : Seq(Snapshots)]
      BY <3>2 DEF EmptyRing
    <3> HIDE DEF snap
    <3> QED
      BY <3>1, <3>3, <3>4, PushProperties DEF EpochRing, RingTypes
  <2>4. BatchTypes'
    BY <1>4 DEF ApplyEpoch, HeapAfterEpoch, Types, BatchTypes, batchVars
  <2> QED
    BY <2>1, <2>2, <2>3, <2>4 DEF Types
<1>5. ASSUME NEW dt \in Ticks, NEW cap \in Caps, NEW sync \in SyncBatches,
             BeginStep(dt, cap, sync)
      PROVE  Types'
  <2>1. WorldTypes'
    BY <1>5 DEF BeginStep, Types, WorldTypes, world
  <2>2. ScalarTypes'
    BY <1>5, CapsAssumption DEF BeginStep, Types, ScalarTypes
  <2>3. RingTypes'
    <3>1. ring.snaps \in Seq(Snapshots) /\ cap \in Nat
      BY CapsAssumption DEF Types, RingTypes
    <3>2. ring' = [cap |-> cap, snaps |-> Trim(ring.snaps, cap)]
      BY <1>5 DEF BeginStep, SetCap
    <3> QED
      BY <3>1, <3>2, TrimProperties DEF RingTypes
  <2>4. rest' \in Seq(Entries)
    <3> DEFINE q == heap \o sync
    <3>1. sync \in Seq(Entries)
      BY GrainsAssumption DEF Entries, Proposal
    <3>2. q \in Seq(Entries) /\ Len(q) \in Nat
      BY <3>1 DEF Types, BatchTypes
    <3>3. PICK f \in Bijection(DOMAIN q, DOMAIN q) :
            rest' = [k \in 1 .. Len(q) |-> q[f[k]]]
      BY <1>5 DEF BeginStep
    <3> HIDE DEF q
    <3>4. \A k \in 1 .. Len(q) : f[k] \in 1 .. Len(q)
      BY <3>2, <3>3 DEF Bijection, Injection
    <3>5. \A k \in 1 .. Len(q) : q[f[k]] \in Entries
      BY <3>2, <3>4
    <3> QED
      BY <3>2, <3>3, <3>5
  <2>5. BatchTypes'
    BY <1>5, <2>4 DEF BeginStep, Types, BatchTypes
  <2> QED
    BY <2>1, <2>2, <2>3, <2>5 DEF Types
<1>6. ASSUME NEW n \in 1 .. Len(rest), AdmitAmbiguous(n) \/ AdmitRefused(n)
      PROVE  Types'
  <2>1. PICK r \in Seq(Outcomes) : Take(n, r) /\ NoWrite
    BY <1>6, RefusalEffect
  <2>2. rest' \in Seq(Entries) /\ out' \in Seq(Outcomes) /\ phase' = "admit"
    BY <2>1, TakeEffect
  <2> QED
    BY <2>1, <2>2 DEF Take, NoWrite, Types, WorldTypes, ScalarTypes,
                      RingTypes, BatchTypes, world
<1>7. ASSUME NEW n \in 1 .. Len(rest), NEW k \in 0 .. 1,
             AdmitIntent(n, rest[1][1], k)
      PROVE  Types'
  <2> DEFINE g == rest[1][1]
             seen == IF Rewinds(g) THEN Seen(g) ELSE {}
  <2>1. g \in Proposal
    BY DEF Types, BatchTypes, Entries
  <2>2. seen \in SUBSET Snapshots
    BY <2>1, SeenType DEF Rewinds
  <2>3. Admit(n, seen, {}, k)
    BY <1>7 DEF AdmitIntent
  <2>4. WorldTypes' /\ posed' \in [Loci -> Nat]
    BY <1>7 DEF AdmitIntent, Types, WorldTypes, BatchTypes, world
  <2> HIDE DEF seen
  <2> QED
    BY <2>2, <2>3, <2>4, AdmitTypes
<1>8. ASSUME NEW n \in 1 .. Len(rest), NEW host \in Loci \cup {None},
             AdmitPossess(n, rest[1][1], host)
      PROVE  Types'
  <2>1. Admit(n, {}, {}, 1)
    BY <1>8 DEF AdmitPossess
  <2>2. WorldTypes' /\ posed' \in [Loci -> Nat]
    BY <1>8 DEF AdmitPossess, Types, WorldTypes, BatchTypes, Targets
  <2> QED
    BY <2>1, <2>2, AdmitTypes
<1>9. ASSUME NEW n \in 1 .. Len(rest), AdmitPose(n, rest[1][1])
      PROVE  Types'
  <2> DEFINE g == rest[1][1]
  <2>1. Admit(n, {}, {}, 0)
    BY <1>9 DEF AdmitPose
  <2>2. g.mover \in Loci /\ g.pose \in Poses
        /\ g.island \in IslandIds \cup {NoIsland}
    <3>1. g \in Proposal
      BY DEF Types, BatchTypes, Entries
    <3> QED
      BY <1>9, <3>1, Kinds DEF AdmitPose
  <2>3. WorldTypes'
    BY <1>9, <2>2 DEF AdmitPose, Types, WorldTypes
  <2>4. posed' \in [Loci -> Nat]
    BY <1>9 DEF AdmitPose, Writes, Types, BatchTypes
  <2> QED
    BY <2>1, <2>3, <2>4, AdmitTypes
<1>10. ASSUME NEW n \in 1 .. Len(rest), NEW k \in 0 .. 1,
              AdmitIsland(n, rest[1][1], k)
       PROVE  Types'
  <2> DEFINE g == rest[1][1]
  <2>1. Admit(n, {}, Riders(g), k)
    BY <1>10 DEF AdmitIsland
  <2>2. g.pose \in Poses /\ g.bodies \in SUBSET Loci
    <3>1. g \in Proposal
      BY DEF Types, BatchTypes, Entries
    <3> QED
      BY <1>10, <3>1, Kinds DEF AdmitIsland
  <2>3. Riders(g) \in SUBSET Loci
    BY DEF Riders, Attached, Types, WorldTypes
  <2>4. WorldTypes'
    BY <1>10, <2>2 DEF AdmitIsland, Types, WorldTypes
  <2>5. posed' \in [Loci -> Nat]
    BY <1>10 DEF AdmitIsland, Writes, Types, BatchTypes
  <2> QED
    BY <2>1, <2>3, <2>4, <2>5, AdmitTypes
<1>11. ASSUME NEW n \in 1 .. Len(rest), AdmitLoad(n, rest[1][1])
       PROVE  Types'
  <2> DEFINE g == rest[1][1]
             S == DOMAIN Catalog[g.place]
  <2>1. Admit(n, {}, {}, 1)
    BY <1>11 DEF AdmitLoad
  <2>2. g.place \in Places
    <3>1. g \in Proposal
      BY DEF Types, BatchTypes, Entries
    <3> QED
      BY <1>11, <3>1, Kinds DEF AdmitLoad
  <2>3. S \in SUBSET Loci /\ \A l \in S : Catalog[g.place][l] \in Row
    BY <2>2, CatalogAssumption DEF IsSnap
  <2>4. WorldTypes'
    <3>1. rows' = rows \cup S
          /\ pose' = [l \in Loci |->
                IF l \in S THEN Catalog[g.place][l].pose ELSE pose[l]]
          /\ within' = [l \in Loci |->
                IF l \in S THEN Catalog[g.place][l].within ELSE within[l]]
          /\ parent' = [l \in Loci |->
                IF l \in S THEN Catalog[g.place][l].parent ELSE parent[l]]
          /\ island' = [l \in Loci |->
                IF l \in S THEN Catalog[g.place][l].island ELSE island[l]]
      BY <1>11 DEF AdmitLoad
    <3>2. pose' \in [Loci -> Poses]
      BY <2>3, <3>1 DEF Types, WorldTypes, Row
    <3>3. within' \in [Loci -> Places \cup {None}]
      BY <2>3, <3>1 DEF Types, WorldTypes, Row
    <3>4. parent' \in [Loci -> Targets]
      BY <2>3, <3>1 DEF Types, WorldTypes, Targets, Row
    <3>5. island' \in [Loci -> IslandIds \cup {NoIsland}]
      BY <2>3, <3>1 DEF Types, WorldTypes, Row
    <3> HIDE DEF S
    <3> QED
      BY <2>3, <3>1, <3>2, <3>3, <3>4, <3>5 DEF Types, WorldTypes
  <2>5. posed' \in [Loci -> Nat]
    BY <1>11 DEF AdmitLoad, Writes, Types, BatchTypes
  <2> QED
    BY <2>1, <2>4, <2>5, AdmitTypes
<1>12. ASSUME NEW n \in 1 .. Len(rest), AdmitEvict(n, rest[1][1])
       PROVE  Types'
  <2>1. Admit(n, {}, {}, 1)
    BY <1>12 DEF AdmitEvict
  <2>2. WorldTypes'
    BY <1>12 DEF AdmitEvict, Scrub, Types, WorldTypes, Targets
  <2>3. posed' \in [Loci -> Nat]
    BY <1>12 DEF AdmitEvict, Writes, Types, BatchTypes
  <2> QED
    BY <2>1, <2>2, <2>3, AdmitTypes
<1>13. ASSUME EndStep
       PROVE  Types'
  <2>1. WorldTypes'
    BY <1>13 DEF EndStep, Types, WorldTypes, world
  <2>2. ScalarTypes'
    <3>1. PICK k \in Nat : prefix' = prefix + k
      BY <1>13, EndEmits
    <3> QED
      BY <1>13, <3>1 DEF EndStep, Types, ScalarTypes
  <2>3. RingTypes'
    <3>1. Snapshot \in Snapshots
      BY DEF Types, WorldTypes, ScalarTypes, Snapshot, Snapshots
    <3>2. ring \in [cap : Nat, snaps : Seq(Snapshots)]
      BY DEF Types, RingTypes
    <3>3. ring' = Push(ring, Snapshot)
      BY <1>13 DEF EndStep
    <3> QED
      BY <3>1, <3>2, <3>3, PushProperties DEF RingTypes
  <2>4. BatchTypes'
    BY <1>13 DEF EndStep, Types, BatchTypes
  <2> QED
    BY <2>1, <2>2, <2>3, <2>4 DEF Types
<1>14. ASSUME NEW n \in 1 .. Len(rest), NEW l \in Bodies, NEW p \in Poses,
              AdmitSpawn(n, rest[1][1], l, p)
       PROVE  Types'
  <2> DEFINE g == rest[1][1]
             seen == IF Rewinds(g) THEN Seen(g) ELSE {}
  <2>1. seen \in SUBSET Snapshots
    <3>1. g \in Proposal
      BY DEF Types, BatchTypes, Entries
    <3> QED
      BY <3>1, SeenType DEF Rewinds
  <2>2. Admit(n, seen, {}, 1)
    BY <1>14 DEF AdmitSpawn
  <2>3. WorldTypes'
    BY <1>14, LociAssumption, IslandAssumption
       DEF AdmitSpawn, Types, WorldTypes
  <2>4. posed' \in [Loci -> Nat]
    BY <1>14 DEF AdmitSpawn, Types, BatchTypes
  <2> HIDE DEF seen
  <2> QED
    BY <2>1, <2>2, <2>3, <2>4, AdmitTypes
<1>15. CASE UNCHANGED vars
  BY <1>15 DEF vars, world, batchVars, Types, WorldTypes, ScalarTypes,
               RingTypes, BatchTypes
<1> QED
  BY <1>1, <1>2, <1>3, <1>4, <1>5, <1>6, <1>7, <1>8, <1>9, <1>10, <1>11,
     <1>12, <1>13, <1>14, <1>15 DEF Next, Call, Step, AdmitClass

(* Every state of every behaviour is typed.                                *)
THEOREM SpecTypes == Spec => []Types
BY TypesInit, TypesPreserved, PTL DEF Spec

(* The types the runs check hold for every world and every bound.          *)
THEOREM SpecTypeOK == Spec => []TypeOK
<1>1. Types => TypeOK
  BY DEF Types, WorldTypes, ScalarTypes, RingTypes, BatchTypes, TypeOK, Targets
<1> QED
  BY <1>1, SpecTypes, PTL

-----------------------------------------------------------------------------
(* The safety theorems.  What an admission does to poses and cells is said *)
(* once, in WriteSet; what it does to the rest of the batch, in the lemmas *)
(* about classes.                                                          *)
AdmitOne(n) ==
    LET g == rest[1][1] IN
    \/ \E k \in 0 .. 1 : AdmitIntent(n, g, k)
    \/ \E host \in Loci \cup {None} : AdmitPossess(n, g, host)
    \/ \E l \in Bodies, p \in Poses : AdmitSpawn(n, g, l, p)
    \/ AdmitPose(n, g)
    \/ \E k \in 0 .. 1 : AdmitIsland(n, g, k)
    \/ AdmitLoad(n, g)
    \/ AdmitEvict(n, g)

(* The loop refuses or admits.                                             *)
LEMMA LoopCases ==
    ASSUME AdmitClass
    PROVE  \E n \in 1 .. Len(rest) :
              (AdmitAmbiguous(n) \/ AdmitRefused(n)) \/ AdmitOne(n)
  BY Zenon DEF AdmitClass, AdmitOne

-----------------------------------------------------------------------------
(* Every pose an admission writes, and every row it drops, is in lane 0 of *)
(* its cells, except for a row it creates; a rider and its host are rows   *)
(* and end up at one pose.                                                 *)
LEMMA WriteSet ==
    ASSUME Types, NEW n \in 1 .. Len(rest), AdmitOne(n)
    PROVE  \E S \in SUBSET Loci, seen \in SUBSET Snapshots,
              riders \in SUBSET Loci, m \in {0, 1} :
             /\ Admit(n, seen, riders, m)
             /\ \A l \in S : <<l, 0>> \in Cells(rest[1][1])
             /\ \A l \in Loci :
                   /\ posed'[l] = IF l \in S THEN posed[l] + 1 ELSE posed[l]
                   /\ l \in rows \ S => pose'[l] = pose[l] /\ l \in rows'
             /\ \A c \in riders :
                   /\ {c, parent[c]} \subseteq S \cap rows'
                   /\ pose'[c] = pose'[parent[c]]
<1> DEFINE g == rest[1][1]
           Q(S, riders) ==
              /\ \A l \in S : <<l, 0>> \in Cells(rest[1][1])
              /\ \A l \in Loci :
                   /\ posed'[l] = IF l \in S THEN posed[l] + 1 ELSE posed[l]
                   /\ l \in rows \ S => pose'[l] = pose[l] /\ l \in rows'
              /\ \A c \in riders :
                   /\ {c, parent[c]} \subseteq S \cap rows'
                   /\ pose'[c] = pose'[parent[c]]
<1>1. g \in Proposal
  BY DEF Types, BatchTypes, Entries
<1>2. /\ rows \in SUBSET Loci /\ pose \in [Loci -> Poses]
      /\ parent \in [Loci -> Targets] /\ posed \in [Loci -> Nat]
  BY DEF Types, WorldTypes, BatchTypes
<1>3. ASSUME NEW k \in 0 .. 1, AdmitIntent(n, g, k)
      PROVE  \E seen \in SUBSET Snapshots : Admit(n, seen, {}, k) /\ Q({}, {})
  <2> DEFINE seen == IF Rewinds(g) THEN Seen(g) ELSE {}
  <2>1. seen \in SUBSET Snapshots
    BY <1>1, SeenType DEF Rewinds
  <2>2. Admit(n, seen, {}, k) /\ Q({}, {})
    BY <1>3 DEF AdmitIntent, world
  <2> HIDE DEF seen, Q
  <2> QED
    BY <2>1, <2>2
<1>4. ASSUME NEW host \in Loci \cup {None}, AdmitPossess(n, g, host)
      PROVE  Admit(n, {}, {}, 1) /\ Q({}, {})
  BY <1>4 DEF AdmitPossess
<1>5. ASSUME AdmitPose(n, g)
      PROVE  Admit(n, {}, {}, 0) /\ g.mover \in Loci /\ Q({g.mover}, {})
  <2>1. g.mover \in Loci /\ g.kind \in {"space", "motion"}
    BY <1>1, <1>5, Kinds DEF AdmitPose
  <2>2. <<g.mover, 0>> \in Cells(g)
    BY <2>1 DEF Cells, Intent
  <2>3. pose' = [pose EXCEPT ![g.mover] = g.pose] /\ Writes({g.mover})
    BY <1>5 DEF AdmitPose
  <2>4. \A l \in Loci :
          /\ posed'[l] = IF l \in {g.mover} THEN posed[l] + 1 ELSE posed[l]
          /\ l \in rows \ {g.mover} => pose'[l] = pose[l] /\ l \in rows'
    BY <1>2, <1>5, <2>3 DEF Writes, AdmitPose
  <2> QED
    BY <1>5, <2>1, <2>2, <2>4 DEF AdmitPose
<1>6. ASSUME NEW k \in 0 .. 1, AdmitIsland(n, g, k)
      PROVE  /\ Admit(n, {}, Riders(g), k) /\ Riders(g) \in SUBSET Loci
             /\ g.bodies \cup Riders(g) \in SUBSET Loci
             /\ Q(g.bodies \cup Riders(g), Riders(g))
  <2> DEFINE S == g.bodies \cup Riders(g)
  <2>1. g.bodies \in SUBSET Loci /\ g.kind = "phys"
    BY <1>1, <1>6, Kinds DEF AdmitIsland
  <2>2. Riders(g) \in SUBSET Loci
    BY <1>2 DEF Riders, Attached
  <2>3. \A l \in S : <<l, 0>> \in Cells(g)
    BY <2>1 DEF Cells, Intent
  <2>4. /\ pose' = [l \in Loci |-> IF l \in S THEN g.pose ELSE pose[l]]
        /\ Writes(S)
    BY <1>6 DEF AdmitIsland
  <2>5. g.bodies \subseteq rows
    <3>1. ~Refused(g)
      BY <1>6 DEF AdmitIsland, Admit
    <3> QED
      BY <2>1, <3>1 DEF Refused, IslandRefused, IslandMembers
  <2>6. \A c \in Riders(g) : c \in rows /\ parent[c] \in g.bodies
    BY DEF Riders, Attached
  <2>7. rows' = rows
    BY <1>6 DEF AdmitIsland
  <2>8. \A l \in Loci :
          /\ posed'[l] = IF l \in S THEN posed[l] + 1 ELSE posed[l]
          /\ l \in rows \ S => pose'[l] = pose[l] /\ l \in rows'
          /\ l \in S => pose'[l] = g.pose
    BY <2>4, <2>7 DEF Writes
  <2>9. S \in SUBSET Loci
        /\ \A c \in Riders(g) : {c, parent[c]} \subseteq S \cap rows'
    BY <2>1, <2>2, <2>5, <2>6, <2>7
  <2>10. \A c \in Riders(g) : pose'[c] = pose'[parent[c]]
    BY <2>8, <2>9
  <2> QED
    BY <1>6, <2>2, <2>3, <2>8, <2>9, <2>10 DEF AdmitIsland
<1>7. ASSUME AdmitLoad(n, g)
      PROVE  /\ Admit(n, {}, {}, 1) /\ DOMAIN Catalog[g.place] \in SUBSET Loci
             /\ Q(DOMAIN Catalog[g.place], {})
  <2> DEFINE S == DOMAIN Catalog[g.place]
  <2>1. g.place \in Places /\ g.kind = "residency"
    BY <1>1, <1>7, Kinds DEF AdmitLoad
  <2>2. S \in SUBSET Loci
    BY <2>1, CatalogAssumption DEF IsSnap
  <2>3. \A l \in S : <<l, 0>> \in Cells(g)
    BY <2>1 DEF Cells, Intent
  <2>4. /\ Writes(S) /\ rows' = rows \cup S
        /\ pose' = [l \in Loci |->
              IF l \in S THEN Catalog[g.place][l].pose ELSE pose[l]]
    BY <1>7 DEF AdmitLoad
  <2> HIDE DEF S
  <2>5. \A l \in Loci :
          /\ posed'[l] = IF l \in S THEN posed[l] + 1 ELSE posed[l]
          /\ l \in rows \ S => pose'[l] = pose[l] /\ l \in rows'
    BY <2>4 DEF Writes
  <2>6. Admit(n, {}, {}, 1)
    BY <1>7 DEF AdmitLoad
  <2> QED
    BY <2>2, <2>3, <2>5, <2>6 DEF S
<1>8. ASSUME AdmitEvict(n, g)
      PROVE  /\ Admit(n, {}, {}, 1) /\ Dropped(g.place) \in SUBSET Loci
             /\ Q(Dropped(g.place), {})
  <2> DEFINE S == Dropped(g.place)
  <2>1. g.kind = "residency" /\ g.op = "evict"
    BY <1>8 DEF AdmitEvict
  <2>2. S \subseteq Members(g.place) /\ S \in SUBSET Loci
    BY <1>2 DEF Dropped, Members
  <2>3. \A l \in Members(g.place) : <<l, 0>> \in Cells(g)
    BY <2>1 DEF Cells, Intent
  <2>4. Writes(S) /\ pose' = pose /\ rows' = rows \ S /\ Admit(n, {}, {}, 1)
    BY <1>8 DEF AdmitEvict
  <2> HIDE DEF S
  <2>5. \A l \in Loci :
          /\ posed'[l] = IF l \in S THEN posed[l] + 1 ELSE posed[l]
          /\ l \in rows \ S => pose'[l] = pose[l] /\ l \in rows'
    BY <2>4 DEF Writes
  <2> QED
    BY <2>2, <2>3, <2>4, <2>5 DEF S
<1>9. ASSUME NEW l \in Bodies, NEW p \in Poses, AdmitSpawn(n, g, l, p)
      PROVE  \E seen \in SUBSET Snapshots : Admit(n, seen, {}, 1) /\ Q({}, {})
  <2> DEFINE seen == IF Rewinds(g) THEN Seen(g) ELSE {}
  <2>1. seen \in SUBSET Snapshots
    BY <1>1, SeenType DEF Rewinds
  <2>2. /\ Admit(n, seen, {}, 1) /\ posed' = posed
        /\ rows' = rows \cup {l} /\ pose' = [pose EXCEPT ![l] = p]
    BY <1>9 DEF AdmitSpawn
  <2>3. l \notin rows
    <3>1. \A r \in rows : r < l /\ r \in Nat
      BY <1>2, <1>9, LociAssumption DEF AdmitSpawn
    <3> QED
      BY <3>1
  <2>4. \A m \in rows : pose'[m] = pose[m] /\ m \in rows'
    BY <1>2, <2>2, <2>3
  <2>5. Q({}, {})
    BY <2>2, <2>4
  <2> HIDE DEF seen, Q
  <2> QED
    BY <2>1, <2>2, <2>5
<1> HIDE DEF Q
<1>11. \A k \in 0 .. 1 : k \in {0, 1}
  OBVIOUS
<1>10. \E S \in SUBSET Loci, seen \in SUBSET Snapshots,
         riders \in SUBSET Loci, m \in {0, 1} : Admit(n, seen, riders, m) /\ Q(S, riders)
  BY <1>3, <1>4, <1>5, <1>6, <1>7, <1>8, <1>9, <1>11 DEF AdmitOne
<1> QED
  BY <1>10 DEF Q

-----------------------------------------------------------------------------
(* A pose is written with its cell taken, hence once; and both ends of a   *)
(* carried pair keep their cells, hence their poses.                       *)
PoseInv ==
    /\ \A l \in Loci : posed[l] = 0 \/ (posed[l] = 1 /\ <<l, 0>> \in written)
    /\ \A i \in DOMAIN out : \A r \in out[i].riders :
          /\ r[1] \in rows /\ r[2] \in rows
          /\ <<r[1], 0>> \in written /\ <<r[2], 0>> \in written
          /\ pose[r[1]] = pose[r[2]]

(* No call and no pass of the admission loop breaks PoseInv: a pass writes *)
(* poses only in cells that were free, and takes them.                     *)
LEMMA PosePreserved == Types /\ PoseInv /\ [Next]_vars => PoseInv'
<1> SUFFICES ASSUME Types, PoseInv, [Next]_vars
             PROVE  PoseInv'
  OBVIOUS
<1>1. ASSUME NEW s \in Slots, NEW l \in Loci, BindPlayer(s, l)
      PROVE  PoseInv'
  BY <1>1 DEF BindPlayer, PoseInv, world, batchVars
<1>2. ASSUME NEW g \in Grains, NEW reg \in Regs,
             NEW held \in 0 .. prefix, Ingest(g, reg, held)
      PROVE  PoseInv'
  BY <1>2 DEF Ingest, PoseInv, world, batchVars
<1>3. ASSUME NEW a \in [Loci -> IslandIds \cup {NoIsland}],
             NEW o \in SUBSET Omits, Partition(a, o)
      PROVE  PoseInv'
  BY <1>3 DEF Partition, PoseInv, batchVars
<1>4. ASSUME NEW c \in Canons, NEW k \in 0 .. 1, ApplyEpoch(c, k)
      PROVE  PoseInv'
  BY <1>4 DEF ApplyEpoch, PoseInv, world, batchVars
<1>5. ASSUME NEW dt \in Ticks, NEW cap \in Caps, NEW sync \in SyncBatches,
             BeginStep(dt, cap, sync)
      PROVE  PoseInv'
  BY <1>5 DEF BeginStep, PoseInv
<1>6. ASSUME NEW n \in 1 .. Len(rest), AdmitAmbiguous(n) \/ AdmitRefused(n)
      PROVE  PoseInv'
  <2>1. PICK r \in Seq(Outcomes) :
          /\ Take(n, r) /\ NoWrite
          /\ \A i \in DOMAIN r : /\ r[i].verdict # "admitted"
                                /\ r[i].riders = {} /\ r[i].events = 0
    BY <1>6, RefusalEffect
  <2>2. \A i \in DOMAIN out' :
           \/ i \in DOMAIN out /\ out'[i] = out[i]
           \/ out'[i].riders = {}
    BY <2>1, TakeEffect
  <2> QED
    BY <2>1, <2>2 DEF PoseInv, NoWrite, world
<1>7. ASSUME NEW n \in 1 .. Len(rest), AdmitOne(n)
      PROVE  PoseInv'
  <2>1. PICK S \in SUBSET Loci, seen \in SUBSET Snapshots,
             riders \in SUBSET Loci, m \in {0, 1} :
             /\ Admit(n, seen, riders, m)
             /\ \A l \in S : <<l, 0>> \in Cells(rest[1][1])
             /\ \A l \in Loci :
                   /\ posed'[l] = IF l \in S THEN posed[l] + 1 ELSE posed[l]
                   /\ l \in rows \ S => pose'[l] = pose[l] /\ l \in rows'
             /\ \A c \in riders :
                   /\ {c, parent[c]} \subseteq S \cap rows'
                   /\ pose'[c] = pose'[parent[c]]
    BY <1>7, WriteSet
  <2>2. /\ Cells(rest[1][1]) \cap written = {}
        /\ written' = written \cup Cells(rest[1][1])
        /\ \A i \in DOMAIN out' :
              \/ i \in DOMAIN out /\ out'[i] = out[i]
              \/ /\ i = Len(out) + 1
                 /\ out'[i] = Outcome(rest[1], "admitted", seen, riders, m)
    <3>1. Admit(n, seen, riders, m)
      BY <2>1
    <3>2. /\ Cells(rest[1][1]) \cap written = {}
          /\ written' = written \cup Cells(rest[1][1])
      BY <3>1, AdmitEffect
    <3>3. OneMore(Outcome(rest[1], "admitted", seen, riders, m))
      BY <3>1, AdmitEffect
    <3> QED
      BY <3>2, <3>3 DEF OneMore
  <2>3. \A l \in Loci : <<l, 0>> \in written => l \notin S
    BY <2>1, <2>2
  <2>4. \A l \in Loci :
          posed'[l] = 0 \/ (posed'[l] = 1 /\ <<l, 0>> \in written')
    <3>1. TAKE l \in Loci
    <3>2. CASE l \in S
      <4>1. posed[l] = 0
        BY <2>3, <3>2 DEF PoseInv
      <4> QED
        BY <2>1, <2>2, <3>2, <4>1
    <3>3. CASE l \notin S
      BY <2>1, <2>2, <3>3 DEF PoseInv
    <3> QED
      BY <3>2, <3>3
  <2>5. ASSUME NEW i \in DOMAIN out', NEW r \in out'[i].riders
        PROVE  /\ r[1] \in rows' /\ r[2] \in rows'
               /\ <<r[1], 0>> \in written' /\ <<r[2], 0>> \in written'
               /\ pose'[r[1]] = pose'[r[2]]
    <3>1. CASE i \in DOMAIN out /\ out'[i] = out[i]
      <4>1. /\ r[1] \in rows /\ r[2] \in rows
            /\ <<r[1], 0>> \in written /\ <<r[2], 0>> \in written
            /\ pose[r[1]] = pose[r[2]]
        BY <2>5, <3>1 DEF PoseInv
      <4>2. /\ pose'[r[1]] = pose[r[1]] /\ pose'[r[2]] = pose[r[2]]
            /\ r[1] \in rows' /\ r[2] \in rows'
        <5>1. rows \subseteq Loci
          BY DEF Types, WorldTypes
        <5> QED
          BY <2>1, <2>3, <4>1, <5>1
      <4> QED
        BY <2>2, <4>1, <4>2
    <3>2. CASE out'[i] = Outcome(rest[1], "admitted", seen, riders, m)
      <4>1. PICK c \in riders : r = <<c, parent[c]>>
        BY <2>5, <3>2 DEF Outcome
      <4>2. {c, parent[c]} \subseteq S \cap rows' /\ pose'[c] = pose'[parent[c]]
        BY <2>1
      <4>3. <<c, 0>> \in written' /\ <<parent[c], 0>> \in written'
        BY <2>1, <2>2, <4>2
      <4> QED
        BY <4>1, <4>2, <4>3
    <3> QED
      BY <2>2, <3>1, <3>2
  <2> QED
    BY <2>4, <2>5 DEF PoseInv
<1>8. ASSUME EndStep
      PROVE  PoseInv'
  BY <1>8 DEF EndStep, PoseInv
<1>9. CASE UNCHANGED vars
  BY <1>9 DEF vars, world, batchVars, PoseInv
<1> QED
  BY <1>1, <1>2, <1>3, <1>4, <1>5, <1>6, <1>7, <1>8, <1>9, LoopCases
     DEF Next, Call, Step

(* Nothing is written before the first step.                               *)
LEMMA PoseInitially == Init => PoseInv
  BY DEF Init, PoseInv

(* K55: no step writes a pose twice.  From the cell conflict check against *)
(* cells computed when the proposal's turn comes.                          *)
THEOREM SpecOnePoseWriter == Spec => []OnePoseWriter
<1>1. PoseInv => OnePoseWriter
  <2>1. PoseInv => \A l \in Loci : posed[l] = 0 \/ posed[l] = 1
    BY DEF PoseInv
  <2> QED
    BY <2>1 DEF OnePoseWriter
<1> QED
  BY <1>1, TypesInit, TypesPreserved, PoseInitially, PosePreserved, PTL
     DEF Spec

(* Attached children sit at their host when the step ends.                 *)
THEOREM SpecRidersStayAtHost == Spec => []RidersStayAtHost
<1>1. PoseInv => RidersStayAtHost
  BY DEF PoseInv, RidersStayAtHost
<1> QED
  BY <1>1, TypesInit, TypesPreserved, PoseInitially, PosePreserved, PTL
     DEF Spec

-----------------------------------------------------------------------------
(* The sorted batch is what was ingested and what the sync proposers gave; *)
(* a sync grain is no island proposal and no residency.                    *)
LEMMA SortedBatch ==
    ASSUME Types, NEW dt \in Ticks, NEW cap \in Caps,
           NEW sync \in SyncBatches, BeginStep(dt, cap, sync)
    PROVE  \A k \in DOMAIN rest' :
              \/ \E i \in DOMAIN heap : rest'[k] = heap[i]
              \/ rest'[k][1].kind \notin {"phys", "residency"}
<1> DEFINE q == heap \o sync
<1>1. heap \in Seq(Entries) /\ sync \in Seq(Unstamped \X Nat)
  BY GrainsAssumption DEF Types, BatchTypes
<1>2. sync \in Seq(Entries)
  BY <1>1 DEF Entries, Proposal
<1>3. /\ q \in Seq(Entries)
      /\ \A i \in DOMAIN q :
           \/ i \in DOMAIN heap /\ q[i] = heap[i]
           \/ i - Len(heap) \in DOMAIN sync /\ q[i] = sync[i - Len(heap)]
  BY <1>1, <1>2, OutElement
<1>4. \A i \in DOMAIN sync : sync[i][1].kind \notin {"phys", "residency"}
  <2>1. \A e \in Unstamped \X Nat : e[1].kind \notin {"phys", "residency"}
    BY DEF Unstamped, PlayerIntent, MindIntent, InferIntent, SpatialDelta
  <2>2. \A i \in DOMAIN sync : sync[i] \in Unstamped \X Nat
    BY <1>1
  <2> QED
    BY <2>1, <2>2
<1>5. PICK f \in Bijection(DOMAIN q, DOMAIN q) :
         rest' = [k \in 1 .. Len(q) |-> q[f[k]]]
  BY DEF BeginStep
<1> HIDE DEF q
<1>6. DOMAIN q = 1 .. Len(q) /\ \A k \in 1 .. Len(q) : f[k] \in DOMAIN q
  BY <1>3, <1>5 DEF Bijection, Injection
<1>7. ASSUME NEW k \in DOMAIN rest'
      PROVE  \/ \E i \in DOMAIN heap : rest'[k] = heap[i]
             \/ rest'[k][1].kind \notin {"phys", "residency"}
  <2>1. f[k] \in DOMAIN q /\ rest'[k] = q[f[k]]
    BY <1>5, <1>6, <1>7
  <2> QED
    BY <1>3, <1>4, <2>1
<1> QED
  BY <1>7

(* The pass of the loop, whatever it decides: the rest shrinks, out grows, *)
(* what a step reads of the kernel stays.                                  *)
LEMMA PassEffect ==
    ASSUME Types, AdmitClass
    PROVE  /\ phase = "admit" /\ phase' = "admit"
           /\ \A i \in DOMAIN rest' : \E j \in DOMAIN rest : rest'[i] = rest[j]
           /\ UNCHANGED <<tick, epoch, canon, heap, ring, published>>
<1>1. PICK n \in 1 .. Len(rest) :
         (AdmitAmbiguous(n) \/ AdmitRefused(n)) \/ AdmitOne(n)
  BY LoopCases
<1>2. CASE AdmitAmbiguous(n) \/ AdmitRefused(n)
  <2>1. PICK r \in Seq(Outcomes) : Take(n, r)
    BY <1>2, RefusalEffect
  <2>2. UNCHANGED <<tick, epoch, canon, heap, ring, published>>
    BY <2>1 DEF Take
  <2> QED
    BY <2>1, <2>2, TakeEffect
<1>3. CASE AdmitOne(n)
  <2>1. PICK seen \in SUBSET Snapshots, riders \in SUBSET Loci,
             m \in {0, 1} :
          Admit(n, seen, riders, m)
    BY <1>3, WriteSet
  <2> QED
    BY <2>1, AdmitEffect
<1> QED
  BY <1>1, <1>2, <1>3

-----------------------------------------------------------------------------
(* Only apply_canon_epoch changes the epoch, and it empties the heap and   *)
(* restarts the ring; every other step stamps with the live epoch.         *)
LEMMA EpochPreserved ==
    Types /\ NothingOutlivesEpoch /\ [Next]_vars => NothingOutlivesEpoch'
<1> SUFFICES ASSUME Types, NothingOutlivesEpoch, [Next]_vars
             PROVE  NothingOutlivesEpoch'
  OBVIOUS
<1>1. ASSUME NEW s \in Slots, NEW l \in Loci, BindPlayer(s, l)
      PROVE  NothingOutlivesEpoch'
  BY <1>1 DEF BindPlayer, NothingOutlivesEpoch, Stamped, batchVars
<1>2. ASSUME NEW g \in Grains, NEW reg \in Regs,
             NEW held \in 0 .. prefix, Ingest(g, reg, held)
      PROVE  NothingOutlivesEpoch'
  <2> DEFINE e == <<Stamp(g, held), reg>>
  <2>1. e \in Entries /\ heap \in Seq(Entries)
    BY StampType, GrainsAssumption DEF Entries, Types, BatchTypes
  <2>2. heap' = Append(heap, e) /\ UNCHANGED <<epoch, canon, ring, rest>>
    BY <1>2 DEF Ingest, batchVars
  <2>3. Stamped(Stamp(g, held))
    BY DEF Stamp, Stamped
  <2>4. \A h \in Proposal : Stamped(h)' = Stamped(h)
    BY <2>2 DEF Stamped
  <2>5. \A i \in DOMAIN heap' :
           (i \in DOMAIN heap /\ heap'[i] = heap[i]) \/ heap'[i] = e
    <3> HIDE DEF e
    <3> QED
      BY <2>1, <2>2
  <2>6. \A i \in DOMAIN heap' : heap'[i][1].kind = "phys" =>
                                  heap'[i][1].epoch = epoch
    BY <2>3, <2>5 DEF NothingOutlivesEpoch, Stamped
  <2>7. \A i \in DOMAIN heap' : heap'[i][1].kind = "residency" =>
                                  heap'[i][1].canon = canon
    BY <2>3, <2>5 DEF NothingOutlivesEpoch, Stamped
  <2> QED
    BY <2>2, <2>6, <2>7 DEF NothingOutlivesEpoch, Stamped
<1>3. ASSUME NEW a \in [Loci -> IslandIds \cup {NoIsland}],
             NEW o \in SUBSET Omits, Partition(a, o)
      PROVE  NothingOutlivesEpoch'
  BY <1>3 DEF Partition, NothingOutlivesEpoch, Stamped, batchVars
<1>4. ASSUME NEW c \in Canons, NEW k \in 0 .. 1, ApplyEpoch(c, k)
      PROVE  NothingOutlivesEpoch'
  <2>1. heap' = <<>> /\ rest' = <<>>
    BY <1>4 DEF ApplyEpoch, HeapAfterEpoch, batchVars, Types, BatchTypes
  <2> DEFINE snap == [Snapshot EXCEPT !.epoch = epoch + 1]
  <2>2. snap \in Snapshots /\ snap.epoch = epoch + 1
    BY BoundsAssumption
       DEF Types, WorldTypes, ScalarTypes, Snapshot, Snapshots
  <2>3. ring' = EpochRing(snap) /\ epoch' = epoch + 1
    BY <1>4 DEF ApplyEpoch
  <2> HIDE DEF snap
  <2>4. \A i \in DOMAIN ring'.snaps : ring'.snaps[i] = snap
    <3>1. /\ EmptyRing(ring.cap) \in [cap : Nat, snaps : Seq(Snapshots)]
          /\ EmptyRing(ring.cap).snaps = <<>>
      BY DEF EmptyRing, Types, RingTypes
    <3> QED
      BY <2>2, <2>3, <3>1, PushProperties DEF EpochRing
  <2> QED
    BY <2>1, <2>2, <2>3, <2>4 DEF NothingOutlivesEpoch
<1>5. ASSUME NEW dt \in Ticks, NEW cap \in Caps, NEW sync \in SyncBatches,
             BeginStep(dt, cap, sync)
      PROVE  NothingOutlivesEpoch'
  <2>1. heap' = <<>> /\ epoch' = epoch /\ canon' = canon
        /\ ring' = [cap |-> cap, snaps |-> Trim(ring.snaps, cap)]
    BY <1>5 DEF BeginStep, SetCap
  <2>2. \A i \in DOMAIN rest' : Stamped(rest'[i][1])
    <3>1. \A k \in DOMAIN rest' :
              \/ \E i \in DOMAIN heap : rest'[k] = heap[i]
              \/ rest'[k][1].kind \notin {"phys", "residency"}
      BY <1>5, SortedBatch
    <3> QED
      BY <3>1 DEF NothingOutlivesEpoch, Stamped
  <2>3. \A i \in DOMAIN Trim(ring.snaps, cap) :
           \E j \in DOMAIN ring.snaps : Trim(ring.snaps, cap)[i] = ring.snaps[j]
    <3>1. ring.snaps \in Seq(Snapshots) /\ cap \in Nat
      BY CapsAssumption DEF Types, RingTypes
    <3> QED
      BY <3>1, TrimProperties
  <2> QED
    BY <2>1, <2>2, <2>3 DEF NothingOutlivesEpoch, Stamped
<1>6. ASSUME AdmitClass
      PROVE  NothingOutlivesEpoch'
  BY <1>6, PassEffect DEF NothingOutlivesEpoch, Stamped
<1>7. ASSUME EndStep
      PROVE  NothingOutlivesEpoch'
  <2>1. UNCHANGED <<epoch, canon, heap, rest>> /\ ring' = Push(ring, Snapshot)
    BY <1>7 DEF EndStep
  <2>2. ring \in [cap : Nat, snaps : Seq(Snapshots)]
    BY DEF Types, RingTypes
  <2>3. Snapshot \in Snapshots /\ Snapshot.epoch = epoch
    BY BoundsAssumption
       DEF Types, WorldTypes, ScalarTypes, Snapshot, Snapshots
  <2>4. \A i \in DOMAIN ring'.snaps :
           \/ ring'.snaps[i] = Snapshot
           \/ \E j \in DOMAIN ring.snaps : ring'.snaps[i] = ring.snaps[j]
    BY <2>1, <2>2, <2>3, PushProperties
  <2>5. \A i \in DOMAIN ring'.snaps : ring'.snaps[i].epoch = epoch
    BY <2>3, <2>4 DEF NothingOutlivesEpoch
  <2> QED
    BY <2>1, <2>5 DEF NothingOutlivesEpoch, Stamped
<1>8. CASE UNCHANGED vars
  BY <1>8 DEF vars, batchVars, NothingOutlivesEpoch, Stamped
<1> QED
  BY <1>1, <1>2, <1>3, <1>4, <1>5, <1>6, <1>7, <1>8 DEF Next, Call, Step

(* K42: no snapshot and no grain from before an epoch is used after it.    *)
THEOREM SpecNothingOutlivesEpoch == Spec => []NothingOutlivesEpoch
<1>1. Init => NothingOutlivesEpoch
  BY DEF Init, NothingOutlivesEpoch, EmptyRing
<1> QED
  BY <1>1, TypesInit, TypesPreserved, EpochPreserved, PTL DEF Spec

-----------------------------------------------------------------------------
(* A relation from l to a locus that is not there was in a snap already.   *)
LedOut(l, to) ==
    LeadsOut(Start, l, to) \/ \E p \in Places : LeadsOut(Catalog[p], l, to)

Fine(l, to) == to # None => l \in rows /\ (to \in rows \/ LedOut(l, to))

(* A row at each start of a relation or of an island.                      *)
RelationsFine ==
    \A l \in Loci : /\ Fine(l, parent[l]) /\ Fine(l, within[l])
                    /\ island[l] # NoIsland => l \in rows

LEMMA FineSaysIt == NoDanglingRelation <=> RelationsFine
<1>1. ASSUME NoDanglingRelation, NEW l \in Loci
      PROVE  /\ Fine(l, parent[l]) /\ Fine(l, within[l])
             /\ island[l] # NoIsland => l \in rows
  <2>1. /\ \A to \in {parent[l], within[l]} \ {None} :
              l \in rows /\ (to \in rows \/ LedOut(l, to))
        /\ island[l] # NoIsland => l \in rows
    BY <1>1, Zenon DEF NoDanglingRelation, LedOut
  <2> QED
    BY <2>1 DEF Fine
<1>2. ASSUME RelationsFine, NEW l \in Loci
      PROVE  /\ \A to \in {parent[l], within[l]} \ {None} :
                   l \in rows /\ (to \in rows \/ LedOut(l, to))
             /\ island[l] # NoIsland => l \in rows
  BY <1>2 DEF RelationsFine, Fine
<1>3. NoDanglingRelation => RelationsFine
  BY <1>1, Zenon DEF RelationsFine
<1>4. RelationsFine => NoDanglingRelation
  BY <1>2, Zenon DEF NoDanglingRelation, LedOut
<1> QED
  BY <1>3, <1>4

(* Only a load or a spawn adds rows and only an evict removes any;         *)
(* relations change there and at a possess, an island id at a pose or a    *)
(* partition.                                                              *)
LEMMA DanglingPreserved ==
    Types /\ RelationsFine /\ [Next]_vars => RelationsFine'
<1> SUFFICES ASSUME Types, RelationsFine, [Next]_vars
             PROVE  RelationsFine'
  OBVIOUS
<1> DEFINE g == rest[1][1]
<1>1. CASE UNCHANGED world
  BY <1>1 DEF RelationsFine, Fine, world
<1>2. ASSUME NEW a \in [Loci -> IslandIds \cup {NoIsland}],
             NEW o \in SUBSET Omits, Partition(a, o)
      PROVE  RelationsFine'
  BY <1>2 DEF Partition, RelationsFine, Fine
<1>3. \/ \E s \in Slots, l \in Loci : BindPlayer(s, l)
      \/ \E h \in Grains, reg \in Regs, held \in 0 .. prefix :
            Ingest(h, reg, held)
      \/ \E c \in Canons, k \in 0 .. 1 : ApplyEpoch(c, k)
      \/ \E dt \in Ticks, cap \in Caps, sync \in SyncBatches :
            BeginStep(dt, cap, sync)
      \/ EndStep
      \/ UNCHANGED vars
      => UNCHANGED world
  BY DEF BindPlayer, Ingest, ApplyEpoch, BeginStep, EndStep, vars
<1>4. ASSUME NEW n \in 1 .. Len(rest),
             \/ AdmitAmbiguous(n) \/ AdmitRefused(n)
             \/ \E k \in 0 .. 1 : AdmitIntent(n, g, k)
      PROVE  UNCHANGED world
  BY <1>4 DEF AdmitAmbiguous, AdmitRefused, AdmitIntent, NoWrite
<1>5. ASSUME NEW n \in 1 .. Len(rest), NEW host \in Loci \cup {None},
             AdmitPossess(n, g, host)
      PROVE  RelationsFine'
  <2>1. /\ Actor(g) \in rows /\ host \in rows \cup {None}
        /\ parent' = [parent EXCEPT ![Actor(g)] = host]
        /\ UNCHANGED <<rows, within, island>>
    BY <1>5 DEF AdmitPossess
  <2>2. parent \in [Loci -> Targets]
    BY DEF Types, WorldTypes
  <2>3. \A l \in Loci : parent'[l] = parent[l] \/ (l = Actor(g) /\ parent'[l] = host)
    BY <2>1, <2>2
  <2> QED
    BY <2>1, <2>3 DEF RelationsFine, Fine
<1>6. ASSUME NEW n \in 1 .. Len(rest), AdmitPose(n, g)
      PROVE  RelationsFine'
  <2>1. g.mover \in rows
    <3>1. ~Refused(g) /\ g.kind \in {"space", "motion"}
      BY <1>6 DEF AdmitPose, Admit
    <3> QED
      BY <3>1 DEF Refused
  <2>2. /\ island' = [island EXCEPT ![g.mover] = g.island]
        /\ UNCHANGED <<rows, within, parent>>
    BY <1>6 DEF AdmitPose
  <2>3. island \in [Loci -> IslandIds \cup {NoIsland}]
    BY DEF Types, WorldTypes
  <2>4. \A l \in Loci : island'[l] = island[l] \/ l = g.mover
    BY <2>2, <2>3
  <2> QED
    BY <2>1, <2>2, <2>4 DEF RelationsFine, Fine
<1>7. ASSUME NEW n \in 1 .. Len(rest), NEW k \in 0 .. 1,
             AdmitIsland(n, g, k)
      PROVE  RelationsFine'
  BY <1>7 DEF AdmitIsland, RelationsFine, Fine
<1>8. ASSUME NEW n \in 1 .. Len(rest), AdmitLoad(n, g)
      PROVE  RelationsFine'
  <2> DEFINE snap == Catalog[g.place]
             S == DOMAIN snap
  <2>1. g.place \in Places
    <3>1. g \in Proposal /\ g.kind = "residency"
      BY <1>8 DEF AdmitLoad, Types, BatchTypes, Entries
    <3> QED
      BY <3>1, Kinds
  <2>2. /\ rows' = rows \cup S
        /\ within' = [l \in Loci |-> IF l \in S THEN snap[l].within ELSE within[l]]
        /\ parent' = [l \in Loci |-> IF l \in S THEN snap[l].parent ELSE parent[l]]
        /\ island' = [l \in Loci |-> IF l \in S THEN snap[l].island ELSE island[l]]
    BY <1>8 DEF AdmitLoad
  <2>3. \A l \in S, to \in Targets :
          to \in {snap[l].parent, snap[l].within} => to \in S \/ LedOut(l, to)
    BY <2>1 DEF LedOut, LeadsOut
  <2>4. \A l \in S : snap[l].parent \in Targets /\ snap[l].within \in Targets
    BY <2>1, CatalogAssumption, LociAssumption DEF IsSnap, Row, Targets
  <2> HIDE DEF S, snap
  <2>5. ASSUME NEW l \in Loci
        PROVE  /\ Fine(l, parent[l])' /\ Fine(l, within[l])'
               /\ island'[l] # NoIsland => l \in rows'
    <3>1. CASE l \in S
      <4>1. parent'[l] = snap[l].parent /\ within'[l] = snap[l].within
        BY <2>2, <3>1
      <4> QED
        BY <2>2, <2>3, <2>4, <3>1, <4>1 DEF Fine
    <3>2. CASE l \notin S
      BY <2>2, <3>2 DEF RelationsFine, Fine
    <3> QED
      BY <3>1, <3>2
  <2> QED
    BY <2>5 DEF RelationsFine
<1>9. ASSUME NEW n \in 1 .. Len(rest), AdmitEvict(n, g)
      PROVE  RelationsFine'
  <2> DEFINE S == Dropped(g.place)
  <2>1. /\ rows' = rows \ S
        /\ within' = Scrub(within, S) /\ parent' = Scrub(parent, S)
        /\ island' = [l \in Loci |-> IF l \in S THEN NoIsland ELSE island[l]]
    BY <1>9 DEF AdmitEvict
  <2> HIDE DEF S
  <2>2. ASSUME NEW l \in Loci
        PROVE  /\ Fine(l, parent[l])' /\ Fine(l, within[l])'
               /\ island'[l] # NoIsland => l \in rows'
    BY <2>1 DEF Scrub, RelationsFine, Fine
  <2> QED
    BY <2>2 DEF RelationsFine
<1>10. ASSUME NEW n \in 1 .. Len(rest), NEW l \in Bodies, NEW p \in Poses,
              AdmitSpawn(n, g, l, p)
       PROVE  RelationsFine'
  <2>1. /\ rows' = rows \cup {l} /\ island' = [island EXCEPT ![l] = 0]
        /\ UNCHANGED <<within, parent>>
    BY <1>10 DEF AdmitSpawn
  <2>2. island \in [Loci -> IslandIds \cup {NoIsland}]
    BY DEF Types, WorldTypes
  <2>3. \A m \in Loci : island'[m] = island[m] \/ m = l
    BY <2>1, <2>2
  <2> QED
    BY <2>1, <2>3 DEF RelationsFine, Fine
<1>11. CASE AdmitClass
  <2>1. PICK n \in 1 .. Len(rest) :
         (AdmitAmbiguous(n) \/ AdmitRefused(n)) \/ AdmitOne(n)
    BY <1>11, LoopCases
  <2> HIDE DEF g
  <2> QED
    BY <2>1, <1>1, <1>4, <1>5, <1>6, <1>7, <1>8, <1>9, <1>10 DEF AdmitOne, g
<1> QED
  BY <1>1, <1>2, <1>3, <1>11 DEF Next, Call, Step

(* However Places are loaded, boarded and evicted: no island id outlives   *)
(* its row, and no relation its ends, but for those a snap was taken with. *)
THEOREM SpecNoDanglingRelation == Spec => []NoDanglingRelation
<1>1. Init => RelationsFine
  <2> SUFFICES ASSUME Init, NEW l \in Loci
               PROVE  /\ Fine(l, parent[l]) /\ Fine(l, within[l])
                      /\ island[l] # NoIsland => l \in rows
    BY DEF RelationsFine
  <2>1. CASE l \in rows
    <3>1. parent[l] = Start[l].parent /\ within[l] = Start[l].within
          /\ rows = DOMAIN Start
      BY <2>1 DEF Init
    <3> QED
      BY <2>1, <3>1 DEF Fine, LedOut, LeadsOut
  <2>2. CASE l \notin rows
    BY <2>2 DEF Init, Fine
  <2> QED
    BY <2>1, <2>2
<1> QED
  BY <1>1, FineSaysIt, TypesInit, TypesPreserved, DanglingPreserved, PTL DEF Spec

-----------------------------------------------------------------------------
(* A caller's prefix is not from the future; what waits in a step was held *)
(* no later than the step began; and once an outcome of the step appended  *)
(* an event, the live prefix is past all of them.                          *)
IsResidency(e) == e[1].kind = "residency"

PrefixInv ==
    /\ \A i \in DOMAIN heap : IsResidency(heap[i]) => heap[i][1].prefix <= prefix
    /\ \A i \in DOMAIN rest : IsResidency(rest[i]) => rest[i][1].prefix <= begun
    /\ begun <= prefix
    /\ \A i \in DOMAIN out : out[i].events # 0 => begun < prefix
    /\ ResidencyOnItsPrefix

(* A pass appends the events of its one outcome, or no outcome has any; a  *)
(* residency is admitted on the live prefix only.                          *)
LEMMA PassPrefix ==
    ASSUME Types, AdmitClass
    PROVE  \E m \in {0, 1} :
             /\ prefix' = prefix + m /\ begun' = begun
             /\ \A i \in DOMAIN out' :
                  \/ i \in DOMAIN out /\ out'[i] = out[i]
                  \/ /\ i \notin DOMAIN out /\ out'[i].events \in {0, m}
                     /\ out'[i].verdict = "admitted" =>
                          /\ i = Len(out) + 1 /\ out'[i].entry = rest[1]
                          /\ IsResidency(rest[1]) => rest[1][1].prefix = prefix
<1>1. PICK n \in 1 .. Len(rest) :
         (AdmitAmbiguous(n) \/ AdmitRefused(n)) \/ AdmitOne(n)
  BY LoopCases
<1>2. CASE AdmitAmbiguous(n) \/ AdmitRefused(n)
  <2>1. PICK r \in Seq(Outcomes) :
          /\ Take(n, r) /\ NoWrite
          /\ \A i \in DOMAIN r : /\ r[i].verdict # "admitted"
                                /\ r[i].riders = {} /\ r[i].events = 0
    BY <1>2, RefusalEffect
  <2>2. \A i \in DOMAIN out' :
           \/ i \in DOMAIN out /\ out'[i] = out[i]
           \/ /\ i \notin DOMAIN out /\ i - Len(out) \in DOMAIN r
              /\ out'[i] = r[i - Len(out)]
    BY <2>1, TakeEffect
  <2>3. prefix' = prefix /\ begun' = begun /\ prefix \in Nat
    BY <2>1 DEF Take, NoWrite, Types, ScalarTypes
  <2>4. \A i \in DOMAIN out' :
           \/ i \in DOMAIN out /\ out'[i] = out[i]
           \/ /\ i \notin DOMAIN out /\ out'[i].events = 0
              /\ out'[i].verdict # "admitted"
    BY <2>1, <2>2
  <2>5. prefix' = prefix + 0
    BY <2>3
  <2> QED
    BY <2>3, <2>4, <2>5
<1>3. CASE AdmitOne(n)
  <2>1. PICK seen \in SUBSET Snapshots, riders \in SUBSET Loci, m \in {0, 1} :
          Admit(n, seen, riders, m)
    BY <1>3, WriteSet
  <2> DEFINE o == Outcome(rest[1], "admitted", seen, riders, m)
  <2>2. /\ ~Refused(rest[1][1]) /\ prefix' = prefix + m /\ begun' = begun
        /\ \A i \in DOMAIN out' :
             \/ i \in DOMAIN out /\ out'[i] = out[i]
             \/ i = Len(out) + 1 /\ out'[i] = o
    <3>1. ~Refused(rest[1][1]) /\ prefix' = prefix + m /\ begun' = begun
      BY <2>1, AdmitEffect
    <3>2. OneMore(o)
      BY <2>1, AdmitEffect
    <3> QED
      BY <3>1, <3>2 DEF OneMore
  <2>3. o.events = m /\ o.entry = rest[1]
    BY DEF Outcome
  <2>4. IsResidency(rest[1]) => rest[1][1].prefix = prefix
    BY <2>2 DEF Refused, PlaceRefused, IsResidency
  <2>5. Len(out) \in Nat /\ DOMAIN out = 1 .. Len(out)
    BY DEF Types, BatchTypes
  <2>6. Len(out) + 1 \notin DOMAIN out
    BY <2>5
  <2> HIDE DEF o
  <2> QED
    BY <2>2, <2>3, <2>4, <2>6
<1> QED
  BY <1>1, <1>2, <1>3

(* The prefix an admitted residency was decided on is the live one, hence  *)
(* the one the step began on, and nothing was appended in between.         *)
LEMMA PrefixPreserved == Types /\ PrefixInv /\ [Next]_vars => PrefixInv'
<1> SUFFICES ASSUME Types, PrefixInv, [Next]_vars
             PROVE  PrefixInv'
  OBVIOUS
<1>1. /\ prefix \in Nat /\ begun \in Nat
      /\ heap \in Seq(Entries) /\ rest \in Seq(Entries)
      /\ out \in Seq(Outcomes)
  BY DEF Types, ScalarTypes, BatchTypes
<1>2. \A e \in Entries : IsResidency(e) => e[1].prefix \in Nat
  BY Kinds DEF Entries, IsResidency
<1>3. ASSUME NEW s \in Slots, NEW l \in Loci, BindPlayer(s, l)
      PROVE  PrefixInv'
  BY <1>3 DEF BindPlayer, PrefixInv, ResidencyOnItsPrefix, batchVars
<1>4. ASSUME NEW h \in Grains, NEW reg \in Regs, NEW held \in 0 .. prefix,
             Ingest(h, reg, held)
      PROVE  PrefixInv'
  <2> DEFINE e == <<Stamp(h, held), reg>>
  <2>1. IsResidency(e) => e[1].prefix <= prefix
    <3>1. held <= prefix
      BY <1>1
    <3>2. IsResidency(e) => e[1].prefix = held
      BY DEF IsResidency, Stamp
    <3> QED
      BY <3>1, <3>2
  <2>2. heap' = Append(heap, e) /\ UNCHANGED <<prefix, begun, rest, out>>
    BY <1>4 DEF Ingest, batchVars
  <2>3. e \in Entries
    BY StampType, GrainsAssumption DEF Entries
  <2> HIDE DEF e
  <2>4. \A i \in DOMAIN heap' :
           heap'[i] = e \/ (i \in DOMAIN heap /\ heap'[i] = heap[i])
    <3>1. heap \in Seq(Entries) /\ heap' = Append(heap, e)
      BY <1>1, <2>2
    <3> QED
      BY <2>3, <3>1, AppendProperties
  <2>5. \A i \in DOMAIN heap' :
           IsResidency(heap'[i]) => heap'[i][1].prefix <= prefix
    BY <1>1, <2>1, <2>4 DEF PrefixInv
  <2> QED
    BY <2>2, <2>5 DEF PrefixInv, ResidencyOnItsPrefix, IsResidency
<1>5. ASSUME NEW a \in [Loci -> IslandIds \cup {NoIsland}],
             NEW o \in SUBSET Omits, Partition(a, o)
      PROVE  PrefixInv'
  BY <1>5 DEF Partition, PrefixInv, ResidencyOnItsPrefix, batchVars
<1>6. ASSUME NEW c \in Canons, NEW k \in 0 .. 1, ApplyEpoch(c, k)
      PROVE  PrefixInv'
  <2>1. heap' = <<>> /\ rest' = <<>> /\ out' = <<>> /\ begun' = begun
        /\ prefix' = prefix + k
    BY <1>6 DEF ApplyEpoch, Emit, HeapAfterEpoch, batchVars, Types, BatchTypes
  <2>2. begun' <= prefix'
    BY <1>1, <2>1 DEF PrefixInv
  <2> QED
    BY <2>1, <2>2 DEF PrefixInv, ResidencyOnItsPrefix
<1>7. ASSUME NEW dt \in Ticks, NEW cap \in Caps, NEW sync \in SyncBatches,
             BeginStep(dt, cap, sync)
      PROVE  PrefixInv'
  <2>1. heap' = <<>> /\ out' = <<>> /\ prefix' = prefix /\ begun' = prefix
    BY <1>7 DEF BeginStep
  <2>2. \A k \in DOMAIN rest' :
              \/ \E i \in DOMAIN heap : rest'[k] = heap[i]
              \/ rest'[k][1].kind \notin {"phys", "residency"}
    BY <1>7, SortedBatch
  <2>3. \A k \in DOMAIN rest' :
           IsResidency(rest'[k]) => rest'[k][1].prefix <= prefix
    BY <2>2 DEF PrefixInv, IsResidency
  <2> QED
    BY <1>1, <2>1, <2>3 DEF PrefixInv, ResidencyOnItsPrefix
<1>8. ASSUME AdmitClass
      PROVE  PrefixInv'
  <2>1. PICK m \in {0, 1} :
             /\ prefix' = prefix + m /\ begun' = begun
             /\ \A i \in DOMAIN out' :
                  \/ i \in DOMAIN out /\ out'[i] = out[i]
                  \/ /\ i \notin DOMAIN out /\ out'[i].events \in {0, m}
                     /\ out'[i].verdict = "admitted" =>
                          /\ i = Len(out) + 1 /\ out'[i].entry = rest[1]
                          /\ IsResidency(rest[1]) => rest[1][1].prefix = prefix
    BY <1>8, PassPrefix
  <2>2. /\ heap' = heap /\ phase = "admit"
        /\ \A i \in DOMAIN rest' : \E j \in DOMAIN rest : rest'[i] = rest[j]
    BY <1>8, PassEffect
  <2>3. \A i \in DOMAIN heap :
           IsResidency(heap[i]) => heap[i][1].prefix <= prefix'
    <3>1. \A i \in DOMAIN heap :
             IsResidency(heap[i]) => heap[i][1].prefix \in Nat
      BY <1>1, <1>2
    <3> QED
      BY <1>1, <2>1, <3>1 DEF PrefixInv
  <2>4. \A i \in DOMAIN rest' :
           IsResidency(rest'[i]) => rest'[i][1].prefix <= begun'
    BY <2>1, <2>2 DEF PrefixInv
  <2>5. begun' <= prefix'
    BY <1>1, <2>1 DEF PrefixInv
  <2>6. \A i \in DOMAIN out : out[i].events # 0 => begun < prefix
    BY DEF PrefixInv
  <2>7. begun <= prefix
    BY DEF PrefixInv
  <2>8. \A i \in DOMAIN out' : out'[i].events # 0 => begun' < prefix'
    BY <1>1, <2>1, <2>6, <2>7
  <2>9. Len(out) \in Nat /\ DOMAIN out = 1 .. Len(out)
    BY <1>1
  <2>10. out' \in Seq(Outcomes) /\ DOMAIN out' = 1 .. Len(out') /\ Len(out') \in Nat
    BY TypesPreserved DEF Types, BatchTypes
  <2>11. ASSUME NEW i \in DOMAIN out', out'[i].verdict = "admitted",
                out'[i].entry[1].kind = "residency"
         PROVE  /\ out'[i].entry[1].prefix = begun
                /\ \A j \in 1 .. i - 1 : out'[j].events = 0
    <3>1. CASE i \in DOMAIN out /\ out'[i] = out[i]
      <4>1. /\ out[i].entry[1].prefix = begun
            /\ \A j \in 1 .. i - 1 : out[j].events = 0
        BY <2>11, <3>1 DEF PrefixInv, ResidencyOnItsPrefix
      <4>2. \A j \in 1 .. i - 1 : j \in DOMAIN out' /\ j \in DOMAIN out
        BY <2>9, <2>10, <3>1
      <4> QED
        BY <2>1, <3>1, <4>1, <4>2
    <3>2. CASE i \notin DOMAIN out
      <4>1. /\ i = Len(out) + 1 /\ out'[i].entry = rest[1]
            /\ IsResidency(rest[1]) /\ rest[1][1].prefix = prefix
        BY <2>1, <2>11, <3>2 DEF IsResidency
      <4>2. rest[1][1].prefix <= begun
        <5>1. 1 \in DOMAIN rest
          BY <1>1, <1>8 DEF AdmitClass
        <5> QED
          BY <4>1, <5>1 DEF PrefixInv
      <4>3. prefix = begun
        BY <1>1, <2>7, <4>1, <4>2
      <4>4. \A j \in 1 .. i - 1 : j \in DOMAIN out' /\ j \in DOMAIN out
        BY <2>9, <2>10, <4>1
      <4>5. \A j \in DOMAIN out : out[j].events = 0
        BY <1>1, <2>6, <4>3
      <4> QED
        BY <2>1, <4>1, <4>3, <4>4, <4>5
    <3> QED
      BY <2>1, <3>1, <3>2
  <2>12. ResidencyOnItsPrefix'
    BY <2>1, <2>11 DEF ResidencyOnItsPrefix
  <2> QED
    BY <2>2, <2>3, <2>4, <2>5, <2>8, <2>12 DEF PrefixInv, IsResidency
<1>9. ASSUME EndStep
      PROVE  PrefixInv'
  <2>1. heap' = heap /\ rest' = <<>> /\ rest = <<>> /\ out' = <<>> /\ begun' = 0
    BY <1>9 DEF EndStep
  <2>2. PICK k \in Nat : prefix' = prefix + k
    BY <1>9, EndEmits
  <2>3. \A i \in DOMAIN heap : IsResidency(heap[i]) =>
           heap[i][1].prefix \in Nat /\ heap[i][1].prefix <= prefix
    BY <1>1, <1>2 DEF PrefixInv
  <2>4. \A i \in DOMAIN heap :
           IsResidency(heap[i]) => heap[i][1].prefix <= prefix'
    BY <1>1, <2>2, <2>3
  <2>5. begun' <= prefix'
    BY <1>1, <2>1, <2>2
  <2> QED
    BY <2>1, <2>4, <2>5 DEF PrefixInv, ResidencyOnItsPrefix
<1>10. CASE UNCHANGED vars
  BY <1>10 DEF vars, batchVars, PrefixInv, ResidencyOnItsPrefix, IsResidency
<1> QED
  BY <1>3, <1>4, <1>5, <1>6, <1>7, <1>8, <1>9, <1>10 DEF Next, Call, Step

(* K60: a residency is admitted on the prefix its caller held, with no     *)
(* event between, neither before the step nor in it.                       *)
THEOREM SpecResidencyOnItsPrefix == Spec => []ResidencyOnItsPrefix
<1>1. Init => PrefixInv
  BY DEF Init, PrefixInv, ResidencyOnItsPrefix
<1>2. PrefixInv => ResidencyOnItsPrefix
  BY DEF PrefixInv
<1> QED
  BY <1>1, <1>2, TypesInit, TypesPreserved, PrefixPreserved, PTL DEF Spec

-----------------------------------------------------------------------------
(* The ring is the newest part of what was published in this epoch, in     *)
(* strictly increasing ticks: a published snapshot that is not older than  *)
(* one in the ring is in the ring.                                         *)
Newest(q, all) ==
    /\ \A i, j \in DOMAIN q : i < j => q[i].tick < q[j].tick
    /\ \A i \in DOMAIN q : q[i] \in all
    /\ \A p \in all, i \in DOMAIN q :
          p.tick >= q[i].tick => \E j \in DOMAIN q : q[j] = p

RingInv ==
    /\ Newest(ring.snaps, published)
    /\ published \in SUBSET Snapshots
    /\ \A p \in published : p.tick <= tick /\ (phase = "admit" => p.tick < tick)

(* trim drops the oldest, so what is left is the newest part again.        *)
LEMMA TrimNewestPart ==
    ASSUME NEW q \in Seq(Snapshots), NEW cap \in Nat, NEW all,
           all \in SUBSET Snapshots, Newest(q, all)
    PROVE  Newest(Trim(q, cap), all)
<1> DEFINE t == Trim(q, cap)
<1>1. t \in Seq(Snapshots) /\ Len(q) \in Nat
  BY TrimProperties
<1>2. PICK off \in Nat : /\ Len(t) + off = Len(q)
                         /\ \A i \in DOMAIN t : t[i] = q[i + off]
  BY TrimProperties
<1> HIDE DEF t
<1>3. DOMAIN t = 1 .. Len(t) /\ DOMAIN q = 1 .. Len(q) /\ Len(t) \in Nat
  BY <1>1
<1>4. \A i \in DOMAIN t : i + off \in DOMAIN q
  BY <1>1, <1>2, <1>3
<1>5. \A i, j \in DOMAIN t : i < j => t[i].tick < t[j].tick
  <2>1. TAKE i, j \in DOMAIN t
  <2>2. HAVE i < j
  <2>3. i + off < j + off
    BY <1>2, <1>3, <2>2
  <2> QED
    BY <1>2, <1>4, <2>3 DEF Newest
<1>6. \A i \in DOMAIN t : t[i] \in all
  BY <1>2, <1>4 DEF Newest
<1>7. ASSUME NEW p \in all, NEW i \in DOMAIN t, p.tick >= t[i].tick
      PROVE  \E j \in DOMAIN t : t[j] = p
  <2>1. i + off \in DOMAIN q /\ p.tick >= q[i + off].tick
    BY <1>2, <1>4, <1>7
  <2>2. PICK j \in DOMAIN q : q[j] = p
    BY <2>1 DEF Newest
  <2>3. \A e \in Snapshots : e.tick \in Nat
    BY DEF Snapshots
  <2>4. p.tick \in Nat /\ q[i + off].tick \in Nat
    BY <2>1, <2>3
  <2>5. ~(j < i + off)
    BY <2>1, <2>2, <2>4 DEF Newest
  <2>6. j - off \in DOMAIN t
    BY <1>2, <1>3, <2>1, <2>5
  <2>7. j - off + off = j
    BY <1>2, <1>3
  <2> QED
    BY <1>2, <2>2, <2>6, <2>7
<1> QED
  BY <1>5, <1>6, <1>7 DEF Newest, t

(* A snapshot newer than all others extends both.                          *)
LEMMA PushNewest ==
    ASSUME NEW r \in [cap : Nat, snaps : Seq(Snapshots)], NEW s \in Snapshots,
           NEW all, all \in SUBSET Snapshots, Newest(r.snaps, all),
           \A p \in all : p.tick < s.tick
    PROVE  Newest(Push(r, s).snaps, all \cup {s})
<1> DEFINE q == Append(r.snaps, s)
<1>1. r.snaps \in Seq(Snapshots) /\ r.cap \in Nat
  OBVIOUS
<1>2. /\ q \in Seq(Snapshots) /\ Len(q) = Len(r.snaps) + 1
      /\ \A i \in 1 .. Len(r.snaps) : q[i] = r.snaps[i]
      /\ q[Len(r.snaps) + 1] = s
  BY <1>1, AppendProperties
<1> HIDE DEF q
<1> DEFINE m == Len(r.snaps)
<1>3. m \in Nat /\ DOMAIN q = 1 .. m + 1 /\ DOMAIN r.snaps = 1 .. m
  BY <1>1, <1>2
<1>4. /\ \A i, j \in 1 .. m : i < j => r.snaps[i].tick < r.snaps[j].tick
      /\ \A i \in 1 .. m : r.snaps[i] \in all
      /\ \A p \in all, i \in 1 .. m :
            p.tick >= r.snaps[i].tick => \E j \in 1 .. m : r.snaps[j] = p
  BY <1>3 DEF Newest
<1>5. /\ \A i \in 1 .. m : q[i] = r.snaps[i]
      /\ q[m + 1] = s
      /\ \A i \in DOMAIN q : i \in 1 .. m \/ i = m + 1
  BY <1>2, <1>3
<1> HIDE DEF m
<1>6. \A i, j \in DOMAIN q : i < j => q[i].tick < q[j].tick
  <2>1. TAKE i, j \in DOMAIN q
  <2>2. HAVE i < j
  <2>3. i \in 1 .. m
    BY <1>3, <2>2
  <2>4. CASE j \in 1 .. m
    BY <1>4, <1>5, <2>2, <2>3, <2>4
  <2>5. CASE j = m + 1
    BY <1>4, <1>5, <2>3, <2>5
  <2> QED
    BY <1>5, <2>4, <2>5
<1>7. \A i \in DOMAIN q : q[i] \in all \cup {s}
  BY <1>4, <1>5
<1>8. ASSUME NEW p \in all \cup {s}, NEW i \in DOMAIN q, p.tick >= q[i].tick
      PROVE  \E j \in DOMAIN q : q[j] = p
  <2>1. m + 1 \in DOMAIN q
    BY <1>3
  <2>2. CASE p = s
    BY <1>5, <2>1, <2>2
  <2>3. CASE p \in all
    <3>1. p.tick < s.tick /\ p.tick \in Nat /\ s.tick \in Nat
      BY <2>3 DEF Snapshots
    <3>2. i \in 1 .. m
      BY <1>5, <1>8, <3>1
    <3>3. PICK j \in 1 .. m : r.snaps[j] = p
      BY <1>4, <1>5, <1>8, <2>3, <3>2
    <3>4. j \in DOMAIN q
      BY <1>3, <3>3
    <3> QED
      BY <1>5, <3>3, <3>4
  <2> QED
    BY <2>2, <2>3
<1>9. Newest(q, all \cup {s})
  BY <1>6, <1>7, <1>8 DEF Newest
<1>10. Newest(Trim(q, r.cap), all \cup {s})
  BY <1>1, <1>2, <1>9, TrimNewestPart
<1>11. CASE r.cap = 0
  <2>1. Push(r, s) = [r EXCEPT !.snaps = <<>>]
    BY <1>11 DEF Push
  <2>2. Push(r, s).snaps = <<>>
    BY <2>1
  <2> QED
    BY <2>2 DEF Newest
<1>12. CASE r.cap # 0
  <2>1. Push(r, s) = [r EXCEPT !.snaps = Trim(q, r.cap)]
    BY <1>12 DEF Push, q
  <2>2. Push(r, s).snaps = Trim(q, r.cap)
    BY <2>1
  <2> QED
    BY <2>2, <1>10
<1> QED
  BY <1>11, <1>12

IsNewest(s, all, cap, now, at) ==
    /\ s \in all /\ s.tick <= at /\ s.tick + cap >= now
    /\ \A p \in all : p.tick \in s.tick .. at => p = s

(* What lookup finds in such a ring is the newest published snapshot at or *)
(* before the tick asked for, inside the window.                           *)
LEMMA LookupNewest ==
    ASSUME NEW r \in [cap : Nat, snaps : Seq(Snapshots)], NEW all,
           all \in SUBSET Snapshots, Newest(r.snaps, all),
           NEW now \in Nat, NEW at \in Nat, NEW s \in Lookup(r, now, at)
    PROVE  IsNewest(s, all, r.cap, now, at)
<1> DEFINE lo == IF now >= r.cap THEN now - r.cap ELSE 0
           exact == {i \in DOMAIN r.snaps : r.snaps[i].tick = at}
           found == Candidates(r, lo, at)
<1>1. /\ r.snaps \in Seq(Snapshots) /\ r.cap \in Nat /\ Len(r.snaps) \in Nat
      /\ DOMAIN r.snaps = 1 .. Len(r.snaps)
      /\ \A i \in DOMAIN r.snaps :
            r.snaps[i] \in Snapshots /\ r.snaps[i].tick \in Nat
  <2>1. r.snaps \in Seq(Snapshots) /\ r.cap \in Nat
    OBVIOUS
  <2>2. \A e \in Snapshots : e.tick \in Nat
    BY DEF Snapshots
  <2> QED
    BY <2>1, <2>2
<1>2. /\ ~(at < lo)
      /\ \/ exact # {} /\ s = r.snaps[Min(exact)]
         \/ found # {} /\ s = r.snaps[Max(found)]
  BY Zenon DEF Lookup
<1>3. lo \in Nat /\ lo + r.cap >= now /\ at >= lo
  BY <1>1, <1>2
<1>4. ASSUME NEW p \in all PROVE p.tick \in Nat
  BY DEF Snapshots
<1>5. CASE exact # {} /\ s = r.snaps[Min(exact)]
  <2>1. exact \subseteq Nat
    BY <1>1
  <2>2. Min(exact) \in exact
    <3> HIDE DEF exact
    <3> QED
      BY <1>5, <2>1, NatMin
  <2>3. PICK k \in DOMAIN r.snaps : s = r.snaps[k] /\ s.tick = at
    BY <1>5, <2>2
  <2>4. s \in all
    BY <2>3 DEF Newest
  <2>5. ASSUME NEW p \in all, p.tick \in s.tick .. at
        PROVE  p = s
    <3>1. p.tick = at
      BY <1>4, <2>3, <2>5
    <3>2. PICK j \in DOMAIN r.snaps : r.snaps[j] = p
      BY <1>1, <2>3, <3>1 DEF Newest
    <3>3. ~(j < k) /\ ~(k < j)
      BY <1>1, <2>3, <3>1, <3>2 DEF Newest
    <3>4. j = k
      BY <1>1, <3>3
    <3> QED
      BY <2>3, <3>2, <3>4
  <2>6. s.tick <= at /\ s.tick + r.cap >= now
    BY <1>1, <1>3, <2>3
  <2> QED
    BY <2>4, <2>5, <2>6 DEF IsNewest
<1>6. CASE found # {} /\ s = r.snaps[Max(found)]
  <2>1. found \subseteq 1 .. Len(r.snaps)
    BY <1>1 DEF Candidates
  <2>2. Max(found) \in found /\ \A y \in found : y <= Max(found)
    <3> HIDE DEF found
    <3> QED
      BY <1>1, <1>6, <2>1, NatMax
  <2>3. PICK k \in found : s = r.snaps[k] /\ \A y \in found : y <= k
    BY <1>6, <2>2
  <2>4. k \in DOMAIN r.snaps /\ s.tick \in lo .. at /\ s.tick \in Nat
    BY <1>1, <2>3 DEF Candidates
  <2>5. s \in all
    BY <2>3, <2>4 DEF Newest
  <2>6. ASSUME NEW p \in all, p.tick \in s.tick .. at
        PROVE  p = s
    <3>1. p.tick \in Nat /\ p.tick >= s.tick /\ p.tick <= at
      BY <1>4, <2>4, <2>6
    <3>2. PICK j \in DOMAIN r.snaps : r.snaps[j] = p
      BY <2>3, <2>4, <3>1 DEF Newest
    <3>3. j \in found
      BY <1>3, <2>4, <3>1, <3>2 DEF Candidates
    <3>4. j <= k
      BY <2>3, <3>3
    <3>5. ~(j < k)
      BY <1>1, <2>3, <2>4, <3>1, <3>2 DEF Newest
    <3>6. j = k
      BY <1>1, <2>4, <3>4, <3>5
    <3> QED
      BY <2>3, <3>2, <3>6
  <2>7. s.tick <= at /\ s.tick + r.cap >= now
    BY <1>1, <1>3, <2>4
  <2> QED
    BY <2>5, <2>6, <2>7 DEF IsNewest
<1> QED
  BY <1>2, <1>5, <1>6

(* Only a Fire under rewind is judged on another world.                    *)
LEMMA SeenIs ==
    ASSUME Types, NEW n \in 1 .. Len(rest), AdmitOne(n)
    PROVE  \E seen \in SUBSET Snapshots, riders \in SUBSET Loci,
             m \in {0, 1} :
             /\ Admit(n, seen, riders, m)
             /\ seen = {} \/ (rest[1][1].kind = "player"
                              /\ seen = Seen(rest[1][1]))
<1> DEFINE g == rest[1][1]
<1>1. ASSUME \/ \E k \in 0 .. 1 : AdmitIntent(n, g, k)
             \/ \E l \in Bodies, p \in Poses : AdmitSpawn(n, g, l, p)
      PROVE  \E m \in {0, 1} :
                Admit(n, IF Rewinds(g) THEN Seen(g) ELSE {}, {}, m)
  BY <1>1 DEF AdmitIntent, AdmitSpawn
<1>2. g \in Proposal
  BY DEF Types, BatchTypes, Entries
<1>3. Rewinds(g) => g.kind = "player" /\ Seen(g) \in SUBSET Snapshots
  BY <1>2, SeenType DEF Rewinds
<1>4. Riders(g) \in SUBSET Loci
  BY DEF Riders, Attached, Types, WorldTypes
<1>5. ASSUME NEW host \in Loci \cup {None}, AdmitPossess(n, g, host)
      PROVE  Admit(n, {}, {}, 1)
  BY <1>5 DEF AdmitPossess
<1>6. AdmitPose(n, g) \/ AdmitLoad(n, g) \/ AdmitEvict(n, g) =>
         \E m \in {0, 1} : Admit(n, {}, {}, m)
  BY DEF AdmitPose, AdmitLoad, AdmitEvict
<1>7. ASSUME NEW k \in 0 .. 1, AdmitIsland(n, g, k)
      PROVE  Admit(n, {}, Riders(g), k)
  BY <1>7 DEF AdmitIsland
<1> DEFINE Goal == \E seen \in SUBSET Snapshots, riders \in SUBSET Loci,
                      m \in {0, 1} :
             /\ Admit(n, seen, riders, m)
             /\ seen = {} \/ (g.kind = "player" /\ seen = Seen(g))
<1>8. ASSUME NEW riders \in SUBSET Loci, NEW m \in {0, 1},
             Admit(n, {}, riders, m)
      PROVE  Goal
  BY <1>8
<1>9. ASSUME \/ \E k \in 0 .. 1 : AdmitIntent(n, g, k)
             \/ \E l \in Bodies, p \in Poses : AdmitSpawn(n, g, l, p)
      PROVE  Goal
  <2>1. CASE Rewinds(g)
    BY <1>1, <1>3, <1>9, <2>1
  <2>2. CASE ~Rewinds(g)
    BY <1>1, <1>8, <1>9, <2>2
  <2> QED
    BY <2>1, <2>2
<1> HIDE DEF Goal
<1>10. Goal
  BY <1>4, <1>5, <1>6, <1>7, <1>8, <1>9 DEF AdmitOne
<1> QED
  BY <1>10 DEF Goal

(* The ring holds every snapshot of the epoch that a lookup can reach, so  *)
(* what rewind_hitscan finds is the newest one published.                  *)
LEMMA RewindPreserved ==
    Types /\ RingInv /\ RewoundToNewest /\ [Next]_vars
        => RingInv' /\ RewoundToNewest'
<1> SUFFICES ASSUME Types, RingInv, RewoundToNewest, [Next]_vars
             PROVE  RingInv' /\ RewoundToNewest'
  OBVIOUS
<1>1. /\ ring \in [cap : Nat, snaps : Seq(Snapshots)]
      /\ ring.snaps \in Seq(Snapshots) /\ ring.cap \in Nat
      /\ tick \in Nat /\ epoch \in Nat /\ pose \in [Loci -> Poses]
      /\ Snapshot \in Snapshots /\ Snapshot.tick = tick
      /\ out \in Seq(Outcomes) /\ rest \in Seq(Entries)
  BY BoundsAssumption DEF Types, RingTypes, BatchTypes, ScalarTypes,
     WorldTypes, Snapshot, Snapshots
<1>2. CASE \/ \E s \in Slots, l \in Loci : BindPlayer(s, l)
           \/ \E h \in Grains, reg \in Regs, held \in 0 .. prefix :
                Ingest(h, reg, held)
           \/ \E a \in [Loci -> IslandIds \cup {NoIsland}], o \in SUBSET Omits :
                Partition(a, o)
           \/ UNCHANGED vars
  <2>1. UNCHANGED <<phase, tick, ring, published, out>>
    BY <1>2 DEF BindPlayer, Ingest, Partition, vars, batchVars
  <2> QED
    BY <2>1 DEF RingInv, Newest, RewoundToNewest
<1>3. ASSUME NEW c \in Canons, NEW k \in 0 .. 1, ApplyEpoch(c, k)
      PROVE  RingInv' /\ RewoundToNewest'
  <2> DEFINE snap == [Snapshot EXCEPT !.epoch = epoch + 1]
             r == EmptyRing(ring.cap)
  <2>1. snap \in Snapshots /\ snap.tick = tick
    BY <1>1 DEF Snapshot, Snapshots
  <2>2. /\ ring' = Push(r, snap) /\ published' = {snap}
        /\ tick' = tick /\ phase' = "idle" /\ out' = <<>>
    BY <1>3 DEF ApplyEpoch, EpochRing, batchVars, Types, BatchTypes
  <2>3. /\ r \in [cap : Nat, snaps : Seq(Snapshots)] /\ r.snaps = <<>>
        /\ Newest(r.snaps, {})
    BY <1>1 DEF EmptyRing, Newest
  <2> HIDE DEF snap, r
  <2>4. Newest(Push(r, snap).snaps, {} \cup {snap})
    BY <2>1, <2>3, PushNewest
  <2>5. Newest(ring'.snaps, published')
    BY <2>2, <2>4
  <2> QED
    BY <1>1, <2>1, <2>2, <2>5 DEF RingInv, Newest, RewoundToNewest
<1>4. ASSUME NEW dt \in Ticks, NEW cap \in Caps, NEW sync \in SyncBatches,
             BeginStep(dt, cap, sync)
      PROVE  RingInv' /\ RewoundToNewest'
  <2>1. /\ ring' = [cap |-> cap, snaps |-> Trim(ring.snaps, cap)]
        /\ published' = published /\ tick' = tick + dt /\ out' = <<>>
    BY <1>4 DEF BeginStep, SetCap
  <2>2. cap \in Nat /\ dt \in Nat /\ dt > 0
    BY CapsAssumption
  <2>3. Newest(Trim(ring.snaps, cap), published)
    BY <1>1, <2>2, TrimNewestPart DEF RingInv
  <2>4. Newest(ring'.snaps, published')
    BY <2>1, <2>3
  <2>5. \A p \in published : p.tick \in Nat /\ p.tick <= tick
    BY DEF RingInv, Snapshots
  <2>6. \A p \in published : p.tick < tick + dt
    BY <1>1, <2>2, <2>5
  <2>7. RingInv'
    BY <2>1, <2>4, <2>6, <2>5, <1>1, <2>2 DEF RingInv, Newest
  <2> QED
    BY <2>1, <2>7 DEF RewoundToNewest
<1>5. ASSUME AdmitClass
      PROVE  RingInv' /\ RewoundToNewest'
  <2>1. phase = "admit" /\ phase' = "admit"
        /\ UNCHANGED <<tick, ring, published>>
    BY <1>5, PassEffect
  <2>2. RingInv'
    BY <2>1 DEF RingInv, Newest
  <2> DEFINE Good(o) ==
        LET g == o.entry[1] IN
        o.verdict = "admitted" /\ g.kind = "player" /\ o.seen # {} =>
            \E s \in o.seen :
                \/ s.tick = tick /\ g.at >= tick
                \/ /\ s \in published
                   /\ s.tick <= g.at /\ s.tick + ring.cap >= tick
                   /\ \A p \in published : p.tick \in s.tick .. g.at => p = s
  <2>3. \A i \in DOMAIN out : Good(out[i])
    BY DEF RewoundToNewest
  <2>4. PICK n \in 1 .. Len(rest) :
          (AdmitAmbiguous(n) \/ AdmitRefused(n)) \/ AdmitOne(n)
    BY <1>5, LoopCases
  <2>5. CASE AdmitAmbiguous(n) \/ AdmitRefused(n)
    <3>1. PICK r \in Seq(Outcomes) :
          /\ Take(n, r) /\ NoWrite
          /\ \A i \in DOMAIN r : /\ r[i].verdict # "admitted"
                                /\ r[i].riders = {} /\ r[i].events = 0
      BY <2>5, RefusalEffect
    <3>2. \A i \in DOMAIN out' :
             \/ i \in DOMAIN out /\ out'[i] = out[i]
             \/ /\ i \notin DOMAIN out /\ i - Len(out) \in DOMAIN r
                /\ out'[i] = r[i - Len(out)]
      BY <3>1, TakeEffect
    <3>3. \A i \in DOMAIN out' :
             (i \in DOMAIN out /\ out'[i] = out[i]) \/ out'[i].verdict # "admitted"
      BY <3>1, <3>2
    <3>4. \A i \in DOMAIN out' : Good(out'[i])
      BY <2>3, <3>3
    <3> QED
      BY <2>1, <2>2, <3>4 DEF RewoundToNewest
  <2>6. CASE AdmitOne(n)
    <3>1. PICK seen \in SUBSET Snapshots, riders \in SUBSET Loci,
             m \in {0, 1} :
             /\ Admit(n, seen, riders, m)
             /\ seen = {} \/ (rest[1][1].kind = "player"
                              /\ seen = Seen(rest[1][1]))
      BY <2>6, SeenIs
    <3>2. /\ rest[1][1] \in Proposal
          /\ \A i \in DOMAIN out' :
               \/ i \in DOMAIN out /\ out'[i] = out[i]
               \/ /\ i = Len(out) + 1
                  /\ out'[i] = Outcome(rest[1], "admitted", seen, riders, m)
      <4>1. /\ rest[1][1] \in Proposal
            /\ OneMore(Outcome(rest[1], "admitted", seen, riders, m))
        BY <3>1, AdmitEffect
      <4> QED
        BY <4>1 DEF OneMore
    <3> DEFINE o == Outcome(rest[1], "admitted", seen, riders, m)
               g == rest[1][1]
    <3>3. Good(o)
      <4>1. o.entry = rest[1] /\ o.seen = seen
        BY DEF Outcome
      <4>2. CASE seen = {}
        BY <4>1, <4>2
      <4>3. CASE seen # {}
        <5>1. g.kind = "player" /\ seen = Seen(g) /\ g.at \in Nat
          BY <3>1, <3>2, <4>3, Kinds
        <5>2. PICK s \in seen : TRUE
          BY <4>3
        <5>3. CASE Age(g) = 0
          <6>1. s = Snapshot
            BY <5>1, <5>2, <5>3 DEF Seen
          <6>2. s.tick = tick /\ g.at >= tick
            BY <1>1, <5>1, <5>3, <6>1 DEF Age
          <6> QED
            BY <4>1, <5>2, <6>2
        <5>4. CASE Age(g) # 0
          <6>1. s \in Lookup(ring, tick, g.at)
            BY <5>1, <5>2, <5>4 DEF Seen
          <6>2. IsNewest(s, published, ring.cap, tick, g.at)
            <7>1. Newest(ring.snaps, published) /\ published \in SUBSET Snapshots
              BY DEF RingInv
            <7>2. g.at \in Nat
              BY <5>1
            <7> HIDE DEF g
            <7> QED
              BY <1>1, <6>1, <7>1, <7>2, LookupNewest
          <6> QED
            BY <4>1, <5>2, <6>2 DEF IsNewest
        <5> QED
          BY <5>3, <5>4
      <4> QED
        BY <4>2, <4>3
    <3> HIDE DEF o, Good
    <3>4. \A i \in DOMAIN out' : Good(out'[i])
      BY <2>3, <3>2, <3>3 DEF o
    <3> QED
      BY <2>1, <2>2, <3>4 DEF RewoundToNewest, Good
  <2> QED
    BY <2>4, <2>5, <2>6
<1>6. ASSUME EndStep
      PROVE  RingInv' /\ RewoundToNewest'
  <2>1. /\ ring' = Push(ring, Snapshot) /\ published' = published \cup {Snapshot}
        /\ phase = "admit" /\ phase' = "idle" /\ tick' = tick /\ out' = <<>>
    BY <1>6 DEF EndStep
  <2>2. \A p \in published : p.tick < tick
    BY <2>1 DEF RingInv
  <2>3. Newest(Push(ring, Snapshot).snaps, published \cup {Snapshot})
    BY <1>1, <2>2, PushNewest DEF RingInv
  <2>4. Newest(ring'.snaps, published')
    BY <2>1, <2>3
  <2>5. published' \in SUBSET Snapshots
        /\ \A p \in published' : p.tick <= tick
    BY <1>1, <2>1 DEF RingInv
  <2> QED
    BY <2>1, <2>4, <2>5 DEF RingInv, Newest, RewoundToNewest
<1> QED
  BY <1>2, <1>3, <1>4, <1>5, <1>6 DEF Next, Call, Step

(* A shot is judged on the newest world published at or before the tick    *)
(* the shooter claims (K56), although the ring only keeps the last cap     *)
(* snapshots and cap changes from step to step.                            *)
THEOREM SpecRewoundToNewest == Spec => []RewoundToNewest
<1>1. Init => RingInv /\ RewoundToNewest
  BY DEF Init, RingInv, Newest, EmptyRing, RewoundToNewest
<1> QED
  BY <1>1, TypesInit, TypesPreserved, RewindPreserved, PTL DEF Spec
-----------------------------------------------------------------------------
(* The loop decides class by class.  A key is decided when its class has   *)
(* the outcomes the property asks for: b is the batch, o the outcomes.     *)
ClassIn(b, k) == {i \in DOMAIN b : AdmitKey(b[i]) = k}

OutcomesIn(o, k) == {i \in DOMAIN o : AdmitKey(o[i].entry) = k}

Decided(b, o, k) ==
    IF \A i, j \in ClassIn(b, k) : b[i] = b[j]
    THEN /\ Cardinality(OutcomesIn(o, k)) = 1
         /\ \A i \in OutcomesIn(o, k) : o[i].verdict # "ambiguous"
    ELSE /\ Cardinality(OutcomesIn(o, k)) = Cardinality(ClassIn(b, k))
         /\ \A i \in OutcomesIn(o, k) : o[i].verdict = "ambiguous"

(* Equal keys are neighbours.                                              *)
Contiguous(b) ==
    \A i, j, l \in DOMAIN b :
        i <= j /\ j <= l /\ AdmitKey(b[i]) = AdmitKey(b[l])
            => AdmitKey(b[j]) = AdmitKey(b[i])

(* s, what is left of the batch, starts between two classes; all outcomes  *)
(* are of the classes before it, and those are decided.                    *)
Halfway(b, s, o) ==
    /\ Len(s) <= Len(b) /\ Contiguous(b)
    /\ \A i \in 1 .. Len(s) : s[i] = b[Len(b) - Len(s) + i]
    /\ \A i \in 1 .. Len(b) - Len(s), j \in Len(b) - Len(s) + 1 .. Len(b) :
          AdmitKey(b[i]) # AdmitKey(b[j])
    /\ \A i \in DOMAIN o : \E j \in 1 .. Len(b) - Len(s) :
          AdmitKey(o[i].entry) = AdmitKey(b[j])
    /\ \A i \in 1 .. Len(b) - Len(s) : Decided(b, o, AdmitKey(b[i]))

ClassInv ==
    /\ batch \in Seq(Entries)
    /\ phase = "admit" => Halfway(batch, rest, out)

(* The key of an entry is four naturals, and Before is asymmetric on such. *)
LEMMA KeyParts ==
    ASSUME NEW e \in Entries
    PROVE  \A i \in 1 .. 4 : AdmitKey(e)[i] \in Nat
<1> DEFINE g == e[1]
<1>1. g \in Proposal /\ e[2] \in Nat
  BY DEF Entries
<1>2. OrderKey(g) \in Nat
  BY <1>1 DEF OrderKey, Proposal, Unstamped, PlayerIntent, MindIntent, InferIntent,
              SpatialDelta, PhysIsland, Residency
<1>3. IslandOf(g) \in Nat
  <2>1. CASE g.kind = "phys"
    <3>1. g.island \in IslandIds
      BY <1>1, <2>1 DEF Proposal, Unstamped, PlayerIntent, MindIntent, InferIntent,
                        SpatialDelta, PhysIsland, Residency
    <3> QED
      BY <2>1, <3>1, IslandAssumption DEF IslandOf
  <2>2. CASE g.kind \in {"space", "motion"}
    <3>1. g.island \in IslandIds \cup {NoIsland}
      BY <1>1, <2>2, Kinds
    <3>2. NoIsland \in Nat
      BY DEF NoIsland
    <3> QED
      BY <2>2, <3>1, <3>2, IslandAssumption DEF IslandOf
  <2>3. CASE g.kind \notin {"phys", "space", "motion"}
    BY <2>3 DEF IslandOf
  <2> QED
    BY <2>1, <2>2, <2>3
<1>4. MoverRaw(g) \in Nat
  <2>1. CASE g.kind = "phys"
    <3>1. g.members \subseteq Nat
      BY <1>1, <2>1, LociAssumption
         DEF Proposal, Unstamped, PlayerIntent, MindIntent, InferIntent,
             SpatialDelta, PhysIsland, Residency
    <3>2. g.members # {} => Min(g.members) \in Nat
      BY <3>1, NatMin
    <3> QED
      BY <2>1, <3>2 DEF MoverRaw
  <2>2. CASE g.kind # "phys"
    <3>1. g \in Unstamped \cup Residency
      BY <1>1, <2>2 DEF Proposal, PhysIsland
    <3> QED
      BY <3>1, LociAssumption, SlotsAssumption
         DEF MoverRaw, Unstamped, PlayerIntent, MindIntent, InferIntent,
             SpatialDelta, Residency, Targets, None
  <2> QED
    BY <2>1, <2>2
<1> HIDE DEF g
<1>5. AdmitKey(e) = <<OrderKey(g), MoverRaw(g), IslandOf(g), e[2]>>
  BY DEF AdmitKey, g
<1> QED
  BY <1>1, <1>2, <1>3, <1>4, <1>5

LEMMA BeforeAsymmetric ==
    ASSUME NEW k, NEW l, \A i \in 1 .. 4 : k[i] \in Nat /\ l[i] \in Nat,
           Before(k, l)
    PROVE  ~Before(l, k)
<1> SUFFICES ASSUME Before(l, k) PROVE FALSE
  OBVIOUS
<1>1. PICK i \in 1 .. 4 : k[i] < l[i] /\ \A m \in 1 .. i - 1 : k[m] = l[m]
  BY DEF Before
<1>2. PICK j \in 1 .. 4 : l[j] < k[j] /\ \A m \in 1 .. j - 1 : l[m] = k[m]
  BY DEF Before
<1>3. CASE i < j
  <2>1. i \in 1 .. j - 1
    BY <1>3
  <2> QED
    BY <1>1, <1>2, <2>1
<1>4. CASE j < i
  <2>1. j \in 1 .. i - 1
    BY <1>4
  <2> QED
    BY <1>1, <1>2, <2>1
<1>5. CASE i = j
  BY <1>1, <1>2, <1>5
<1> QED
  BY <1>3, <1>4, <1>5

(* Sorting puts equal keys side by side.                                   *)
LEMMA SortedContiguous ==
    ASSUME NEW b \in Seq(Entries),
           \A i, j \in DOMAIN b : i < j =>
              Before(AdmitKey(b[i]), AdmitKey(b[j])) \/ AdmitKey(b[i]) = AdmitKey(b[j])
    PROVE  Contiguous(b)
<1> SUFFICES ASSUME NEW i \in DOMAIN b, NEW j \in DOMAIN b, NEW l \in DOMAIN b,
                    i <= j, j <= l, AdmitKey(b[i]) = AdmitKey(b[l])
             PROVE  AdmitKey(b[j]) = AdmitKey(b[i])
  BY DEF Contiguous
<1>1. i \in Nat /\ j \in Nat /\ l \in Nat /\ b[i] \in Entries /\ b[j] \in Entries
  OBVIOUS
<1>2. CASE i = j \/ j = l
  BY <1>2
<1>3. CASE i < j /\ j < l
  <2>1. ~(/\ Before(AdmitKey(b[i]), AdmitKey(b[j]))
          /\ Before(AdmitKey(b[j]), AdmitKey(b[i])))
    BY <1>1, KeyParts, BeforeAsymmetric
  <2> QED
    BY <1>3, <2>1
<1> QED
  BY <1>1, <1>2, <1>3

(* The batch that a step begins with.                                      *)
LEMMA BatchSorted ==
    ASSUME Types, NEW dt \in Ticks, NEW cap \in Caps,
           NEW sync \in SyncBatches, BeginStep(dt, cap, sync)
    PROVE  batch' \in Seq(Entries) /\ rest' = batch' /\ Contiguous(batch')
<1> DEFINE q == heap \o sync
<1>1. heap \in Seq(Entries) /\ sync \in Seq(Unstamped \X Nat)
  BY GrainsAssumption DEF Types, BatchTypes
<1>2. sync \in Seq(Entries)
  BY <1>1 DEF Entries, Proposal
<1>3. q \in Seq(Entries)
  BY <1>1, <1>2
<1>4. /\ rest' = batch'
      /\ \E f \in Bijection(DOMAIN q, DOMAIN q) :
           StableOrder(q, f) /\ batch' = [k \in 1 .. Len(q) |-> q[f[k]]]
  BY DEF BeginStep
<1> HIDE DEF q
<1>5. PICK f \in Bijection(DOMAIN q, DOMAIN q) :
        StableOrder(q, f) /\ batch' = [k \in 1 .. Len(q) |-> q[f[k]]]
  BY <1>4
<1>6. DOMAIN q = 1 .. Len(q) /\ \A k \in 1 .. Len(q) : f[k] \in DOMAIN q
  BY <1>3, <1>5 DEF Bijection, Injection
<1>7. /\ batch' \in Seq(Entries) /\ DOMAIN batch' = DOMAIN q
      /\ \A k \in DOMAIN q : batch'[k] = q[f[k]]
  BY <1>3, <1>5, <1>6
<1>8. \A i, j \in DOMAIN batch' : i < j =>
         \/ Before(AdmitKey(batch'[i]), AdmitKey(batch'[j]))
         \/ AdmitKey(batch'[i]) = AdmitKey(batch'[j])
  BY <1>5, <1>7 DEF StableOrder
<1> QED
  BY <1>4, <1>7, <1>8, SortedContiguous

(* Taking the class at the front off decides it, and it alone.             *)
LEMMA ClassTaken ==
    ASSUME NEW b \in Seq(Entries), NEW s \in Seq(Entries), NEW o \in Seq(Outcomes),
           Halfway(b, s, o), NEW n \in 1 .. Len(s), NEW r \in Seq(Outcomes),
           \A i \in 1 .. n : AdmitKey(s[i]) = AdmitKey(s[1]),
           n < Len(s) => AdmitKey(s[n + 1]) # AdmitKey(s[1]),
           \A i \in 1 .. Len(r) : AdmitKey(r[i].entry) = AdmitKey(s[1]),
           \/ /\ \E i \in 1 .. n : s[i] # s[1]
              /\ Len(r) = n /\ \A i \in 1 .. n : r[i].verdict = "ambiguous"
           \/ /\ \A i \in 1 .. n : s[i] = s[1]
              /\ Len(r) = 1 /\ r[1].verdict # "ambiguous"
    PROVE  Halfway(b, SubSeq(s, n + 1, Len(s)), o \o r)
<1> DEFINE c == Len(b) - Len(s)
           t == SubSeq(s, n + 1, Len(s))
           p == o \o r
           K == AdmitKey(s[1])
<1>1. /\ Len(b) \in Nat /\ Len(s) \in Nat /\ Len(o) \in Nat /\ Len(r) \in Nat
      /\ DOMAIN b = 1 .. Len(b) /\ DOMAIN o = 1 .. Len(o) /\ n \in Nat /\ n >= 1
      /\ n <= Len(s) /\ Len(s) <= Len(b) /\ c \in Nat /\ c + Len(s) = Len(b)
  BY DEF Halfway
<1>2. /\ \A i \in 1 .. Len(s) : s[i] = b[c + i]
      /\ \A i \in 1 .. c, j \in c + 1 .. Len(b) : AdmitKey(b[i]) # AdmitKey(b[j])
      /\ \A i \in 1 .. Len(o) : \E j \in 1 .. c : AdmitKey(o[i].entry) = AdmitKey(b[j])
      /\ \A i \in 1 .. c : Decided(b, o, AdmitKey(b[i]))
  BY <1>1 DEF Halfway
<1>3. Len(t) = Len(s) - n /\ \A i \in 1 .. Len(t) : t[i] = s[n + i]
  BY <1>1
<1>4. /\ DOMAIN p = 1 .. Len(o) + Len(r)
      /\ \A i \in 1 .. Len(o) : p[i] = o[i]
      /\ \A i \in 1 .. Len(r) : p[Len(o) + i] = r[i]
  BY <1>1
<1> HIDE DEF t, p
<1>5. Len(b) - Len(t) = c + n
  BY <1>1, <1>3
<1> HIDE DEF c
<1>6. /\ \A i \in 1 .. n : b[c + i] = s[i] /\ AdmitKey(b[c + i]) = K
      /\ \A j \in c + 1 .. c + n : AdmitKey(b[j]) = K /\ b[j] = s[j - c]
  <2>1. \A i \in 1 .. n : b[c + i] = s[i] /\ AdmitKey(b[c + i]) = K
    BY <1>1, <1>2
  <2>2. \A j \in c + 1 .. c + n : j - c \in 1 .. n /\ c + (j - c) = j
    BY <1>1
  <2> HIDE DEF K
  <2> QED
    BY <2>1, <2>2
<1>7. \A j \in 1 .. c : AdmitKey(b[j]) # K
  <2>1. c + 1 \in c + 1 .. Len(b) /\ c + 1 \in c + 1 .. c + n
    BY <1>1
  <2> QED
    BY <1>2, <1>6, <2>1
<1>8. \A j \in c + n + 1 .. Len(b) : AdmitKey(b[j]) # K
  <2> SUFFICES ASSUME NEW j \in c + n + 1 .. Len(b), AdmitKey(b[j]) = K
               PROVE  FALSE
    OBVIOUS
  <2>1. /\ n < Len(s) /\ n + 1 \in 1 .. Len(s) /\ c + (n + 1) = c + n + 1
        /\ c + 1 \in DOMAIN b /\ c + n + 1 \in DOMAIN b /\ j \in DOMAIN b
        /\ c + 1 <= c + n + 1 /\ c + n + 1 <= j /\ 1 \in 1 .. n
    BY <1>1
  <2>2. AdmitKey(b[c + n + 1]) # K
    BY <1>2, <2>1
  <2>3. AdmitKey(b[c + 1]) = K
    BY <1>6, <2>1
  <2>4. Contiguous(b)
    BY DEF Halfway
  <2>5. AdmitKey(b[c + n + 1]) = AdmitKey(b[c + 1])
    BY <2>1, <2>3, <2>4 DEF Contiguous
  <2> QED
    BY <2>2, <2>3, <2>5
<1> HIDE DEF K
<1>9. \A i \in 1 .. Len(r) : AdmitKey(r[i].entry) = K
  BY DEF K
<1>10. ClassIn(b, K) = c + 1 .. c + n
  <2>1. \A j \in 1 .. Len(b) : AdmitKey(b[j]) = K <=> j \in c + 1 .. c + n
    <3> TAKE j \in 1 .. Len(b)
    <3>1. j \in 1 .. c \/ j \in c + 1 .. c + n \/ j \in c + n + 1 .. Len(b)
      BY <1>1
    <3>2. j \in c + 1 .. c + n => ~(j \in 1 .. c) /\ ~(j \in c + n + 1 .. Len(b))
      BY <1>1
    <3> QED
      BY <1>6, <1>7, <1>8, <3>1, <3>2
  <2>2. c + 1 .. c + n \subseteq 1 .. Len(b)
    BY <1>1
  <2> QED
    BY <1>1, <2>1, <2>2 DEF ClassIn
<1>11. \A i \in 1 .. Len(o) : AdmitKey(o[i].entry) # K
  BY <1>2, <1>7
<1>12. OutcomesIn(p, K) = Len(o) + 1 .. Len(o) + Len(r)
  <2>1. \A i \in DOMAIN p : AdmitKey(p[i].entry) = K <=> i \in Len(o) + 1 .. Len(o) + Len(r)
    <3> TAKE i \in DOMAIN p
    <3>1. CASE i \in 1 .. Len(o)
      BY <1>1, <1>4, <1>11, <3>1
    <3>2. CASE i \notin 1 .. Len(o)
      <4>1. /\ i \in Len(o) + 1 .. Len(o) + Len(r)
            /\ i - Len(o) \in 1 .. Len(r) /\ Len(o) + (i - Len(o)) = i
        BY <1>1, <1>4, <3>2
      <4>2. p[i] = r[i - Len(o)]
        BY <1>4, <4>1
      <4> QED
        BY <1>9, <4>1, <4>2
    <3> QED
      BY <3>1, <3>2
  <2>2. Len(o) + 1 .. Len(o) + Len(r) \subseteq DOMAIN p
    BY <1>1, <1>4
  <2> QED
    BY <2>1, <2>2 DEF OutcomesIn
<1>13. /\ Cardinality(ClassIn(b, K)) = n
       /\ Cardinality(OutcomesIn(p, K)) = Len(r)
  <2>1. /\ Cardinality(c + 1 .. c + n) = n
        /\ Cardinality(Len(o) + 1 .. Len(o) + Len(r)) = Len(r)
    <3>1. c + 1 \in Int /\ c + n \in Int /\ Len(o) + 1 \in Int /\ Len(o) + Len(r) \in Int
      BY <1>1
    <3>2. /\ ~(c + 1 > c + n) /\ (c + n) - (c + 1) + 1 = n
          /\ (Len(o) + 1 > Len(o) + Len(r) <=> Len(r) = 0)
          /\ (Len(o) + Len(r)) - (Len(o) + 1) + 1 = Len(r)
      BY <1>1
    <3> QED
      BY <3>1, <3>2, FS_Interval
  <2> QED
    BY <1>10, <1>12, <2>1
<1>14. (\A i, j \in ClassIn(b, K) : b[i] = b[j]) <=> (\A i \in 1 .. n : s[i] = s[1])
  <2>1. ASSUME \A i, j \in ClassIn(b, K) : b[i] = b[j], NEW i \in 1 .. n
        PROVE  s[i] = s[1]
    <3>1. c + i \in c + 1 .. c + n /\ c + 1 \in c + 1 .. c + n /\ 1 \in 1 .. n
      BY <1>1
    <3>2. b[c + i] = b[c + 1]
      BY <1>10, <2>1, <3>1
    <3> QED
      BY <1>6, <3>1, <3>2
  <2>2. ASSUME \A i \in 1 .. n : s[i] = s[1]
        PROVE  \A i, j \in ClassIn(b, K) : b[i] = b[j]
    <3>1. \A j \in c + 1 .. c + n : b[j] = s[j - c] /\ j - c \in 1 .. n
      BY <1>1, <1>6
    <3> QED
      BY <1>10, <2>2, <3>1
  <2> QED
    BY <2>1, <2>2
<1>15. \A i \in OutcomesIn(p, K) : i - Len(o) \in 1 .. Len(r) /\ p[i] = r[i - Len(o)]
  <2>1. \A i \in Len(o) + 1 .. Len(o) + Len(r) :
           i - Len(o) \in 1 .. Len(r) /\ Len(o) + (i - Len(o)) = i
    BY <1>1
  <2> QED
    BY <1>4, <1>12, <2>1
<1>16. Decided(b, p, K)
  <2>1. CASE /\ \E i \in 1 .. n : s[i] # s[1]
             /\ Len(r) = n /\ \A i \in 1 .. n : r[i].verdict = "ambiguous"
    BY <1>13, <1>14, <1>15, <2>1 DEF Decided
  <2>2. CASE /\ \A i \in 1 .. n : s[i] = s[1]
             /\ Len(r) = 1 /\ r[1].verdict # "ambiguous"
    <3>1. \A i \in 1 .. Len(r) : r[i].verdict # "ambiguous"
      BY <2>2
    <3> QED
      BY <1>13, <1>14, <1>15, <2>2, <3>1 DEF Decided
  <2> QED
    BY <2>1, <2>2
<1>17. ASSUME NEW k, k # K
       PROVE  OutcomesIn(p, k) = OutcomesIn(o, k)
              /\ \A i \in OutcomesIn(o, k) : p[i] = o[i]
  <2>1. \A i \in DOMAIN p : i \notin DOMAIN o => AdmitKey(p[i].entry) = K
    <3> TAKE i \in DOMAIN p
    <3> SUFFICES ASSUME i \notin DOMAIN o PROVE AdmitKey(p[i].entry) = K
      OBVIOUS
    <3>1. i - Len(o) \in 1 .. Len(r) /\ Len(o) + (i - Len(o)) = i
      BY <1>1, <1>4
    <3>2. p[i] = r[i - Len(o)]
      BY <1>4, <3>1
    <3> QED
      BY <1>9, <3>1, <3>2
  <2>2. DOMAIN o \subseteq DOMAIN p /\ \A i \in DOMAIN o : p[i] = o[i]
    BY <1>1, <1>4
  <2> QED
    BY <1>17, <2>1, <2>2 DEF OutcomesIn
<1>18. \A i \in 1 .. c + n : Decided(b, p, AdmitKey(b[i]))
  <2> TAKE i \in 1 .. c + n
  <2>1. CASE i \in 1 .. c
    <3>1. AdmitKey(b[i]) # K /\ Decided(b, o, AdmitKey(b[i]))
      BY <1>2, <1>7, <2>1
    <3>2. PICK k : k = AdmitKey(b[i])
      OBVIOUS
    <3>3. OutcomesIn(p, k) = OutcomesIn(o, k) /\ \A m \in OutcomesIn(o, k) : p[m] = o[m]
      BY <1>17, <3>1, <3>2
    <3>4. Decided(b, p, k)
      BY <3>1, <3>2, <3>3 DEF Decided
    <3> QED
      BY <3>2, <3>4
  <2>2. CASE i \notin 1 .. c
    <3>1. i \in c + 1 .. c + n
      BY <1>1, <2>2
    <3> QED
      BY <1>6, <1>16, <3>1
  <2> QED
    BY <2>1, <2>2
<1>19. \A i \in 1 .. c + n, j \in c + n + 1 .. Len(b) : AdmitKey(b[i]) # AdmitKey(b[j])
  <2> TAKE i \in 1 .. c + n, j \in c + n + 1 .. Len(b)
  <2>1. j \in c + 1 .. Len(b) /\ (i \in 1 .. c \/ i \in c + 1 .. c + n)
    BY <1>1
  <2> QED
    BY <1>2, <1>6, <1>8, <2>1
<1>20. \A i \in DOMAIN p : \E j \in 1 .. c + n : AdmitKey(p[i].entry) = AdmitKey(b[j])
  <2> TAKE i \in DOMAIN p
  <2>1. CASE i \in DOMAIN o
    <3>1. PICK j \in 1 .. c : AdmitKey(o[i].entry) = AdmitKey(b[j])
      BY <1>1, <1>2, <2>1
    <3>2. j \in 1 .. c + n
      BY <1>1
    <3> QED
      BY <1>1, <1>4, <2>1, <3>1, <3>2
  <2>2. CASE i \notin DOMAIN o
    <3>1. i \in Len(o) + 1 .. Len(o) + Len(r)
      BY <1>1, <1>4, <2>2
    <3>2. AdmitKey(p[i].entry) = K
      BY <1>12, <3>1 DEF OutcomesIn
    <3>3. c + 1 \in c + 1 .. c + n /\ c + 1 \in 1 .. c + n
      BY <1>1
    <3> QED
      BY <1>6, <3>2, <3>3
  <2> QED
    BY <2>1, <2>2
<1>21. \A i \in 1 .. Len(t) : t[i] = b[(c + n) + i]
  <2> TAKE i \in 1 .. Len(t)
  <2>1. n + i \in 1 .. Len(s) /\ c + (n + i) = (c + n) + i
    BY <1>1, <1>3
  <2> QED
    BY <1>2, <1>3, <2>1
<1>22. Len(t) <= Len(b) /\ Contiguous(b)
  BY <1>1, <1>3 DEF Halfway
<1>23. Halfway(b, t, p)
  BY <1>5, <1>18, <1>19, <1>20, <1>21, <1>22 DEF Halfway
<1> QED
  BY <1>23 DEF t, p

(* What a pass appends: one outcome for identical grains, or one for each  *)
(* of an ambiguous class.                                                  *)
Verdicts(n, r) ==
    \/ /\ Ambiguous(n) /\ Len(r) = n
       /\ \A i \in 1 .. n : r[i].entry = rest[i] /\ r[i].verdict = "ambiguous"
    \/ /\ ~Ambiguous(n) /\ Len(r) = 1
       /\ r[1].entry = rest[1] /\ r[1].verdict # "ambiguous"

LEMMA OneVerdict ==
    ASSUME Types, NEW n \in 1 .. Len(rest), NEW v \in {"admitted", "rejected"},
           NEW seen \in SUBSET Snapshots, NEW riders \in SUBSET Loci,
           NEW m \in {0, 1}, ~Ambiguous(n),
           Take(n, <<Outcome(rest[1], v, seen, riders, m)>>)
    PROVE  \E r \in Seq(Outcomes) : Take(n, r) /\ Verdicts(n, r)
<1> DEFINE o == Outcome(rest[1], v, seen, riders, m)
<1>1. /\ rest[1] \in Entries /\ parent \in [Loci -> Targets]
  BY DEF Types, BatchTypes, WorldTypes
<1>2. {<<c, parent[c]>> : c \in riders} \in SUBSET (Loci \X Targets)
  BY <1>1
<1>3. o \in Outcomes /\ o.entry = rest[1] /\ o.verdict = v
  BY <1>1, <1>2 DEF Outcome, Outcomes
<1>4. Take(n, <<o>>)
  OBVIOUS
<1> HIDE DEF o
<1>5. <<o>> \in Seq(Outcomes) /\ Len(<<o>>) = 1 /\ <<o>>[1] = o
  BY <1>3
<1> QED
  BY <1>3, <1>4, <1>5 DEF Verdicts

LEMMA PassVerdicts ==
    ASSUME Types, AdmitClass
    PROVE  \E n \in 1 .. Len(rest), r \in Seq(Outcomes) : Take(n, r) /\ Verdicts(n, r)
<1>1. PICK n \in 1 .. Len(rest) :
         (AdmitAmbiguous(n) \/ AdmitRefused(n)) \/ AdmitOne(n)
  BY LoopCases
<1>2. CASE AdmitAmbiguous(n)
  <2> DEFINE o(i) == Lost(rest[i], "ambiguous")
             r == [i \in 1 .. n |-> o(i)]
  <2>1. \A i \in 1 .. n :
          o(i) \in Outcomes /\ o(i).entry = rest[i] /\ o(i).verdict = "ambiguous"
    <3> TAKE i \in 1 .. n
    <3>1. rest[i] \in Entries
      BY DEF Types, BatchTypes
    <3> QED
      BY <3>1 DEF Lost, Outcome, Outcomes
  <2>2. Take(n, r) /\ Ambiguous(n)
    BY <1>2 DEF AdmitAmbiguous
  <2> HIDE DEF o
  <2>3. n \in Nat
    BY DEF Types, BatchTypes
  <2>4. r \in Seq(Outcomes) /\ Len(r) = n /\ \A i \in 1 .. n : r[i] = o(i)
    BY <2>1, <2>3
  <2> HIDE DEF r
  <2>5. Verdicts(n, r)
    BY <2>1, <2>2, <2>4 DEF Verdicts
  <2> QED
    BY <2>2, <2>4, <2>5
<1>3. CASE AdmitRefused(n)
  BY <1>3, OneVerdict DEF AdmitRefused, Lost
<1>4. CASE AdmitOne(n)
  <2>1. PICK seen \in SUBSET Snapshots, riders \in SUBSET Loci,
             m \in {0, 1} :
          Admit(n, seen, riders, m)
    BY <1>4, WriteSet
  <2> QED
    BY <2>1, OneVerdict DEF Admit
<1> QED
  BY <1>1, <1>2, <1>3, <1>4

(* Grains of one class that do not differ are one grain.                   *)
LEMMA PassDecides ==
    ASSUME Types, ClassInv, AdmitClass
    PROVE  Halfway(batch, rest, out)'
<1>1. PICK n \in 1 .. Len(rest), r \in Seq(Outcomes) : Take(n, r) /\ Verdicts(n, r)
  BY PassVerdicts
<1>2. /\ FrontClass(n) /\ phase = "admit" /\ batch' = batch
      /\ rest' = SubSeq(rest, n + 1, Len(rest)) /\ out' = out \o r
  BY <1>1 DEF Take
<1>3. /\ rest \in Seq(Entries) /\ out \in Seq(Outcomes) /\ batch \in Seq(Entries)
      /\ Halfway(batch, rest, out) /\ n \in 1 .. Len(rest) /\ 1 \in 1 .. n
  BY <1>2 DEF Types, BatchTypes, ClassInv
<1>4. /\ \A i \in 1 .. n : AdmitKey(rest[i]) = AdmitKey(rest[1])
      /\ n < Len(rest) => AdmitKey(rest[n + 1]) # AdmitKey(rest[1])
  BY <1>2 DEF FrontClass
<1>5. \A i \in 1 .. Len(r) : AdmitKey(r[i].entry) = AdmitKey(rest[1])
  BY <1>1, <1>4 DEF Verdicts
<1>6. Ambiguous(n) => \E i \in 1 .. n : rest[i] # rest[1]
  BY DEF Ambiguous
<1>7. ~Ambiguous(n) => \A i \in 1 .. n : rest[i] = rest[1]
  <2> SUFFICES ASSUME ~Ambiguous(n), NEW i \in 1 .. n PROVE rest[i] = rest[1]
    OBVIOUS
  <2>1. rest[i] \in Proposal \X Nat /\ rest[1] \in Proposal \X Nat
    BY <1>3 DEF Entries
  <2>2. rest[i][1] = rest[1][1]
    BY DEF Ambiguous
  <2>3. rest[i][2] = rest[1][2]
    BY <1>4 DEF AdmitKey
  <2> QED
    BY <2>1, <2>2, <2>3
<1>8. \/ /\ \E i \in 1 .. n : rest[i] # rest[1]
         /\ Len(r) = n /\ \A i \in 1 .. n : r[i].verdict = "ambiguous"
      \/ /\ \A i \in 1 .. n : rest[i] = rest[1]
         /\ Len(r) = 1 /\ r[1].verdict # "ambiguous"
  BY <1>1, <1>6, <1>7 DEF Verdicts
<1>9. Halfway(batch, SubSeq(rest, n + 1, Len(rest)), out \o r)
  BY <1>3, <1>4, <1>5, <1>8, ClassTaken
<1> QED
  BY <1>2, <1>9

LEMMA ClassPreserved == Types /\ ClassInv /\ [Next]_vars => ClassInv'
<1> SUFFICES ASSUME Types, ClassInv, [Next]_vars PROVE ClassInv'
  OBVIOUS
<1>1. CASE Call
  <2>1. phase = "idle" /\ phase' = "idle" /\ batch' = batch
    BY <1>1 DEF Call, BindPlayer, Ingest, Partition, ApplyEpoch, batchVars
  <2> QED
    BY <2>1 DEF ClassInv
<1>2. ASSUME NEW dt \in Ticks, NEW cap \in Caps, NEW sync \in SyncBatches,
             BeginStep(dt, cap, sync)
      PROVE  ClassInv'
  <2>1. batch' \in Seq(Entries) /\ rest' = batch' /\ Contiguous(batch') /\ out' = <<>>
    BY <1>2, BatchSorted DEF BeginStep
  <2>2. PICK b \in Seq(Entries) : b = batch'
    BY <2>1
  <2>3. Len(b) \in Nat /\ Len(b) - Len(b) = 0 /\ 1 .. 0 = {}
    BY <2>2
  <2>4. \A i \in 1 .. Len(b) : b[i] = b[0 + i]
    BY <2>3
  <2>5. DOMAIN <<>> = {}
    OBVIOUS
  <2>6. Halfway(b, b, <<>>)
    BY <2>1, <2>2, <2>3, <2>4, <2>5 DEF Halfway
  <2> QED
    BY <2>1, <2>2, <2>6 DEF ClassInv
<1>3. CASE AdmitClass
  <2>1. batch' = batch
    BY <1>3, PassVerdicts DEF Take
  <2> QED
    BY <1>3, <2>1, PassDecides DEF ClassInv
<1>4. CASE EndStep
  BY <1>4 DEF EndStep, ClassInv
<1>5. CASE UNCHANGED vars
  BY <1>5 DEF vars, batchVars, ClassInv
<1> QED
  BY <1>1, <1>2, <1>3, <1>4, <1>5 DEF Next, Step

(* K18, K34: when the loop is through, each class of identical grains has  *)
(* one outcome and each class of distinct grains lost as ambiguous, in     *)
(* whatever order they were ingested.                                      *)
THEOREM SpecClassesDecidedOnce == Spec => []ClassesDecidedOnce
<1>1. Init => ClassInv
  BY DEF Init, ClassInv
<1>2. Types /\ ClassInv => ClassesDecidedOnce
  <2> SUFFICES ASSUME Types, ClassInv, phase = "admit", rest = <<>>, NEW k \in Keys
               PROVE  Decided(batch, out, k)
    BY DEF ClassesDecidedOnce, Decided, ClassIn, OutcomesIn, ClassOf, OutcomesOf
  <2>1. Halfway(batch, rest, out) /\ batch \in Seq(Entries)
    BY DEF ClassInv
  <2>2. Len(rest) = 0 /\ Len(batch) \in Nat /\ Len(batch) - Len(rest) = Len(batch)
    BY <2>1
  <2>3. PICK i \in DOMAIN batch : k = AdmitKey(batch[i])
    BY DEF Keys
  <2>4. i \in 1 .. Len(batch) - Len(rest)
    BY <2>1, <2>2
  <2> QED
    BY <2>1, <2>3, <2>4 DEF Halfway
<1> QED
  BY <1>1, <1>2, TypesInit, TypesPreserved, ClassPreserved, PTL DEF Spec
=============================================================================
