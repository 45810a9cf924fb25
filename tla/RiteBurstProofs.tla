--------------------------- MODULE RiteBurstProofs ---------------------------
(***************************************************************************)
(* Proofs about RiteBurst, for every set of actors, every cooked Canon and *)
(* every pack.  A transaction is followed through its SpecDelta: what one  *)
(* instruction does, then a burst, a hit, an intent and an island.         *)
(***************************************************************************)
EXTENDS RiteBurst, SequenceTheorems, WellFoundedInduction, TLAPS

Row ==
    [agency : Channels \cup {None}, hit : BOOLEAN, age : 0 .. MaxAge, pc : Nat,
     left : Nat, target : Targets, ch : Channels \cup {None}]
Keys == Loci \X RiteNames
RowSets == UNION {[D -> Row] : D \in SUBSET Keys}

Delta ==
    [rite : RowSets, qty : [Loci -> Int], parts : SUBSET (Loci \X Loci), deeds : Deeds,
     left : Nat, writes : SUBSET Loci, emits : Nat, err : BOOLEAN,
     run : BOOLEAN, pc : Nat, target : Targets]

(* On whose behalf a burst runs.                                           *)
Env == [a : Loci, r : RiteNames \cup {None}, source : Sources,
        claimed : SUBSET Channels]

(* Every row is at an instruction of its rite.                             *)
Placed(f) == \A k \in DOMAIN f : k[2] \in Rites /\ f[k].pc \in DOMAIN Code(k[2])

Behind(f, k) == f[k].pc > 1 /\ Stands(f[k], Code(k[2])[f[k].pc - 1])

(* The row of a WAIT none of which has passed.                             *)
Waits(f, k) ==
    Behind(f, k) /\ f[k].age = 0 /\ f[k].left = Code(k[2])[f[k].pc - 1].ticks

(* No row is in the middle of a burst, but for those of K.                 *)
Resting(f, K) == epoch = 0 => \A k \in DOMAIN f \ K : Behind(f, k)

-----------------------------------------------------------------------------
(* What cfg.rs has checked of a rite.                                      *)
LEMMA CodeFacts ==
  ASSUME canon \in DOMAIN Canons, NEW r \in Rites
  PROVE  /\ r \in RiteNames
         /\ Code(r) \in Seq(Instructions) /\ Len(Code(r)) \in DOMAIN Code(r)
         /\ \A pc \in DOMAIN Code(r) :
              /\ pc \in Nat \ {0} /\ Code(r)[pc] \in Instructions
              /\ Jumps(Code(r)[pc]) \subseteq DOMAIN Code(r)
              /\ Code(r)[pc].op # "complete" => pc + 1 \in DOMAIN Code(r)
<1> DEFINE code == Canons[canon].code[r]
<1>1. code = Code(r) /\ r \in DOMAIN Canons[canon].code
  BY DEF Code, Rites
<1>2. /\ code \in Seq(Instructions) /\ code # <<>>
      /\ code[Len(code)].op = "complete"
      /\ \A pc \in DOMAIN code : Jumps(code[pc]) \subseteq pc + 1 .. Len(code)
      /\ r \in RiteNames
  BY <1>1, CookAssumption, Zenon
<1> HIDE DEF code
<1>3. DOMAIN code = 1 .. Len(code) /\ Len(code) \in Nat /\ Len(code) # 0
      /\ \A pc \in 1 .. Len(code) : code[pc] \in Instructions
  BY <1>2
<1>4. \A pc \in DOMAIN code : code[pc].op # "complete" => pc + 1 \in DOMAIN code
  BY <1>2, <1>3
<1>5. \A pc \in DOMAIN code : Jumps(code[pc]) \subseteq DOMAIN code
  BY <1>2, <1>3
<1> QED BY <1>1, <1>2, <1>3, <1>4, <1>5

LEMMA InstructionFacts ==
  ASSUME NEW i \in Instructions
  PROVE  /\ i.op \in {"complete", "guard", "branch", "spend", "wait", "emit", "bind",
                      "setq", "reladd", "reldel", "spawn"}
         /\ i.op = "wait" => i.ticks \in Nat /\ i.ch \in Channels \cup {None}
         /\ i.op = "spend" => i.amount \in Int /\ i.fail \in Jumps(i)
         /\ i.op = "guard" => i.fail \in Jumps(i)
         /\ i.op = "branch" => i.yes \in Jumps(i) /\ i.no \in Jumps(i)
         /\ i.op = "setq" => i.to \in Int /\ i.slot \in Slots
         /\ i.op \in {"reladd", "reldel"} => i.x \in Slots /\ i.y \in Slots
         /\ i.op = "bind" => i.src \in {"this", "target", "related"}
  BY DEF Instructions, Jumps

LEMMA TrackFacts ==
  ASSUME canon \in DOMAIN Canons, NEW a \in Tracked
  PROVE  /\ a \in Actors /\ a \in Loci /\ Track[a].rite \in Rites
         /\ <<a, Track[a].rite>> \in Keys
         /\ Track[a].ch \in Channels /\ Track[a].ticks \in Nat \ {0}
         /\ Track[a].wait \in DOMAIN Code(Track[a].rite)
         /\ Code(Track[a].rite)[Track[a].wait].op = "wait"
         /\ Code(Track[a].rite)[Track[a].wait].ticks = Track[a].ticks
<1> DEFINE t == Canons[canon].track[a]
<1>1. t = Track[a] /\ a \in DOMAIN Canons[canon].track
  BY DEF Track, Tracked
<1>2. /\ a \in Actors /\ t.ticks > 0 /\ t.ch \in Channels
      /\ t.rite \in DOMAIN Canons[canon].code
      /\ t.wait \in DOMAIN Canons[canon].code[t.rite]
      /\ Canons[canon].code[t.rite][t.wait] =
           [op |-> "wait", ticks |-> t.ticks, ch |-> t.ch]
  BY <1>1, CookAssumption, Zenon
<1> HIDE DEF t
<1>3. t.rite \in Rites /\ Code(t.rite) = Canons[canon].code[t.rite]
  BY <1>2 DEF Rites, Code
<1>4. Code(t.rite)[t.wait].op = "wait" /\ Code(t.rite)[t.wait].ticks = t.ticks
  BY <1>2, <1>3
<1>5. Code(t.rite)[t.wait] \in Instructions /\ t.rite \in RiteNames
  BY <1>2, <1>3, CodeFacts
<1>6. t.ticks \in Nat
  BY <1>4, <1>5, InstructionFacts
<1> QED BY <1>1, <1>2, <1>3, <1>4, <1>5, <1>6 DEF Keys, Loci

-----------------------------------------------------------------------------
(* The primitives on a SpecDelta.                                          *)
LEMMA RowsOf ==
  ASSUME NEW f \in RowSets
  PROVE  /\ f = [j \in DOMAIN f |-> f[j]]
         /\ DOMAIN f \subseteq Keys /\ \A k \in DOMAIN f : f[k] \in Row
<1> PICK D \in SUBSET Keys : f \in [D -> Row]
  BY DEF RowSets
<1> QED OBVIOUS

LEMMA IsRows ==
  ASSUME NEW D \in SUBSET Keys, NEW f \in [D -> Row]
  PROVE  f \in RowSets
  BY DEF RowSets

(* Delta t holds machine k as m, and is s in all else, but has written more.  *)
Rewrites(s, t, k) ==
    /\ t \in Delta
    /\ \A j \in Keys \ {k} : /\ j \in DOMAIN t.rite <=> j \in DOMAIN s.rite
                             /\ j \in DOMAIN s.rite => t.rite[j] = s.rite[j]
    /\ s.writes \subseteq t.writes
    /\ t.qty = s.qty /\ t.parts = s.parts /\ t.left = s.left /\ t.emits = s.emits
    /\ t.err = s.err /\ t.run = s.run /\ t.pc = s.pc /\ t.target = s.target

LEMMA PutWrites ==
  ASSUME NEW s \in Delta, NEW k \in Keys, NEW m \in Row
  PROVE  LET t == Put(s, k, m) IN
         /\ Rewrites(s, t, k) /\ t.deeds = s.deeds /\ t.writes = s.writes
         /\ DOMAIN t.rite = DOMAIN s.rite \cup {k} /\ t.rite[k] = m
<1> DEFINE g == [j \in DOMAIN s.rite \cup {k} |-> IF j = k THEN m ELSE s.rite[j]]
           t == [s EXCEPT !.rite = g]
<1>1. s.rite \in RowSets
  BY DEF Delta
<1>2. DOMAIN s.rite \subseteq Keys /\ \A j \in DOMAIN s.rite : s.rite[j] \in Row
  BY <1>1, RowsOf
<1>3. g \in RowSets
  <2>1. DOMAIN s.rite \cup {k} \in SUBSET Keys /\ g \in [DOMAIN s.rite \cup {k} -> Row]
    BY <1>2
  <2> QED BY <2>1, IsRows
<1>4. Put(s, k, m) = t
  BY DEF Put
<1> HIDE DEF g
<1>5. t \in Delta /\ t.rite = g /\ t.deeds = s.deeds /\ t.writes = s.writes
      /\ t.qty = s.qty /\ t.parts = s.parts /\ t.left = s.left /\ t.emits = s.emits
      /\ t.err = s.err /\ t.run = s.run /\ t.pc = s.pc /\ t.target = s.target
  BY <1>3 DEF Delta
<1>6. /\ DOMAIN g = DOMAIN s.rite \cup {k} /\ g[k] = m
      /\ \A j \in DOMAIN s.rite \ {k} : g[j] = s.rite[j]
  BY DEF g
<1> HIDE DEF t
<1> QED BY <1>4, <1>5, <1>6 DEF Rewrites

LEMMA WroteWrites ==
  ASSUME NEW s \in Delta, NEW l \in Loci
  PROVE  LET t == Wrote(s, l) IN
         /\ t \in Delta /\ t.rite = s.rite /\ t.deeds = s.deeds /\ t.qty = s.qty
         /\ t.parts = s.parts /\ t.left = s.left /\ t.emits = s.emits
         /\ t.err = s.err /\ t.run = s.run /\ t.pc = s.pc /\ t.target = s.target
         /\ t.writes = s.writes \cup {l}
  BY DEF Wrote, Delta

LEMMA FailWrites ==
  ASSUME NEW s \in Delta
  PROVE  /\ Fail(s) \in Delta /\ Fail(s).err /\ Fail(s).rite = s.rite
         /\ Fail(s).deeds = s.deeds /\ Fail(s).parts = s.parts
         /\ Fail(s).left = s.left /\ Fail(s).run = s.run /\ Fail(s).pc = s.pc
  BY DEF Fail, Delta

LEMMA EndedWrites ==
  ASSUME NEW s \in Delta, NEW a \in Loci, NEW r \in RiteNames
  PROVE  LET t == Ended(s, a, r) IN
         /\ Rewrites(s, t, <<a, r>>) /\ t.deeds = s.deeds
         /\ DOMAIN t.rite = DOMAIN s.rite \ {<<a, r>>}
<1> DEFINE k == <<a, r>>
           g == Drop(s.rite, k)
           u == [s EXCEPT !.rite = g]
           t == Wrote(u, a)
<1>1. s.rite \in RowSets
  BY DEF Delta
<1>2. DOMAIN s.rite \subseteq Keys /\ \A j \in DOMAIN s.rite : s.rite[j] \in Row
  BY <1>1, RowsOf
<1>3. /\ DOMAIN g = DOMAIN s.rite \ {k}
      /\ \A j \in DOMAIN s.rite \ {k} : g[j] = s.rite[j]
      /\ g = [j \in DOMAIN s.rite \ {k} |-> s.rite[j]]
  BY <1>1 DEF Drop, Restrict
<1>4. g \in RowSets
  <2>1. DOMAIN s.rite \ {k} \in SUBSET Keys /\ g \in [DOMAIN s.rite \ {k} -> Row]
    BY <1>2, <1>3
  <2> QED BY <2>1, IsRows
<1> HIDE DEF g
<1>5. u \in Delta /\ u.rite = g /\ u.deeds = s.deeds /\ u.writes = s.writes
      /\ u.qty = s.qty /\ u.parts = s.parts /\ u.left = s.left /\ u.emits = s.emits
      /\ u.err = s.err /\ u.run = s.run /\ u.pc = s.pc /\ u.target = s.target
  BY <1>4 DEF Delta
<1>6. Ended(s, a, r) = t
  BY DEF Ended, g
<1> HIDE DEF u
<1>7. t \in Delta /\ t.rite = g /\ t.deeds = s.deeds /\ s.writes \subseteq t.writes
      /\ t.qty = s.qty /\ t.parts = s.parts /\ t.left = s.left /\ t.emits = s.emits
      /\ t.err = s.err /\ t.run = s.run /\ t.pc = s.pc /\ t.target = s.target
  BY <1>5, WroteWrites
<1> HIDE DEF t
<1> QED BY <1>3, <1>6, <1>7 DEF Rewrites

(* Putting a row and noting the locus as written.                          *)
LEMMA PutWrote ==
  ASSUME NEW s \in Delta, NEW a \in Loci, NEW r \in RiteNames, NEW m \in Row
  PROVE  LET t == Wrote(Put(s, <<a, r>>, m), a) IN
         /\ Rewrites(s, t, <<a, r>>) /\ t.deeds = s.deeds
         /\ DOMAIN t.rite = DOMAIN s.rite \cup {<<a, r>>} /\ t.rite[<<a, r>>] = m
<1> DEFINE k == <<a, r>>
           u == Put(s, k, m)
           t == Wrote(u, a)
<1>1. k \in Keys
  BY DEF Keys
<1>2. /\ Rewrites(s, u, k) /\ u.deeds = s.deeds
      /\ DOMAIN u.rite = DOMAIN s.rite \cup {k} /\ u.rite[k] = m
  BY <1>1, PutWrites
<1>3. u \in Delta
  BY <1>2 DEF Rewrites
<1> HIDE DEF u
<1>4. t \in Delta /\ t.rite = u.rite /\ t.deeds = u.deeds /\ u.writes \subseteq t.writes
      /\ t.qty = u.qty /\ t.parts = u.parts /\ t.left = u.left /\ t.emits = u.emits
      /\ t.err = u.err /\ t.run = u.run /\ t.pc = u.pc /\ t.target = u.target
  BY <1>3, WroteWrites
<1> HIDE DEF t
<1>5. Rewrites(s, t, k)
  BY <1>2, <1>4 DEF Rewrites
<1> QED BY <1>2, <1>4, <1>5 DEF t, u

LEMMA RowFacts ==
  ASSUME NEW s \in Delta, NEW k \in DOMAIN s.rite
  PROVE  k \in Keys /\ s.rite[k] \in Row
<1>1. s.rite \in RowSets
  BY DEF Delta
<1> QED BY <1>1, RowsOf

LEMMA MaxAgeNat == MaxAge \in Nat
  BY WorldAssumption

LEMMA AdvancedWrites ==
  ASSUME NEW s \in Delta, NEW a \in Loci, NEW r \in RiteNames,
         <<a, r>> \in DOMAIN s.rite, NEW pc \in Nat, NEW wait \in Nat
  PROVE  LET t == Advanced(s, a, r, pc, wait)
             m == s.rite[<<a, r>>]
             n == t.rite[<<a, r>>] IN
         /\ Rewrites(s, t, <<a, r>>) /\ t.deeds = s.deeds
         /\ DOMAIN t.rite = DOMAIN s.rite
         /\ n.pc = pc /\ n.left = wait /\ n.agency = m.agency /\ n.hit = m.hit
         /\ n.target = m.target /\ n.ch = m.ch /\ n.age \in {0, m.age}
<1> DEFINE k == <<a, r>>
           m == s.rite[k]
           age == IF m.pc # pc \/ m.left = 0 \/ wait > m.left THEN 0 ELSE m.age
           n == [m EXCEPT !.age = age, !.pc = pc, !.left = wait]
           t == Wrote(Put(s, k, n), a)
<1>1. m \in Row
  BY RowFacts
<1>a. age \in 0 .. MaxAge /\ age \in {0, m.age}
  <2>1. m.age \in 0 .. MaxAge /\ 0 \in 0 .. MaxAge
    BY <1>1, MaxAgeNat DEF Row
  <2> QED BY <2>1
<1>b. Advanced(s, a, r, pc, wait) = t
  BY DEF Advanced
<1> HIDE DEF age
<1>2. n \in Row /\ n.pc = pc /\ n.left = wait /\ n.agency = m.agency /\ n.hit = m.hit
      /\ n.target = m.target /\ n.ch = m.ch /\ n.age = age
  <2> HIDE DEF m
  <2> QED BY <1>1, <1>a DEF Row
<1> HIDE DEF n
<1>4. /\ Rewrites(s, t, k) /\ t.deeds = s.deeds
      /\ DOMAIN t.rite = DOMAIN s.rite \cup {k} /\ t.rite[k] = n
  BY <1>2, PutWrote
<1> HIDE DEF t
<1> QED BY <1>a, <1>b, <1>2, <1>4

-----------------------------------------------------------------------------
(* Bursts.  A burst of machine k moves that machine only, may end it but   *)
(* not begin it, and keeps its hit and, once it has hit, its target.       *)
SameDeeds(s, t) ==
    /\ t.deeds.hits = s.deeds.hits /\ t.deeds.met = s.deeds.met
    /\ t.deeds.bound = s.deeds.bound /\ t.deeds.touched = s.deeds.touched
    /\ t.deeds.struck = s.deeds.struck

Moves(s, t, k) ==
    /\ t \in Delta
    /\ \A j \in Keys \ {k} : /\ j \in DOMAIN t.rite <=> j \in DOMAIN s.rite
                             /\ j \in DOMAIN s.rite => t.rite[j] = s.rite[j]
    /\ k \in DOMAIN t.rite =>
         /\ k \in DOMAIN s.rite /\ t.rite[k].hit = s.rite[k].hit
         /\ \/ t.rite[k].target = s.rite[k].target
            \/ ~s.rite[k].hit
    /\ s.writes \subseteq t.writes
    /\ SameDeeds(s, t)

(* Between two turns of the loop.                                          *)
Turning(b, k) ==
    /\ b \in Delta /\ Placed(b.rite)
    /\ b.run /\ ~b.err => b.pc \in DOMAIN Code(k[2]) /\ k \in DOMAIN b.rite
    /\ ~b.run /\ ~b.err /\ k \in DOMAIN b.rite => Waits(b.rite, k)

LEMMA MovesTrans ==
  ASSUME NEW s, NEW t, NEW u, NEW k, Moves(s, t, k), Moves(t, u, k)
  PROVE  Moves(s, u, k)
  BY DEF Moves, SameDeeds

LEMMA Silent ==
  ASSUME NEW s \in Delta, NEW t \in Delta, NEW k,
         t.rite = s.rite, SameDeeds(s, t), s.writes \subseteq t.writes
  PROVE  Moves(s, t, k)
  BY DEF Moves

(* A row that is put, or ended, where there was one.                       *)
LEMMA RewritesMoves ==
  ASSUME NEW s \in Delta, NEW t, NEW k, Rewrites(s, t, k), t.deeds = s.deeds,
         k \in DOMAIN t.rite =>
           /\ k \in DOMAIN s.rite /\ t.rite[k].hit = s.rite[k].hit
           /\ \/ t.rite[k].target = s.rite[k].target
              \/ ~s.rite[k].hit
  PROVE  Moves(s, t, k)
  BY DEF Rewrites, Moves, SameDeeds

LEMMA PlacedByKey ==
  ASSUME NEW s \in Delta, NEW t, NEW k, Moves(s, t, k), Placed(s.rite),
         k \in DOMAIN t.rite => k[2] \in Rites /\ t.rite[k].pc \in DOMAIN Code(k[2])
  PROVE  Placed(t.rite)
<1> SUFFICES ASSUME NEW j \in DOMAIN t.rite
             PROVE  j[2] \in Rites /\ t.rite[j].pc \in DOMAIN Code(j[2])
  BY DEF Placed
<1>1. t \in Delta
  BY DEF Moves
<1>2. j \in Keys
  BY <1>1, RowFacts
<1>3. CASE j = k
  BY <1>3
<1>4. CASE j # k
  <2>1. j \in DOMAIN s.rite /\ t.rite[j] = s.rite[j]
    BY <1>2, <1>4 DEF Moves
  <2> QED BY <2>1 DEF Placed
<1> QED BY <1>3, <1>4

(* An error excuses all.                                                   *)
LEMMA Failing ==
  ASSUME NEW b \in Delta, NEW k, Placed(b.rite)
  PROVE  /\ Moves(b, Fail(b), k) /\ Turning(Fail(b), k)
         /\ Fail(b).left = b.left
<1>1. Fail(b) \in Delta /\ Fail(b).err /\ Fail(b).rite = b.rite /\ Fail(b).deeds = b.deeds
      /\ Fail(b).left = b.left
  BY FailWrites
<1>2. Fail(b).target = b.target /\ Fail(b).writes = b.writes
  BY DEF Fail, Delta
<1>3. Moves(b, Fail(b), k)
  BY <1>1, <1>2, Silent DEF SameDeeds
<1> QED BY <1>1, <1>2, <1>3 DEF Turning

(* Only the registers, quantities, relations and events change.            *)
LEMMA Stepping ==
  ASSUME NEW b \in Delta, NEW t \in Delta, NEW k, Placed(b.rite),
         t.rite = b.rite, t.deeds = b.deeds, b.writes \subseteq t.writes,
         t.left = b.left, t.run, t.pc \in DOMAIN Code(k[2]), k \in DOMAIN b.rite
  PROVE  Moves(b, t, k) /\ Turning(t, k)
<1>1. Moves(b, t, k)
  BY Silent DEF SameDeeds
<1> QED BY <1>1 DEF Turning

LEMMA ReboundMoves ==
  ASSUME NEW b \in Delta, NEW e \in Env, Placed(b.rite),
         e.r \in RiteNames, <<e.a, e.r>> \in DOMAIN b.rite,
         NEW pc \in Nat, NEW wait \in Nat, NEW ch \in Channels \cup {None}
  PROVE  LET t == Rebound(b, e, pc, wait, ch)
             k == <<e.a, e.r>> IN
         /\ Moves(b, t, k)
         /\ t.left = b.left /\ t.target = b.target
         /\ t.run = b.run /\ t.pc = b.pc /\ DOMAIN t.rite = DOMAIN b.rite
         /\ t.rite[k].pc \in {pc, b.rite[k].pc}
         /\ b.err => t.err
         /\ ~t.err => t.rite[k].pc = pc /\ t.rite[k].left = wait /\ t.rite[k].age = 0
<1> DEFINE k == <<e.a, e.r>>
           old == b.rite[k]
           n == [old EXCEPT !.age = 0, !.pc = pc, !.left = wait, !.target = b.target,
                            !.ch = ch]
           w == Wrote(Put(b, k, n), e.a)
           t == Rebound(b, e, pc, wait, ch)
<1>1. e.a \in Loci
  BY DEF Env
<1>2. old \in Row
  BY RowFacts
<1>3. 0 \in 0 .. MaxAge /\ b.target \in Targets
  BY MaxAgeNat DEF Delta
<1>4. t = IF old.hit /\ old.target # b.target THEN Fail(b) ELSE w
  BY DEF Rebound, Has
<1>5. /\ n \in Row /\ n.pc = pc /\ n.left = wait /\ n.age = 0
      /\ n.target = b.target /\ n.hit = old.hit
  <2> HIDE DEF old
  <2> QED BY <1>2, <1>3 DEF Row
<1> HIDE DEF n, t
<1>6. CASE old.hit /\ old.target # b.target
  <2>1. t = Fail(b)
    BY <1>4, <1>6
  <2>2. Moves(b, Fail(b), k)
    BY Failing
  <2>3. Fail(b).target = b.target /\ Fail(b).run = b.run /\ Fail(b).pc = b.pc
        /\ Fail(b).rite = b.rite /\ Fail(b).err /\ Fail(b).left = b.left
    BY DEF Fail, Delta
  <2> QED BY <2>1, <2>2, <2>3 DEF t
<1>7. CASE ~(old.hit /\ old.target # b.target)
  <2>1. t = w
    BY <1>4, <1>7
  <2>2. /\ Rewrites(b, w, k) /\ w.deeds = b.deeds
        /\ DOMAIN w.rite = DOMAIN b.rite \cup {k} /\ w.rite[k] = n
    BY <1>1, <1>5, PutWrote
  <2> HIDE DEF w
  <2>3. old.hit \in BOOLEAN
    BY <1>2 DEF Row
  <2>4. Moves(b, w, k)
    BY <1>5, <1>7, <2>2, <2>3, RewritesMoves
  <2>5. DOMAIN w.rite = DOMAIN b.rite
    BY <2>2
  <2> QED BY <1>5, <2>1, <2>2, <2>4, <2>5 DEF Rewrites, t
<1> QED BY <1>6, <1>7

LEMMA AuthorizedMoves ==
  ASSUME canon \in DOMAIN Canons, NEW b \in Delta, NEW e \in Env,
         Placed(b.rite),
         e.r \in RiteNames, <<e.a, e.r>> \in DOMAIN b.rite
  PROVE  LET t == Authorized(b, e)
             k == <<e.a, e.r>> IN
         /\ Moves(b, t, k) /\ t.left = b.left /\ t.target = b.target
         /\ t.run = b.run /\ t.pc = b.pc /\ DOMAIN t.rite = DOMAIN b.rite
         /\ t.rite[k].pc = b.rite[k].pc
<1> DEFINE k == <<e.a, e.r>>
           n == [b.rite[k] EXCEPT !.agency = Track[e.a].ch]
           w == Wrote(Put(b, k, n), e.a)
           t == Authorized(b, e)
<1>1. t \in {b, Fail(b), w}
  BY DEF Authorized
<1>2. e.a \in Loci /\ b.rite[k] \in Row
  BY RowFacts DEF Env
<1>3. CASE t = b
  BY <1>3, Silent DEF SameDeeds
<1>4. CASE t = Fail(b)
  <2>1. Moves(b, Fail(b), k) /\ Fail(b).left = b.left
    BY Failing
  <2>2. Fail(b).target = b.target /\ Fail(b).run = b.run /\ Fail(b).pc = b.pc
        /\ Fail(b).rite = b.rite
    BY DEF Fail, Delta
  <2> HIDE DEF t
  <2> QED BY <1>4, <2>1, <2>2 DEF t
<1>5. CASE t = w /\ Bound(e.a, e.r)
  <2>1. Track[e.a].ch \in Channels
    BY <1>5, TrackFacts DEF Bound
  <2>2. n \in Row /\ n.pc = b.rite[k].pc /\ n.hit = b.rite[k].hit
        /\ n.target = b.rite[k].target
    BY <1>2, <2>1 DEF Row
  <2> HIDE DEF n
  <2>3. /\ Rewrites(b, w, k) /\ w.deeds = b.deeds
        /\ DOMAIN w.rite = DOMAIN b.rite \cup {k} /\ w.rite[k] = n
    BY <1>2, <2>2, PutWrote
  <2> HIDE DEF w, t
  <2>4. Moves(b, w, k)
    BY <2>2, <2>3, RewritesMoves
  <2>5. DOMAIN w.rite = DOMAIN b.rite
    BY <2>3
  <2> QED BY <1>5, <2>2, <2>3, <2>4, <2>5 DEF Rewrites, t
<1>6. Bound(e.a, e.r) \/ t = b
  BY DEF Authorized
<1> QED BY <1>1, <1>3, <1>4, <1>5, <1>6

LEMMA AdvancedMoves ==
  ASSUME NEW b \in Delta, NEW a \in Loci, NEW r \in RiteNames,
         <<a, r>> \in DOMAIN b.rite, NEW pc \in Nat, NEW wait \in Nat
  PROVE  Moves(b, Advanced(b, a, r, pc, wait), <<a, r>>)
<1> DEFINE k == <<a, r>>
           t == Advanced(b, a, r, pc, wait)
<1>1. /\ Rewrites(b, t, k) /\ t.deeds = b.deeds /\ DOMAIN t.rite = DOMAIN b.rite
      /\ t.rite[k].hit = b.rite[k].hit /\ t.rite[k].target = b.rite[k].target
  BY AdvancedWrites
<1> HIDE DEF t
<1> QED BY <1>1, RewritesMoves DEF t

LEMMA StallMoves ==
  ASSUME canon \in DOMAIN Canons, NEW b \in Delta, NEW e \in Env,
         Placed(b.rite),
         e.r \in Rites, <<e.a, e.r>> \in DOMAIN b.rite,
         b.pc \in DOMAIN Code(e.r), Code(e.r)[b.pc].op = "wait"
  PROVE  LET t == Stall(b, e, Code(e.r)[b.pc]) IN
         /\ Moves(b, t, <<e.a, e.r>>) /\ (b.err \/ Turning(t, <<e.a, e.r>>))
         /\ t.left = b.left /\ (b.err => t = b)
<1> DEFINE k == <<e.a, e.r>>
           i == Code(e.r)[b.pc]
           v == Advanced(b, e.a, e.r, b.pc + 1, i.ticks)
           w == Rebound(v, e, b.pc + 1, i.ticks, i.ch)
           t == [w EXCEPT !.run = FALSE]
<1>1. /\ e.r \in RiteNames /\ b.pc \in Nat \ {0} /\ i \in Instructions
      /\ b.pc + 1 \in DOMAIN Code(e.r)
  BY CodeFacts
<1>2. i.ticks \in Nat /\ i.ch \in Channels \cup {None}
  BY <1>1, InstructionFacts
<1>3. e.a \in Loci /\ b.pc + 1 \in Nat
  BY <1>1 DEF Env
<1>4. CASE b.err
  BY <1>4, Silent DEF Stall, SameDeeds
<1>5. CASE ~b.err
  <2>1. Stall(b, e, i) = t
    BY <1>5 DEF Stall, Has
  <2> HIDE DEF i
  <2>2. /\ Moves(b, v, k) /\ v.left = b.left /\ v.target = b.target /\ v.err = b.err
        /\ DOMAIN v.rite = DOMAIN b.rite
        /\ v.rite[k].pc = b.pc + 1
    <3>1. Moves(b, v, k)
      BY <1>1, <1>2, <1>3, AdvancedMoves
    <3>2. Rewrites(b, v, k) /\ DOMAIN v.rite = DOMAIN b.rite /\ v.rite[k].pc = b.pc + 1
      BY SMTT(30), <1>1, <1>2, <1>3, AdvancedWrites
    <3> QED BY <3>1, <3>2 DEF Rewrites
  <2> HIDE DEF v
  <2>3. v \in Delta
    BY <2>2 DEF Moves
  <2>4. Placed(v.rite)
    BY <1>1, <2>2, PlacedByKey
  <2>5. /\ Moves(v, w, k) /\ w.left = v.left /\ w.target = v.target
        /\ DOMAIN w.rite = DOMAIN v.rite
        /\ w.rite[k].pc \in {b.pc + 1, v.rite[k].pc}
        /\ ~w.err =>
             w.rite[k].pc = b.pc + 1 /\ w.rite[k].left = i.ticks /\ w.rite[k].age = 0
    <3>1. <<e.a, e.r>> \in DOMAIN v.rite
      BY <2>2
    <3>2. /\ Moves(v, w, k)
          /\ w.left = v.left /\ w.target = v.target /\ DOMAIN w.rite = DOMAIN v.rite
          /\ w.rite[k].pc \in {b.pc + 1, v.rite[k].pc}
          /\ ~w.err =>
               w.rite[k].pc = b.pc + 1 /\ w.rite[k].left = i.ticks /\ w.rite[k].age = 0
      BY SMTT(30), <1>1, <1>2, <1>3, <2>3, <2>4, <3>1, ReboundMoves
    <3> QED BY <3>1, <3>2
  <2> HIDE DEF w
  <2>7. w \in Delta
    BY <2>5 DEF Moves
  <2>8. /\ t \in Delta /\ t.rite = w.rite /\ t.deeds = w.deeds /\ t.writes = w.writes
        /\ t.left = w.left /\ t.target = w.target /\ t.err = w.err /\ t.run = FALSE
    BY <2>7 DEF Delta
  <2> HIDE DEF t
  <2>9. Moves(b, t, k)
    <3>1. Moves(w, t, k)
      BY <2>7, <2>8, Silent DEF SameDeeds
    <3> QED BY <2>2, <2>5, <3>1, MovesTrans
  <2>10. Placed(t.rite)
    BY <1>1, <2>2, <2>5, <2>8, <2>9, PlacedByKey
  <2>11. ~t.err => Waits(t.rite, k)
    <3>1. SUFFICES ASSUME ~t.err PROVE Waits(t.rite, k)
      OBVIOUS
    <3>2. t.rite[k].pc = b.pc + 1 /\ t.rite[k].left = i.ticks /\ t.rite[k].age = 0
      BY <2>5, <2>8, <3>1
    <3>3. b.pc + 1 > 1 /\ (b.pc + 1) - 1 = b.pc
      BY <1>1
    <3>4. i.op = "wait" /\ i = Code(e.r)[b.pc]
      BY DEF i
    <3>5. Stands(t.rite[k], i)
      BY <1>2, <3>2, <3>4 DEF Stands
    <3>6. Behind(t.rite, k)
      BY <3>2, <3>3, <3>4, <3>5 DEF Behind
    <3> QED BY <3>2, <3>3, <3>4, <3>6 DEF Waits
  <2>12. Turning(t, k)
    BY <2>2, <2>5, <2>8, <2>10, <2>11 DEF Turning
  <2> QED BY <1>5, <2>1, <2>2, <2>5, <2>8, <2>9, <2>12 DEF i
<1> QED BY <1>4, <1>5

LEMMA WaitMoves ==
  ASSUME canon \in DOMAIN Canons, NEW b \in Delta, NEW e \in Env,
         Placed(b.rite),
         e.r \in Rites, <<e.a, e.r>> \in DOMAIN b.rite,
         b.pc \in DOMAIN Code(e.r), Code(e.r)[b.pc].op = "wait"
  PROVE  LET t == Wait(b, e, Code(e.r)[b.pc]) IN
         /\ Moves(b, t, <<e.a, e.r>>) /\ Turning(t, <<e.a, e.r>>) /\ t.left = b.left
<1> DEFINE k == <<e.a, e.r>>
           i == Code(e.r)[b.pc]
           v == Authorized(b, e)
           t == Stall(v, e, i)
<1>1. e.r \in RiteNames
  BY CodeFacts
<1>2. /\ Moves(b, v, k) /\ v.left = b.left /\ v.target = b.target
      /\ v.run = b.run /\ v.pc = b.pc /\ DOMAIN v.rite = DOMAIN b.rite
      /\ v.rite[k].pc = b.rite[k].pc
  BY <1>1, AuthorizedMoves
<1> HIDE DEF v
<1>3. v \in Delta
  BY <1>2 DEF Moves
<1>4. Placed(v.rite)
  BY <1>2, PlacedByKey DEF Placed
<1>5. /\ Moves(v, t, k) /\ (v.err \/ Turning(t, k))
      /\ t.left = v.left /\ (v.err => t = v)
  BY <1>2, <1>3, <1>4, StallMoves
<1> HIDE DEF t, i
<1>6. Turning(t, k)
  <2>1. CASE v.err
    BY <1>2, <1>3, <1>4, <1>5, <2>1 DEF Turning
  <2> QED BY <1>5, <2>1
<1>7. Moves(b, t, k)
  BY <1>2, <1>5, MovesTrans
<1> QED BY <1>2, <1>5, <1>6, <1>7 DEF t, i, v, Wait

(* The registers of a burst.                                               *)
LEMMA RunWrites ==
  ASSUME NEW b \in Delta
  PROVE  LET t == [b EXCEPT !.run = FALSE] IN
         /\ t \in Delta /\ t.rite = b.rite /\ t.deeds = b.deeds /\ t.writes = b.writes
         /\ t.left = b.left /\ t.target = b.target /\ t.err = b.err /\ ~t.run
         /\ t.qty = b.qty /\ t.parts = b.parts /\ t.emits = b.emits
  BY DEF Delta

LEMMA PcWrites ==
  ASSUME NEW b \in Delta, NEW pc \in Nat
  PROVE  LET t == [b EXCEPT !.pc = pc] IN
         /\ t \in Delta /\ t.rite = b.rite /\ t.deeds = b.deeds /\ t.writes = b.writes
         /\ t.left = b.left /\ t.target = b.target /\ t.err = b.err /\ t.run = b.run
         /\ t.qty = b.qty /\ t.parts = b.parts /\ t.emits = b.emits /\ t.pc = pc
  BY DEF Delta

(* A step on to pc of what differs from b in quantities, relations, events *)
(* or writes.                                                              *)
LEMMA GoesOn ==
  ASSUME NEW b \in Delta, NEW c \in Delta, NEW k, Placed(b.rite),
         c.rite = b.rite, c.deeds = b.deeds, b.writes \subseteq c.writes,
         c.left = b.left, c.target = b.target, c.run, k \in DOMAIN b.rite,
         NEW pc \in Nat, pc \in DOMAIN Code(k[2])
  PROVE  LET t == [c EXCEPT !.pc = pc] IN
         Moves(b, t, k) /\ Turning(t, k) /\ t.left = b.left
<1> DEFINE t == [c EXCEPT !.pc = pc]
<1>1. /\ t \in Delta /\ t.rite = b.rite /\ t.deeds = b.deeds /\ b.writes \subseteq t.writes
      /\ t.left = b.left /\ t.target = b.target /\ t.run /\ t.pc = pc
  BY PcWrites
<1> HIDE DEF t
<1> QED BY <1>1, Stepping DEF t

LEMMA CompleteMoves ==
  ASSUME NEW b \in Delta, NEW a \in Loci, NEW r \in RiteNames,
         Placed(b.rite)
  PROVE  LET t == [Ended(b, a, r) EXCEPT !.run = FALSE] IN
         /\ Moves(b, t, <<a, r>>) /\ Turning(t, <<a, r>>) /\ t.left = b.left
<1> DEFINE k == <<a, r>>
           u == Ended(b, a, r)
           t == [u EXCEPT !.run = FALSE]
<1>1. Rewrites(b, u, k) /\ u.deeds = b.deeds /\ DOMAIN u.rite = DOMAIN b.rite \ {k}
  BY EndedWrites
<1> HIDE DEF u
<1>2. u \in Delta /\ b.writes \subseteq u.writes /\ u.left = b.left /\ u.target = b.target
  BY <1>1 DEF Rewrites
<1>3. /\ t \in Delta /\ t.rite = u.rite /\ t.deeds = u.deeds /\ t.writes = u.writes
      /\ t.left = u.left /\ t.target = u.target /\ t.err = u.err /\ ~t.run
  BY <1>2, RunWrites
<1> HIDE DEF t
<1>4. k \notin DOMAIN u.rite
  BY <1>1
<1>5. Moves(b, u, k)
  BY <1>1, <1>4, RewritesMoves
<1>6. Moves(u, t, k)
  BY <1>2, <1>3, Silent DEF SameDeeds
<1>7. Moves(b, t, k)
  BY <1>5, <1>6, MovesTrans
<1>8. Placed(t.rite)
  BY <1>3, <1>4, <1>7, PlacedByKey
<1> QED BY <1>2, <1>3, <1>4, <1>7, <1>8 DEF Turning, t, u

LEMMA BindMoves ==
  ASSUME NEW b \in Delta, NEW e \in Env, NEW x \in Targets,
         Placed(b.rite), e.r \in RiteNames, b.run,
         <<e.a, e.r>> \in DOMAIN b.rite, b.pc + 1 \in DOMAIN Code(e.r), b.pc + 1 \in Nat
  PROVE  LET c == Rebound([b EXCEPT !.target = x], e, b.pc + 1, 0, None)
             t == [c EXCEPT !.pc = @ + 1] IN
         /\ Moves(b, t, <<e.a, e.r>>) /\ Turning(t, <<e.a, e.r>>) /\ t.left = b.left
<1> DEFINE k == <<e.a, e.r>>
           u == [b EXCEPT !.target = x]
           c == Rebound(u, e, b.pc + 1, 0, None)
           t == [c EXCEPT !.pc = b.pc + 1]
<1>1. /\ u \in Delta /\ u.rite = b.rite /\ u.deeds = b.deeds /\ u.writes = b.writes
      /\ u.left = b.left /\ u.target = x /\ u.run = b.run /\ u.pc = b.pc
  BY DEF Delta
<1> HIDE DEF u
<1>2. Moves(b, u, k)
  BY <1>1, Silent DEF SameDeeds
<1>3. /\ Moves(u, c, k) /\ c.left = u.left /\ c.target = u.target
      /\ c.run = u.run /\ c.pc = u.pc /\ DOMAIN c.rite = DOMAIN u.rite
      /\ c.rite[k].pc \in {b.pc + 1, u.rite[k].pc}
  <2>1. Placed(u.rite) /\ k \in DOMAIN u.rite
    BY <1>1
  <2>2. 0 \in Nat /\ None \in Channels \cup {None}
    OBVIOUS
  <2>3. c.left = u.left /\ c.target = u.target
    BY <1>1, <2>1, <2>2, ReboundMoves
  <2>4. Moves(u, c, k) 
    BY <1>1, <2>1, <2>2, ReboundMoves
  <2>5. c.pc = u.pc
    BY <1>1, <2>1, <2>2, ReboundMoves
  <2>8. c.run = u.run
    BY <1>1, <2>1, <2>2, ReboundMoves
  <2>6. DOMAIN c.rite = DOMAIN u.rite
    BY <1>1, <2>1, <2>2, ReboundMoves
  <2>7. c.rite[k].pc \in {b.pc + 1, u.rite[k].pc}
    BY <1>1, <2>1, <2>2, ReboundMoves
  <2> QED BY <2>3, <2>4, <2>5, <2>6, <2>7, <2>8
<1> HIDE DEF c
<1>4. c \in Delta
  BY <1>3 DEF Moves
<1>5. /\ t \in Delta /\ t.rite = c.rite /\ t.deeds = c.deeds /\ t.writes = c.writes
      /\ t.left = c.left /\ t.target = c.target /\ t.err = c.err /\ t.run = c.run
      /\ t.pc = b.pc + 1
  BY <1>4, PcWrites
<1>6. t = [c EXCEPT !.pc = @ + 1]
  BY <1>1, <1>3
<1> HIDE DEF t
<1>7. Moves(b, t, k)
  <2>1. Moves(c, t, k)
    BY <1>4, <1>5, Silent DEF SameDeeds
  <2> QED BY <1>2, <1>3, <2>1, MovesTrans
<1>8. Placed(t.rite)
  <2>1. k[2] \in Rites /\ b.rite[k].pc \in DOMAIN Code(k[2])
    BY DEF Placed
  <2> QED BY <1>1, <1>3, <1>5, <1>7, <2>1, PlacedByKey
<1> QED BY <1>1, <1>3, <1>5, <1>6, <1>7, <1>8 DEF Turning, t, c, u

(* What the slots and relations of a burst name.                           *)
LEMMA ResolveFacts ==
  ASSUME NEW b \in Delta, NEW e \in Env, NEW slot \in Slots
  PROVE  /\ Resolve(b, e, slot) \in Targets
         /\ slot = "this" => Resolve(b, e, slot) = e.a
         /\ slot \in Targets => Resolve(b, e, slot) = slot
<1>1. e.a \in Targets /\ b.target \in Targets
  BY DEF Env, Delta, Targets
<1>2. "this" \notin Targets /\ "target" \notin Targets
  BY WorldAssumption DEF Targets, None
<1> QED BY <1>1, <1>2 DEF Resolve, Slots

LEMMA RelatedFacts ==
  ASSUME NEW s, NEW l
  PROVE  Related(s, l) \in Targets
  BY DEF Related, Targets

(* What sets quantities or relations goes on as it is, or fails.           *)
Sets(b, c) ==
    /\ c \in Delta /\ c.rite = b.rite /\ c.deeds = b.deeds /\ b.writes \subseteq c.writes
    /\ c.left = b.left /\ c.target = b.target /\ c.run = b.run /\ c.pc = b.pc
    /\ c.err = b.err

LEMMA SetQtyWrites ==
  ASSUME NEW b \in Delta, NEW l \in Targets, NEW to \in Int
  PROVE  LET c == SetQty(b, l, to) IN
         \/ c = Fail(b)
         \/ /\ Sets(b, c) /\ c.parts = b.parts /\ l \in Loci
            /\ c.qty = [b.qty EXCEPT ![l] = to]
<1> DEFINE q == [b EXCEPT !.qty[l] = to]
           w == Wrote(q, l)
<1>1. CASE l = None
  BY <1>1 DEF SetQty
<1>2. CASE l # None
  <2>1. l \in Loci
    BY <1>2 DEF Targets
  <2>2. b.qty \in [Loci -> Int]
    BY DEF Delta
  <2>3. [b.qty EXCEPT ![l] = to] \in [Loci -> Int]
    BY <2>2
  <2>4. /\ q \in Delta /\ q.rite = b.rite /\ q.deeds = b.deeds /\ q.writes = b.writes
        /\ q.left = b.left /\ q.target = b.target /\ q.run = b.run /\ q.pc = b.pc
        /\ q.parts = b.parts /\ q.qty = [b.qty EXCEPT ![l] = to] /\ q.err = b.err
    BY <2>3 DEF Delta
  <2>5. SetQty(b, l, to) = w
    BY <1>2 DEF SetQty
  <2> HIDE DEF q
  <2>6. /\ w \in Delta /\ w.rite = q.rite /\ w.deeds = q.deeds
        /\ q.writes \subseteq w.writes /\ w.parts = q.parts /\ w.qty = q.qty
        /\ w.left = q.left /\ w.target = q.target /\ w.run = q.run /\ w.pc = q.pc
        /\ w.err = q.err
    BY <2>1, <2>4, WroteWrites
  <2> HIDE DEF w
  <2> QED BY <2>1, <2>4, <2>5, <2>6 DEF Sets
<1> QED BY <1>1, <1>2

LEMMA SetPartsWrites ==
  ASSUME NEW b \in Delta, NEW x \in Targets, NEW y \in Targets, NEW parts1,
         x \in Loci /\ y \in Loci => parts1 \subseteq Loci \X Loci
  PROVE  LET c == SetParts(b, x, y, parts1) IN
         \/ c = Fail(b)
         \/ /\ Sets(b, c) /\ c.qty = b.qty /\ x \in Loci /\ y \in Loci
            /\ c.parts = parts1
<1> DEFINE q == [b EXCEPT !.parts = parts1]
           v == Wrote(q, x)
           w == Wrote(v, y)
<1>1. CASE None \in {x, y}
  BY <1>1 DEF SetParts
<1>2. CASE None \notin {x, y}
  <2>1. x \in Loci /\ y \in Loci
    BY <1>2 DEF Targets
  <2>2. parts1 \in SUBSET (Loci \X Loci)
    BY <2>1
  <2>3. /\ q \in Delta /\ q.rite = b.rite /\ q.deeds = b.deeds /\ q.writes = b.writes
        /\ q.left = b.left /\ q.target = b.target /\ q.run = b.run /\ q.pc = b.pc
        /\ q.parts = parts1 /\ q.qty = b.qty /\ q.err = b.err
    BY <2>2 DEF Delta
  <2>4. SetParts(b, x, y, parts1) = w
    BY <1>2 DEF SetParts
  <2> HIDE DEF q
  <2>5. /\ v \in Delta /\ v.rite = q.rite /\ v.deeds = q.deeds
        /\ q.writes \subseteq v.writes /\ v.parts = q.parts /\ v.qty = q.qty
        /\ v.left = q.left /\ v.target = q.target /\ v.run = q.run /\ v.pc = q.pc
        /\ v.err = q.err
    BY <2>1, <2>3, WroteWrites
  <2> HIDE DEF v
  <2>6. /\ w \in Delta /\ w.rite = v.rite /\ w.deeds = v.deeds
        /\ v.writes \subseteq w.writes /\ w.parts = v.parts /\ w.qty = v.qty
        /\ w.left = v.left /\ w.target = v.target /\ w.run = v.run /\ w.pc = v.pc
        /\ w.err = v.err
    BY <2>1, <2>5, WroteWrites
  <2> HIDE DEF w
  <2> QED BY <2>1, <2>3, <2>4, <2>5, <2>6 DEF Sets
<1> QED BY <1>1, <1>2

LEMMA FailedMoves ==
  ASSUME NEW b \in Delta, NEW k, Placed(b.rite), NEW pc \in Nat
  PROVE  LET t == [Fail(b) EXCEPT !.pc = pc] IN
         Moves(b, t, k) /\ Turning(t, k) /\ t.left = b.left
<1> DEFINE u == Fail(b)
           t == [u EXCEPT !.pc = pc]
<1>1. u \in Delta /\ u.err /\ Moves(b, u, k) /\ u.left = b.left /\ u.rite = b.rite
  BY FailWrites, Failing
<1> HIDE DEF u
<1>2. /\ t \in Delta /\ t.rite = u.rite /\ t.deeds = u.deeds /\ t.writes = u.writes
      /\ t.left = u.left /\ t.err = u.err
  BY <1>1, PcWrites
<1> HIDE DEF t
<1>3. Moves(u, t, k)
  BY <1>1, <1>2, Silent DEF SameDeeds
<1>4. Moves(b, t, k)
  BY <1>1, <1>3, MovesTrans
<1> QED BY <1>1, <1>2, <1>4 DEF Turning, t, u

LEMMA ExecMoves ==
  ASSUME canon \in DOMAIN Canons, NEW b \in Delta, NEW e \in Env,
         Placed(b.rite), b.run,
         e.r \in Rites, <<e.a, e.r>> \in DOMAIN b.rite, b.pc \in DOMAIN Code(e.r)
  PROVE  LET t == Exec(b, e) IN
         /\ Moves(b, t, <<e.a, e.r>>) /\ Turning(t, <<e.a, e.r>>) /\ t.left = b.left
<1> DEFINE k == <<e.a, e.r>>
           i == Code(e.r)[b.pc]
           t == Exec(b, e)
           Fine(u) == Moves(b, u, k) /\ Turning(u, k) /\ u.left = b.left
<1>1. /\ e.r \in RiteNames /\ b.pc \in Nat \ {0} /\ i \in Instructions
      /\ Jumps(i) \subseteq DOMAIN Code(e.r)
      /\ i.op # "complete" => b.pc + 1 \in DOMAIN Code(e.r)
      /\ DOMAIN Code(e.r) \subseteq Nat
  BY CodeFacts
<1>2. e.a \in Loci /\ e.a \in Targets /\ k[2] = e.r
  BY DEF Env, Targets
<1>3. ASSUME NEW pc \in DOMAIN Code(e.r) PROVE Fine([b EXCEPT !.pc = pc])
  BY <1>1, <1>2, GoesOn
<1>4. ASSUME NEW c \in Delta, c.rite = b.rite, c.deeds = b.deeds, b.writes \subseteq c.writes,
             c.left = b.left, c.target = b.target, c.run, c.pc = b.pc,
             i.op # "complete"
      PROVE  Fine([c EXCEPT !.pc = @ + 1])
  <2>1. b.pc + 1 \in Nat /\ b.pc + 1 \in DOMAIN Code(k[2])
    BY <1>1, <1>2, <1>4
  <2> DEFINE u == [c EXCEPT !.pc = b.pc + 1]
  <2>2. Moves(b, u, k) /\ Turning(u, k) /\ u.left = b.left
    <3>1. u.left = b.left
      BY <1>4, PcWrites, <2>1
    <3>2. Moves(b, u, k)
      BY <1>4, <2>1, GoesOn
    <3>3. Turning(u, k)
      BY <1>4, <2>1, GoesOn
    <3> QED BY <3>1, <3>2, <3>3
  <2> QED BY <1>4, <2>2
<1>5. i.op \in {"complete", "guard", "branch", "spend", "wait", "emit", "bind", "setq",
                "reladd", "reldel", "spawn"}
  BY <1>1, InstructionFacts
<1>5a. ASSUME NEW c, c = Fail(b) \/ Sets(b, c), i.op # "complete"
       PROVE  Fine([c EXCEPT !.pc = @ + 1])
  <2>1. b.pc + 1 \in Nat
    BY <1>1
  <2>2. CASE c = Fail(b)
    <3>1. c.pc = b.pc
      BY <2>2 DEF Fail, Delta
    <3>2. Moves(b, [c EXCEPT !.pc = b.pc + 1], k)
      BY <2>1, <2>2, FailedMoves
    <3>3. Turning([c EXCEPT !.pc = b.pc + 1], k)
      BY <2>1, <2>2, FailedMoves
    <3>4. [c EXCEPT !.pc = b.pc + 1].left = b.left
      BY <2>1, <2>2, FailedMoves
    <3> QED BY <3>1, <3>2, <3>3, <3>4
  <2>3. CASE Sets(b, c)
    <3>1. /\ c \in Delta /\ c.rite = b.rite /\ c.deeds = b.deeds /\ b.writes \subseteq c.writes
          /\ c.left = b.left /\ c.target = b.target /\ c.run /\ c.pc = b.pc
      BY <2>3 DEF Sets
    <3> HIDE DEF Fine
    <3> QED BY <1>4, <1>5a, <3>1
  <2> QED BY <1>5a, <2>2, <2>3
<1>6. CASE i.op = "complete"
  <2>1. t = [Ended(b, e.a, e.r) EXCEPT !.run = FALSE]
    BY <1>6 DEF Exec
  <2> HIDE DEF t
  <2> QED BY <1>1, <1>2, <2>1, CompleteMoves DEF t
<1>7. CASE i.op = "guard"
  <2>1. t \in {[b EXCEPT !.pc = @ + 1], [b EXCEPT !.pc = i.fail]}
    BY <1>7 DEF Exec
  <2>2. i.fail \in DOMAIN Code(e.r) /\ b.pc + 1 \in DOMAIN Code(e.r)
    BY <1>1, <1>7, InstructionFacts
  <2> HIDE DEF t
  <2>3. Fine([b EXCEPT !.pc = i.fail])
    BY <1>3, <2>2, Zenon
  <2>4. Fine([b EXCEPT !.pc = b.pc + 1])
    BY <1>3, <2>2, Zenon
  <2> HIDE DEF Fine
  <2>5. Fine(t)
    BY <2>1, <2>3, <2>4
  <2> QED BY <2>5 DEF Fine, t
<1>8. CASE i.op = "branch"
  <2>1. t \in {[b EXCEPT !.pc = i.yes], [b EXCEPT !.pc = i.no]}
    BY <1>8 DEF Exec
  <2>2. i.yes \in DOMAIN Code(e.r) /\ i.no \in DOMAIN Code(e.r)
    BY <1>1, <1>8, InstructionFacts
  <2> HIDE DEF t
  <2>3. Fine([b EXCEPT !.pc = i.yes])
    BY <1>3, <2>2, Zenon
  <2>4. Fine([b EXCEPT !.pc = i.no])
    BY <1>3, <2>2, Zenon
  <2> HIDE DEF Fine
  <2>5. Fine(t)
    BY <2>1, <2>3, <2>4
  <2> QED BY <2>5 DEF Fine, t
<1>9. CASE i.op = "spend"
  <2> DEFINE q == [b EXCEPT !.qty[e.a] = @ - i.amount]
             c == Wrote(q, e.a)
  <2>1. t = IF b.qty[e.a] < i.amount THEN [b EXCEPT !.pc = i.fail]
            ELSE [c EXCEPT !.pc = @ + 1]
    BY <1>9 DEF Exec
  <2>2. i.fail \in DOMAIN Code(e.r) /\ i.amount \in Int
    BY <1>1, <1>9, InstructionFacts
  <2>3. CASE b.qty[e.a] < i.amount
    BY <1>3, <2>1, <2>2, <2>3
  <2>4. CASE ~(b.qty[e.a] < i.amount)
    <3>1. b.qty \in [Loci -> Int]
      BY DEF Delta
    <3>2. b.qty[e.a] - i.amount \in Int
      BY <1>2, <2>2, <2>4, <3>1
    <3>3. [b.qty EXCEPT ![e.a] = @ - i.amount] \in [Loci -> Int]
      BY <3>1, <3>2
    <3>4. /\ q \in Delta /\ q.rite = b.rite /\ q.deeds = b.deeds /\ q.writes = b.writes
          /\ q.left = b.left /\ q.target = b.target /\ q.run = b.run /\ q.pc = b.pc
      BY <3>3 DEF Delta
    <3> HIDE DEF q
    <3>5. /\ c \in Delta /\ c.rite = q.rite /\ c.deeds = q.deeds
          /\ q.writes \subseteq c.writes
          /\ c.left = q.left /\ c.target = q.target /\ c.run = q.run /\ c.pc = q.pc
      BY <1>2, <3>4, WroteWrites
    <3> HIDE DEF c
    <3>6. Fine([c EXCEPT !.pc = @ + 1])
      BY <1>4, <1>9, <3>4, <3>5
    <3> QED BY <2>1, <2>4, <3>6 DEF c, q
  <2> QED BY <2>3, <2>4
<1>10. CASE i.op = "wait"
  <2>1. t = Wait(b, e, i)
    BY <1>10 DEF Exec
  <2> HIDE DEF t
  <2> QED BY <1>10, <2>1, WaitMoves DEF t
<1>11. CASE i.op = "emit"
  <2> DEFINE c == [b EXCEPT !.emits = @ + 1]
  <2>1. t = [c EXCEPT !.pc = @ + 1]
    BY <1>11 DEF Exec
  <2>2. /\ c \in Delta /\ c.rite = b.rite /\ c.deeds = b.deeds /\ b.writes \subseteq c.writes
        /\ c.left = b.left /\ c.target = b.target /\ c.run = b.run /\ c.pc = b.pc
    <3>1. b.emits + 1 \in Nat
      BY DEF Delta
    <3> QED BY <3>1 DEF Delta
  <2> HIDE DEF c
  <2>3. Fine([c EXCEPT !.pc = @ + 1])
    BY <1>4, <1>11, <2>2
  <2> QED BY <2>1, <2>3
<1>12. CASE i.op = "bind"
  <2> DEFINE x == CASE i.src = "this" -> e.a
                    [] i.src = "target" -> b.target
                    [] i.src = "related" -> Related(b, e.a)
             c == Rebound([b EXCEPT !.target = x], e, b.pc + 1, 0, None)
  <2>1. t = [c EXCEPT !.pc = @ + 1]
    BY <1>12 DEF Exec
  <2>2. x \in Targets
    <3>1. i.src \in {"this", "target", "related"}
      BY <1>1, <1>12, InstructionFacts
    <3>2. b.target \in Targets /\ Related(b, e.a) \in Targets
      BY RelatedFacts DEF Delta
    <3> QED BY <1>2, <3>1, <3>2
  <2> HIDE DEF x, t
  <2>3. b.pc + 1 \in DOMAIN Code(e.r) /\ b.pc + 1 \in Nat
    BY <1>1, <1>12
  <2> QED BY <1>1, <2>1, <2>2, <2>3, BindMoves DEF t
<1>13. CASE i.op = "setq"
  <2> DEFINE l == Resolve(b, e, i.slot)
             c == SetQty(b, l, i.to)
  <2>1. t = [c EXCEPT !.pc = @ + 1]
    BY <1>13 DEF Exec
  <2>2. i.to \in Int /\ i.slot \in Slots
    BY <1>1, <1>13, InstructionFacts
  <2>3. l \in Targets
    BY <2>2, ResolveFacts
  <2> HIDE DEF l
  <2>4. c = Fail(b) \/ Sets(b, c)
    BY <2>2, <2>3, SetQtyWrites
  <2> HIDE DEF c, t
  <2>5. Fine([c EXCEPT !.pc = @ + 1])
    BY <1>13, <1>5a, <2>4
  <2> QED BY <2>1, <2>5 DEF t
<1>14. CASE i.op \in {"reladd", "reldel"}
  <2> DEFINE x == Resolve(b, e, i.x)
             y == Resolve(b, e, i.y)
             parts1 == IF i.op = "reladd" THEN b.parts \cup {<<x, y>>}
                       ELSE b.parts \ {<<x, y>>}
             c == SetParts(b, x, y, parts1)
  <2>1. t = [c EXCEPT !.pc = @ + 1]
    BY <1>14 DEF Exec
  <2>2. i.x \in Slots /\ i.y \in Slots
    BY <1>1, <1>14, InstructionFacts
  <2>3. x \in Targets /\ y \in Targets
    BY <2>2, ResolveFacts
  <2> HIDE DEF x, y
  <2>4. x \in Loci /\ y \in Loci => parts1 \subseteq Loci \X Loci
    BY DEF Delta
  <2> HIDE DEF parts1
  <2>5. c = Fail(b) \/ Sets(b, c)
    BY <2>3, <2>4, SetPartsWrites
  <2> HIDE DEF c, t
  <2>6. Fine([c EXCEPT !.pc = @ + 1])
    BY <1>14, <1>5a, <2>5
  <2> QED BY <2>1, <2>6 DEF t
<1>15. CASE i.op = "spawn"
  <2>1. t = [b EXCEPT !.pc = @ + 1]
    BY <1>15 DEF Exec
  <2>2. Fine([b EXCEPT !.pc = @ + 1])
    BY <1>4, <1>15
  <2> QED BY <2>1, <2>2
<1> QED
  BY <1>5, <1>6, <1>7, <1>8, <1>9, <1>10, <1>11, <1>12, <1>13, <1>14, <1>15

LEMMA OutMoves ==
  ASSUME NEW b \in Delta, NEW e \in Env, e.r \in RiteNames,
         Placed(b.rite)
  PROVE  LET t == OutOfSteps(b, e) IN
         /\ Moves(b, t, <<e.a, e.r>>) /\ Turning(t, <<e.a, e.r>>)
         /\ t.left = b.left /\ ~t.run
<1> DEFINE k == <<e.a, e.r>>
           u == Ended(b, e.a, e.r)
           v == [u EXCEPT !.run = FALSE]
           t == OutOfSteps(b, e)
<1>1. e.a \in Loci
  BY DEF Env
<1>2. Moves(b, v, k) /\ Turning(v, k) /\ v.left = b.left
  BY <1>1, CompleteMoves
<1>3. u \in Delta /\ k \notin DOMAIN u.rite
  BY <1>1, EndedWrites DEF Rewrites
<1>4. t = [u EXCEPT !.run = FALSE, !.deeds.cut = @ \cup {e.a}]
  BY DEF OutOfSteps
<1> HIDE DEF t, u
<1>5. u.deeds \in Deeds
  BY <1>3 DEF Delta
<1>6. /\ [u.deeds EXCEPT !.cut = @ \cup {e.a}] \in Deeds
      /\ LET d == [u.deeds EXCEPT !.cut = @ \cup {e.a}] IN
         /\ d.hits = u.deeds.hits /\ d.met = u.deeds.met /\ d.bound = u.deeds.bound
         /\ d.touched = u.deeds.touched /\ d.struck = u.deeds.struck
  BY <1>1, <1>5 DEF Deeds
<1>7. /\ t \in Delta /\ t.rite = u.rite /\ t.deeds = [u.deeds EXCEPT !.cut = @ \cup {e.a}]
      /\ t.writes = u.writes /\ t.left = u.left /\ t.target = u.target /\ ~t.run
  BY <1>3, <1>4, <1>6 DEF Delta
<1>8. /\ v \in Delta /\ v.rite = u.rite /\ v.deeds = u.deeds /\ v.writes = u.writes
      /\ v.left = u.left /\ v.target = u.target
  BY <1>3, RunWrites
<1> HIDE DEF v
<1>9. SameDeeds(v, t)
  BY <1>6, <1>7, <1>8 DEF SameDeeds
<1>10. Moves(v, t, k)
  BY <1>7, <1>8, <1>9, Silent
<1>11. Moves(b, t, k)
  BY <1>2, <1>10, MovesTrans
<1>12. Turning(t, k)
  BY <1>2, <1>3, <1>7, <1>8 DEF Turning
<1> QED BY <1>2, <1>7, <1>8, <1>11, <1>12 DEF t

LEMMA TurnMoves ==
  ASSUME canon \in DOMAIN Canons, NEW b, NEW e \in Env, e.r \in Rites,
         Turning(b, <<e.a, e.r>>), NEW n \in Nat, NEW last \in Nat,
         n <= last => b.left > 0
  PROVE  LET t == Turn(b, e, n, last) IN
         /\ Moves(b, t, <<e.a, e.r>>) /\ Turning(t, <<e.a, e.r>>)
         /\ n <= last => t.left >= b.left - 1
         /\ n > last => ~t.run \/ t.err
<1> DEFINE k == <<e.a, e.r>>
           t == Turn(b, e, n, last)
<1>1. b \in Delta /\ Placed(b.rite) /\ b.left \in Nat /\ k[2] = e.r
  BY DEF Turning, Delta
<1>2. e.r \in RiteNames
  BY CodeFacts
<1>3. CASE ~b.run \/ b.err
  <2>1. t = b
    BY <1>3 DEF Turn
  <2>2. Moves(b, b, k)
    BY <1>1, Silent DEF SameDeeds
  <2> HIDE DEF t
  <2> QED BY <1>1, <1>3, <2>1, <2>2 DEF t
<1>4. CASE ~(~b.run \/ b.err) /\ n > last
  <2>1. t = OutOfSteps(b, e)
    BY <1>4 DEF Turn
  <2> HIDE DEF t
  <2>2. /\ Moves(b, t, k) /\ Turning(t, k) /\ t.left = b.left /\ ~t.run
    BY <1>1, <1>2, <2>1, OutMoves
  <2> QED BY <1>1, <1>4, <2>2 DEF t
<1>5. CASE ~(~b.run \/ b.err) /\ ~(n > last)
  <2> DEFINE c == [b EXCEPT !.left = @ - 1]
  <2>1. t = Exec(c, e)
    BY <1>5 DEF Turn
  <2> HIDE DEF t
  <2>2. b.left - 1 \in Nat
    BY <1>1, <1>5
  <2>3. /\ c \in Delta /\ c.rite = b.rite /\ c.deeds = b.deeds /\ c.writes = b.writes
        /\ c.left = b.left - 1 /\ c.target = b.target /\ c.run = b.run /\ c.pc = b.pc
    BY <1>1, <2>2 DEF Delta
  <2> HIDE DEF c
  <2>4. k \in DOMAIN b.rite /\ b.pc \in DOMAIN Code(e.r) /\ b.run
    BY <1>1, <1>5 DEF Turning
  <2>5. Moves(b, c, k)
    BY <1>1, <2>3, Silent DEF SameDeeds
  <2>6. c.run
    BY <2>3, <2>4
  <2>7. Moves(c, t, k) /\ Turning(t, k) /\ t.left = c.left
    BY <1>1, <2>1, <2>3, <2>4, <2>6, ExecMoves
  <2>8. Moves(b, t, k)
    BY <2>5, <2>7, MovesTrans
  <2> QED BY <1>5, <2>3, <2>7, <2>8, <1>1 DEF t
<1> QED BY <1>3, <1>4, <1>5

LEMMA LeastOf ==
  ASSUME NEW S, S \subseteq Nat, S # {}
  PROVE  \E x \in S : \A y \in S : x <= y
<1> DEFINE R == {ss \in Nat \X Nat : ss[1] < ss[2]}
<1>1. IsWellFoundedOn(R, Nat)
  BY NatLessThanWellFounded, Zenon DEF OpToRel
<1>2. \A x, y \in Nat : x < y => <<x, y>> \in R
  OBVIOUS
<1> HIDE DEF R
<1>3. PICK x \in S : \A y \in S : ~(<<y, x>> \in R)
  BY <1>1, WFMin, Zenon
<1>4. \A y \in S : ~(y < x)
  BY <1>2, <1>3
<1>5. \A y \in S : x <= y
  BY <1>4
<1> QED BY <1>5

(* The loop of a burst, out of its LET.                                    *)
Steps(s) == IF Canons[canon].cap < s.left THEN Canons[canon].cap ELSE s.left
Loaded(s, pc, target) == [s EXCEPT !.run = TRUE, !.pc = pc, !.target = target]

Loop(x, e, last, N, run) ==
    [n \in 0 .. N |-> IF n = 0 THEN x
                      ELSE Once(run[n - 1], LAMBDA b : Turn(b, e, n, last))]

LEMMA OnceTurn ==
  ASSUME NEW x, NEW e, NEW n, NEW last
  PROVE  Once(x, LAMBDA b : Turn(b, e, n, last)) = Turn(x, e, n, last)
<1> DEFINE y == Turn(x, e, n, last)
<1>1. {Turn(b, e, n, last) : b \in {x}} = {y}
  OBVIOUS
<1> HIDE DEF y
<1>2. (CHOOSE z \in {y} : TRUE) = y
  OBVIOUS
<1> QED BY <1>1, <1>2 DEF Once, y

LEMMA BurstIsLoop ==
  ASSUME NEW s, NEW e, NEW pc, NEW target
  PROVE  Burst(s, e, pc, target) =
           (CHOOSE run : run = Loop(Loaded(s, pc, target), e, Steps(s), Steps(s) + 1, run))
             [Steps(s) + 1]
  BY DEF Burst, Loop, Loaded, Steps

LEMMA LoopRuns ==
  ASSUME NEW x, NEW e, NEW last, NEW N \in Nat
  PROVE  \E run : run = Loop(x, e, last, N, run)
<1> DEFINE bad == {n \in Nat : \A run : run # Loop(x, e, last, n, run)}
<1>1. SUFFICES ASSUME bad # {} PROVE FALSE
  OBVIOUS
<1>2. PICK m \in bad : \A n \in bad : m <= n
  BY <1>1, LeastOf
<1>3. CASE m = 0
  <2> DEFINE f == [n \in 0 .. 0 |-> x]
  <2>1. f = Loop(x, e, last, 0, f)
    BY DEF Loop
  <2> QED BY <1>2, <1>3, <2>1
<1>4. CASE m # 0
  <2>1. m - 1 \in Nat /\ m \in Nat /\ m - 1 \notin bad
    BY <1>2, <1>4
  <2>2. PICK g : g = Loop(x, e, last, m - 1, g)
    BY <2>1
  <2> DEFINE f == [n \in 0 .. m |-> IF n < m THEN g[n] ELSE Turn(g[m - 1], e, m, last)]
  <2>3. ASSUME NEW n \in 0 .. m
        PROVE  f[n] = IF n = 0 THEN x ELSE Turn(f[n - 1], e, n, last)
    <3>1. CASE n < m
      <4>1. n \in 0 .. m - 1 /\ f[n] = g[n]
        BY <2>1, <3>1
      <4>2. g[n] = IF n = 0 THEN x ELSE Once(g[n - 1], LAMBDA b : Turn(b, e, n, last))
        BY <2>2, <4>1 DEF Loop
      <4>3. n # 0 => f[n - 1] = g[n - 1]
        BY <2>1, <3>1
      <4>4. Once(g[n - 1], LAMBDA b : Turn(b, e, n, last)) = Turn(g[n - 1], e, n, last)
        BY OnceTurn
      <4>5. g[n] = IF n = 0 THEN x ELSE Turn(g[n - 1], e, n, last)
        BY <4>2, <4>4
      <4> HIDE DEF f
      <4> QED BY <4>1, <4>3, <4>5
    <3>2. CASE n = m
      <4>1. f[n] = Turn(g[m - 1], e, m, last) /\ f[m - 1] = g[m - 1]
        BY <2>1, <3>2
      <4> HIDE DEF f
      <4> QED BY <1>4, <3>2, <4>1
    <3> QED BY <2>1, <3>1, <3>2
  <2>4. f = [n \in 0 .. m |-> f[n]]
    OBVIOUS
  <2> HIDE DEF f
  <2>5. f = Loop(x, e, last, m, f)
    <3>1. \A n \in 0 .. m : f[n] = IF n = 0 THEN x
              ELSE Once(f[n - 1], LAMBDA b : Turn(b, e, n, last))
      <4>1. TAKE n \in 0 .. m
      <4>2. Once(f[n - 1], LAMBDA b : Turn(b, e, n, last)) = Turn(f[n - 1], e, n, last)
        BY OnceTurn
      <4> QED BY <2>3, <4>2
    <3> QED BY <2>4, <3>1 DEF Loop
  <2> QED BY <1>2, <2>5
<1> QED BY <1>3, <1>4

(* A burst moves its own machine, and leaves it behind a WAIT if it leaves *)
(* it at all.                                                              *)
(* A burst, turn by turn.                                                  *)
Burster(s, e, pc, target, last, f) ==
    /\ Burst(s, e, pc, target) = f[last + 1]
    /\ f[0] = Loaded(s, pc, target)
    /\ \A n \in 1 .. last + 1 : /\ f[n] = Turn(f[n - 1], e, n, last)
                                /\ n <= last => f[n - 1].left > 0
    /\ \A n \in 0 .. last + 1 : /\ Moves(s, f[n], <<e.a, e.r>>)
                                /\ Turning(f[n], <<e.a, e.r>>)
    /\ ~f[last + 1].run \/ f[last + 1].err

LEMMA BurstTurns ==
  ASSUME canon \in DOMAIN Canons, NEW s \in Delta, NEW e \in Env,
         NEW target \in Targets, Placed(s.rite),
         e.r \in Rites, <<e.a, e.r>> \in DOMAIN s.rite, NEW pc \in DOMAIN Code(e.r)
  PROVE  \E last \in Nat : \E f : Burster(s, e, pc, target, last, f)
<1> DEFINE k == <<e.a, e.r>>
           last == Steps(s)
           x == Loaded(s, pc, target)
           f == CHOOSE run : run = Loop(x, e, last, last + 1, run)
           Ok(n) == /\ Moves(s, f[n], k) /\ Turning(f[n], k)
                    /\ n <= last => f[n].left >= s.left - n
<1>1. /\ last \in Nat /\ last + 1 \in Nat /\ s.left \in Nat /\ last <= s.left
  <2>1. s.left \in Nat /\ Canons[canon].cap \in Nat
    BY CookAssumption DEF Delta
  <2> QED BY <2>1 DEF Steps
<1>2. Burst(s, e, pc, target) = f[last + 1]
  BY BurstIsLoop
<1>3. pc \in Nat /\ k[2] = e.r
  BY CodeFacts
<1> HIDE DEF last
<1>4. f = Loop(x, e, last, last + 1, f)
  <2>1. \E run : run = Loop(x, e, last, last + 1, run)
    BY <1>1, LoopRuns
  <2> QED BY <2>1
<1> HIDE DEF f
<1>5. f[0] = x /\ \A n \in 1 .. last + 1 : f[n] = Turn(f[n - 1], e, n, last)
  <2>1. \A n \in 0 .. last + 1 :
          f[n] = IF n = 0 THEN x ELSE Once(f[n - 1], LAMBDA b : Turn(b, e, n, last))
    BY <1>4, <1>1 DEF Loop
  <2>2. f[0] = x
    <3>1. 0 \in 0 .. last + 1
      BY <1>1
    <3> HIDE DEF x
    <3> QED BY <2>1, <3>1
  <2>3. ASSUME NEW n \in 1 .. last + 1 PROVE f[n] = Turn(f[n - 1], e, n, last)
    <3>1. Once(f[n - 1], LAMBDA b : Turn(b, e, n, last)) = Turn(f[n - 1], e, n, last)
      BY OnceTurn
    <3>2. n \in 0 .. last + 1 /\ n # 0
      BY <1>1
    <3> QED BY <2>1, <3>1, <3>2
  <2> QED BY <2>2, <2>3
<1>6. Ok(0)
  <2>1. /\ x \in Delta /\ x.rite = s.rite /\ x.deeds = s.deeds /\ x.writes = s.writes
        /\ x.left = s.left /\ x.target = target /\ x.pc = pc /\ x.run
    BY <1>3 DEF Loaded, Delta
  <2> HIDE DEF x
  <2>2. Moves(s, x, k)
    BY <2>1, Silent DEF SameDeeds
  <2>3. Turning(x, k)
    BY <1>3, <2>1 DEF Turning
  <2>4. x.left >= s.left - 0
    BY <1>1, <2>1
  <2> QED BY <1>5, <2>2, <2>3, <2>4
<1>7. ASSUME NEW n \in 1 .. last + 1, Ok(n - 1)
      PROVE  Ok(n) /\ (n > last => ~f[n].run \/ f[n].err)
  <2> DEFINE b == f[n - 1]
             t == Turn(b, e, n, last)
  <2>1. f[n] = t /\ n \in Nat
    BY <1>1, <1>5
  <2>2. Turning(b, k) /\ Moves(s, b, k)
    BY <1>7
  <2>3. b.left \in Nat
    BY <2>2 DEF Turning, Delta
  <2>4. n - 1 <= last
    BY <1>1
  <2>5. b.left >= s.left - (n - 1)
    BY <1>7, <2>4
  <2>6. n <= last => b.left > 0
    BY <1>1, <2>3, <2>5
  <2> HIDE DEF b, t
  <2>7. /\ Moves(b, t, k) /\ Turning(t, k)
        /\ n <= last => t.left >= b.left - 1
        /\ n > last => ~t.run \/ t.err
    BY <1>1, <2>1, <2>2, <2>6, TurnMoves DEF t
  <2>8. Moves(s, t, k)
    BY <2>2, <2>7, MovesTrans
  <2>9. t.left \in Nat
    BY <2>7 DEF Turning, Delta
  <2>10. n <= last => t.left >= s.left - n
    BY <1>1, <2>3, <2>5, <2>7, <2>9
  <2> QED BY <2>1, <2>7, <2>8, <2>10
<1>8. \A n \in 0 .. last + 1 : Ok(n)
  <2> HIDE DEF Ok
  <2> DEFINE bad == {n \in 0 .. last + 1 : ~Ok(n)}
  <2>1. SUFFICES ASSUME bad # {} PROVE FALSE
    OBVIOUS
  <2>2. bad \subseteq Nat
    BY <1>1
  <2>3. PICK m \in bad : \A n \in bad : m <= n
    BY <2>1, <2>2, LeastOf
  <2>4. m \in 1 .. last + 1 /\ m - 1 \in 0 .. last + 1
    BY <1>1, <1>6, <2>3
  <2>5. Ok(m - 1)
    BY <2>3, <2>4
  <2> QED BY <1>7, <2>3, <2>4, <2>5
<1>9. last + 1 \in 1 .. last + 1 /\ last + 1 \in 0 .. last + 1 /\ last \in 0 .. last + 1
      /\ (last + 1) - 1 = last /\ last + 1 > last
  BY <1>1
<1>10. ~f[last + 1].run \/ f[last + 1].err
  <2>1. Ok(last)
    BY <1>8, <1>9
  <2> HIDE DEF Ok
  <2> QED BY <1>7, <1>9, <2>1
<1>11. ASSUME NEW n \in 1 .. last + 1, n <= last PROVE f[n - 1].left > 0
  <2>1. n - 1 \in 0 .. last + 1 /\ n - 1 <= last
    BY <1>1, <1>11
  <2>2. Ok(n - 1)
    BY <1>8, <2>1
  <2>3. f[n - 1].left \in Nat
    BY <2>2 DEF Turning, Delta
  <2>4. f[n - 1].left >= s.left - (n - 1)
    BY <2>1, <2>2
  <2> QED BY <1>1, <1>11, <2>3, <2>4
<1>12. Burster(s, e, pc, target, last, f)
  <2> HIDE DEF x
  <2> QED BY <1>2, <1>5, <1>8, <1>10, <1>11 DEF Burster, x
<1> QED BY <1>1, <1>12

LEMMA BurstMoves ==
  ASSUME canon \in DOMAIN Canons, NEW s \in Delta, NEW e \in Env,
         NEW target \in Targets, Placed(s.rite),
         e.r \in Rites, <<e.a, e.r>> \in DOMAIN s.rite, NEW pc \in DOMAIN Code(e.r)
  PROVE  LET t == Burst(s, e, pc, target) IN
         /\ Moves(s, t, <<e.a, e.r>>) /\ Placed(t.rite)
         /\ ~t.err /\ <<e.a, e.r>> \in DOMAIN t.rite => Waits(t.rite, <<e.a, e.r>>)
<1> DEFINE t == Burst(s, e, pc, target)
<1>1. PICK last \in Nat : \E f : Burster(s, e, pc, target, last, f)
  BY BurstTurns
<1>1a. PICK f : Burster(s, e, pc, target, last, f)
  BY <1>1
<1>2. last + 1 \in 0 .. last + 1
  OBVIOUS
<1>3. /\ Moves(s, t, <<e.a, e.r>>) /\ Turning(t, <<e.a, e.r>>)
      /\ ~t.run \/ t.err
  BY <1>1a, <1>2 DEF Burster
<1> HIDE DEF t
<1> QED BY <1>3 DEF Turning, t

-----------------------------------------------------------------------------
(* Transactions.  What the accounts of a bound action need of the Canons   *)
(* and the packs.                                                          *)
TameTracks == MeleeTracks /\ TracksKept

(* What a bound action has done was witnessed, and it has hit once at most; *)
(* while it goes on it has not hit yet.  Its track is there, as far as the *)
(* packs keep it.                                                          *)
Follows(d, a) == d.bound[a] /\ a \in Tracked

Honest(d, a) ==
    /\ d.bound[a] /\ (epoch = 0 \/ MaxEpoch > 1) => a \in Tracked
    /\ Follows(d, a) =>
         /\ d.met[a] \subseteq 1 .. Track[a].ticks
         /\ d.hits[a] <= 1
         /\ d.hits[a] > 0 => d.met[a] # {} /\ d.struck[a] = d.touched[a]

Going(f, d, a) ==
    Follows(d, a) /\ <<a, "melee">> \in DOMAIN f =>
      /\ d.hits[a] = 0
      /\ f[<<a, "melee">>].hit =>
           d.met[a] # {} /\ f[<<a, "melee">>].target = d.touched[a]

Booked(f, d, A) ==
    TameTracks => \A a \in Actors : Honest(d, a) /\ (a \notin A => Going(f, d, a))

Fit(s, A) ==
    /\ s \in Delta
    /\ ~s.err => Placed(s.rite) /\ Resting(s.rite, {}) /\ Booked(s.rite, s.deeds, A)

(* The actions of others are left alone.                                   *)
Spares(s, t, A) ==
    /\ s.writes \subseteq t.writes
    /\ \A l \in Loci \ A :
         /\ <<l, "melee">> \in DOMAIN t.rite <=> <<l, "melee">> \in DOMAIN s.rite
         /\ <<l, "melee">> \in DOMAIN s.rite =>
              t.rite[<<l, "melee">>] = s.rite[<<l, "melee">>]

LEMMA SparesTrans ==
  ASSUME NEW s, NEW t, NEW u, NEW A, NEW B, Spares(s, t, A), Spares(t, u, B)
  PROVE  Spares(s, u, A \cup B)
  BY DEF Spares

LEMMA MovesSpares ==
  ASSUME NEW s, NEW t, NEW a \in Loci, NEW r \in RiteNames,
         Moves(s, t, <<a, r>>)
  PROVE  /\ Spares(s, t, {a})
         /\ r # "melee" => Spares(s, t, {})
<1>1. "melee" \in RiteNames
  BY DEF RiteNames
<1>2. \A l \in Loci : <<l, "melee">> \in Keys
  BY <1>1 DEF Keys
<1> QED BY <1>2 DEF Moves, Spares

(* Between its moves a burst leaves everybody resting but its machine.     *)
LEMMA BurstRests ==
  ASSUME NEW s \in Delta, NEW t, NEW k, Moves(s, t, k),
         Resting(s.rite, {k}), ~t.err, k \in DOMAIN t.rite => Behind(t.rite, k)
  PROVE  Resting(t.rite, {})
<1> SUFFICES ASSUME epoch = 0, NEW j \in DOMAIN t.rite PROVE Behind(t.rite, j)
  BY DEF Resting
<1>1. j \in Keys
  BY RowFacts DEF Moves
<1>2. CASE j # k
  <2>1. j \in DOMAIN s.rite /\ t.rite[j] = s.rite[j]
    BY <1>1, <1>2 DEF Moves
  <2> QED BY <1>2, <2>1 DEF Resting, Behind
<1> QED BY <1>2

(* A burst keeps the accounts: what has been hit it cannot bind anew.      *)
LEMMA BurstBooked ==
  ASSUME NEW s \in Delta, NEW t, NEW e \in Env, e.r \in RiteNames, NEW A,
         Moves(s, t, <<e.a, e.r>>), Booked(s.rite, s.deeds, A)
  PROVE  Booked(t.rite, t.deeds, A)
<1> SUFFICES ASSUME TameTracks, NEW a \in Actors
             PROVE  Honest(t.deeds, a) /\ (a \notin A => Going(t.rite, t.deeds, a))
  BY DEF Booked
<1>1. Honest(s.deeds, a) /\ (a \notin A => Going(s.rite, s.deeds, a))
  BY DEF Booked
<1>2. Honest(t.deeds, a)
  BY <1>1 DEF Moves, SameDeeds, Honest, Follows
<1>3. ASSUME a \notin A PROVE Going(t.rite, t.deeds, a)
  <2> DEFINE k == <<a, "melee">>
  <2>1. k \in Keys
    BY DEF Keys, Loci, RiteNames
  <2>2. CASE e.r = "melee" /\ e.a = a
    <3>1. Moves(s, t, k)
      BY <2>2
    <3>2. SUFFICES ASSUME Follows(t.deeds, a), k \in DOMAIN t.rite
                   PROVE  /\ t.deeds.hits[a] = 0
                          /\ t.rite[k].hit =>
                               t.deeds.met[a] # {} /\ t.rite[k].target = t.deeds.touched[a]
      BY DEF Going
    <3>3. /\ Follows(s.deeds, a) /\ k \in DOMAIN s.rite /\ t.rite[k].hit = s.rite[k].hit
          /\ t.deeds.hits[a] = s.deeds.hits[a] /\ t.deeds.met[a] = s.deeds.met[a]
          /\ t.deeds.touched[a] = s.deeds.touched[a]
          /\ \/ t.rite[k].target = s.rite[k].target
             \/ ~s.rite[k].hit
      BY <3>1, <3>2 DEF Moves, SameDeeds, Follows
    <3>4. /\ s.deeds.hits[a] = 0
          /\ s.rite[k].hit =>
               s.deeds.met[a] # {} /\ s.rite[k].target = s.deeds.touched[a]
      BY <1>1, <1>3, <3>3 DEF Going
    <3> QED BY <3>3, <3>4
  <2>3. CASE k # <<e.a, e.r>>
    <3>1. /\ k \in DOMAIN t.rite <=> k \in DOMAIN s.rite
          /\ k \in DOMAIN s.rite => t.rite[k] = s.rite[k]
          /\ SameDeeds(s, t)
      BY <2>1, <2>3 DEF Moves
    <3> QED BY <1>1, <1>3, <3>1 DEF Going, SameDeeds, Follows
  <2> QED BY <2>2, <2>3
<1> QED BY <1>2, <1>3

(* The accounts of an action that begins.                                  *)
OpenedDeeds(d, a, bound) ==
    [d EXCEPT !.hits[a] = 0, !.met[a] = {}, !.bound[a] = bound, !.touched[a] = None,
              !.struck[a] = None]

LEMMA OpenedDeedsFacts ==
  ASSUME NEW d \in Deeds, NEW a \in Actors, NEW bound \in BOOLEAN
  PROVE  LET c == OpenedDeeds(d, a, bound) IN
         /\ c \in Deeds /\ c.falls = d.falls /\ c.cut = d.cut
         /\ c.hits[a] = 0 /\ c.met[a] = {} /\ c.bound[a] = bound
         /\ \A l \in Actors \ {a} :
              /\ c.hits[l] = d.hits[l] /\ c.met[l] = d.met[l] /\ c.bound[l] = d.bound[l]
              /\ c.touched[l] = d.touched[l] /\ c.struck[l] = d.struck[l]
<1> DEFINE hits == [d.hits EXCEPT ![a] = 0]
           met == [d.met EXCEPT ![a] = {}]
           binds == [d.bound EXCEPT ![a] = bound]
           touched == [d.touched EXCEPT ![a] = None]
           struck == [d.struck EXCEPT ![a] = None]
           c == [d EXCEPT !.hits = hits, !.met = met, !.bound = binds,
                          !.touched = touched, !.struck = struck]
<1>1. OpenedDeeds(d, a, bound) = c
  BY DEF OpenedDeeds, Deeds
<1>2. /\ d.hits \in [Actors -> Nat] /\ d.met \in [Actors -> SUBSET (0 .. MaxAge)]
      /\ d.bound \in [Actors -> BOOLEAN] /\ d.touched \in [Actors -> Targets]
      /\ d.struck \in [Actors -> Targets]
  BY DEF Deeds
<1>4. /\ hits \in [Actors -> Nat] /\ met \in [Actors -> SUBSET (0 .. MaxAge)]
      /\ binds \in [Actors -> BOOLEAN] /\ touched \in [Actors -> Targets]
      /\ struck \in [Actors -> Targets]
  BY <1>2 DEF Targets
<1>5. /\ hits[a] = 0 /\ met[a] = {} /\ binds[a] = bound
      /\ \A l \in Actors \ {a} : /\ hits[l] = d.hits[l] /\ met[l] = d.met[l]
                                 /\ binds[l] = d.bound[l]
                                 /\ touched[l] = d.touched[l] /\ struck[l] = d.struck[l]
  BY <1>2
<1> HIDE DEF hits, met, binds, touched, struck
<1>6. /\ c \in Deeds /\ c.hits = hits /\ c.met = met /\ c.bound = binds
      /\ c.touched = touched /\ c.struck = struck /\ c.falls = d.falls /\ c.cut = d.cut
  BY <1>4 DEF Deeds
<1> HIDE DEF c
<1> QED BY <1>1, <1>5, <1>6

LEMMA OpenedWrites ==
  ASSUME NEW s \in Delta, NEW e \in Env, e.a \in Actors, NEW verb
  PROVE  LET t == Opened(s, e, verb)
             bound == Bound(e.a, e.r) /\ verb # "fire" IN
         /\ t \in Delta /\ t.rite = s.rite /\ t.writes = s.writes /\ t.err = s.err
         /\ t.left = s.left /\ t.emits = s.emits /\ t.qty = s.qty /\ t.parts = s.parts
         /\ t.deeds = OpenedDeeds(s.deeds, e.a, bound)
<1> DEFINE bound == Bound(e.a, e.r) /\ verb # "fire"
           d == OpenedDeeds(s.deeds, e.a, bound)
           u == [s EXCEPT !.deeds = d]
<1>1. s.deeds \in Deeds
  BY DEF Delta
<1>2. bound \in BOOLEAN
  BY DEF Bound
<1>3. Opened(s, e, verb) = u
  BY <1>1 DEF Opened, OpenedDeeds, Delta, Deeds
<1> HIDE DEF bound
<1>4. d \in Deeds
  BY <1>1, <1>2, OpenedDeedsFacts
<1> HIDE DEF d
<1>5. /\ u \in Delta /\ u.rite = s.rite /\ u.writes = s.writes /\ u.err = s.err
      /\ u.left = s.left /\ u.emits = s.emits /\ u.qty = s.qty /\ u.parts = s.parts
      /\ u.deeds = d
  BY <1>4 DEF Delta
<1> HIDE DEF u
<1> QED BY <1>3, <1>5 DEF bound, d

LEMMA BeganWrites ==
  ASSUME NEW s \in Delta, NEW v \in Loci, NEW r \in RiteNames, NEW target \in Targets
  PROVE  LET t == Began(s, v, r, target)
             k == <<v, r>> IN
         /\ Rewrites(s, t, k) /\ t.deeds = s.deeds
         /\ DOMAIN t.rite = DOMAIN s.rite \cup {k} /\ t.rite[k] = Fresh(target)
<1>1. Fresh(target) \in Row
  BY MaxAgeNat DEF Fresh, Row
<1> QED BY <1>1, PutWrote DEF Began

(* An action begins: its machine is at its first instruction.              *)
LEMMA BeganFit ==
  ASSUME canon \in DOMAIN Canons, NEW s, NEW A, Fit(s, A), ~s.err,
         NEW v \in Loci, NEW r \in Rites, NEW target \in Targets
  PROVE  LET t == Began(s, v, r, target)
             k == <<v, r>> IN
         /\ t \in Delta /\ ~t.err /\ t.left = s.left /\ t.deeds = s.deeds
         /\ Placed(t.rite) /\ Resting(t.rite, {k}) /\ k \in DOMAIN t.rite
         /\ ~t.rite[k].hit
         /\ Booked(t.rite, t.deeds, A \cup {v})
         /\ r # "melee" => Booked(t.rite, t.deeds, A)
         /\ Spares(s, t, {v}) /\ (r # "melee" => Spares(s, t, {}))
<1> DEFINE t == Began(s, v, r, target)
           k == <<v, r>>
<1>1. /\ s \in Delta /\ s.deeds \in Deeds
      /\ Placed(s.rite) /\ Resting(s.rite, {}) /\ Booked(s.rite, s.deeds, A)
  BY DEF Fit, Delta
<1>2. r \in RiteNames /\ 1 \in DOMAIN Code(r)
  <2>1. r \in RiteNames /\ Code(r) \in Seq(Instructions) /\ Len(Code(r)) \in DOMAIN Code(r)
    BY CodeFacts
  <2> QED BY <2>1
<1>3. /\ Rewrites(s, t, k) /\ t.deeds = s.deeds
      /\ DOMAIN t.rite = DOMAIN s.rite \cup {k} /\ t.rite[k] = Fresh(target)
  BY <1>1, <1>2, BeganWrites
<1> HIDE DEF t
<1>4. /\ t \in Delta /\ ~t.err /\ t.left = s.left /\ s.writes \subseteq t.writes
      /\ \A j \in DOMAIN t.rite \ {k} : j \in DOMAIN s.rite /\ t.rite[j] = s.rite[j]
  <2>1. t \in Delta
    BY <1>3 DEF Rewrites
  <2>2. \A j \in DOMAIN t.rite : j \in Keys
    BY <2>1, RowFacts
  <2> QED BY <1>3, <2>2 DEF Rewrites
<1>5. t.rite[k].pc = 1 /\ t.rite[k].target = target /\ t.rite[k].hit = FALSE
  BY <1>3 DEF Fresh
<1>6. Placed(t.rite)
  BY <1>1, <1>2, <1>4, <1>5 DEF Placed
<1>7. Resting(t.rite, {k})
  BY <1>1, <1>4 DEF Resting, Behind
<1>8. /\ Spares(s, t, {v}) /\ (r # "melee" => Spares(s, t, {}))
  <2>1. \A l \in Loci : <<l, "melee">> \in Keys
    BY DEF Keys, RiteNames
  <2> QED BY <1>3, <2>1 DEF Rewrites, Spares
<1>9. ASSUME NEW B, A \subseteq B, r = "melee" => v \in B
      PROVE  Booked(t.rite, t.deeds, B)
  <2> SUFFICES ASSUME TameTracks, NEW a \in Actors
               PROVE  Honest(t.deeds, a) /\ (a \notin B => Going(t.rite, t.deeds, a))
    BY DEF Booked
  <2>1. Honest(s.deeds, a) /\ (a \notin A => Going(s.rite, s.deeds, a))
    BY <1>1 DEF Booked
  <2>2. ASSUME a \notin B PROVE Going(t.rite, t.deeds, a)
    <3>1. <<a, "melee">> # k
      BY <1>9, <2>2
    <3>2. /\ <<a, "melee">> \in DOMAIN t.rite <=> <<a, "melee">> \in DOMAIN s.rite
          /\ <<a, "melee">> \in DOMAIN s.rite =>
               t.rite[<<a, "melee">>] = s.rite[<<a, "melee">>]
      BY <1>3, <1>4, <3>1
    <3> QED BY <1>3, <1>9, <2>1, <2>2, <3>2 DEF Going
  <2> QED BY <1>3, <2>1, <2>2
<1>10. Booked(t.rite, t.deeds, A \cup {v})
  BY <1>9
<1>11. r # "melee" => Booked(t.rite, t.deeds, A)
  BY <1>9
<1> QED BY <1>2, <1>3, <1>4, <1>5, <1>6, <1>7, <1>8, <1>10, <1>11 DEF t

(* Its account is opened.                                                  *)
LEMMA OpenedFit ==
  ASSUME canon \in DOMAIN Canons, NEW s \in Delta, NEW e \in Env, e.a \in Actors, NEW verb,
         Booked(s.rite, s.deeds, {e.a}),
         e.r = "melee" => ~s.rite[<<e.a, "melee">>].hit
  PROVE  LET t == Opened(s, e, verb) IN
         /\ Booked(t.rite, t.deeds, {})
         /\ t.deeds.bound[e.a] = (Bound(e.a, e.r) /\ verb # "fire")
<1> DEFINE t == Opened(s, e, verb)
           bound == Bound(e.a, e.r) /\ verb # "fire"
<1>1. s.deeds \in Deeds /\ bound \in BOOLEAN
  BY DEF Delta, Bound
<1>2. t.rite = s.rite /\ t.deeds = OpenedDeeds(s.deeds, e.a, bound)
  BY OpenedWrites
<1> HIDE DEF t
<1>3. /\ t.deeds.hits[e.a] = 0 /\ t.deeds.met[e.a] = {} /\ t.deeds.bound[e.a] = bound
      /\ \A l \in Actors \ {e.a} :
           /\ t.deeds.hits[l] = s.deeds.hits[l] /\ t.deeds.met[l] = s.deeds.met[l]
           /\ t.deeds.bound[l] = s.deeds.bound[l]
           /\ t.deeds.touched[l] = s.deeds.touched[l]
           /\ t.deeds.struck[l] = s.deeds.struck[l]
  <2> HIDE DEF bound
  <2> QED BY <1>1, <1>2, OpenedDeedsFacts
<1>4. Booked(t.rite, t.deeds, {})
  <2> SUFFICES ASSUME TameTracks, NEW a \in Actors
               PROVE  Honest(t.deeds, a) /\ Going(t.rite, t.deeds, a)
    BY DEF Booked
  <2>1. Honest(s.deeds, a) /\ (a # e.a => Going(s.rite, s.deeds, a))
    BY DEF Booked
  <2>2. CASE a = e.a
    <3>1. bound => e.r = "melee" /\ e.a \in Tracked
      <4>1. \A x \in Tracked : Track[x].rite = "melee"
        BY DEF TameTracks, MeleeTracks, Track, Tracked
      <4> QED BY <4>1 DEF Bound
    <3> HIDE DEF bound
    <3>2. Honest(t.deeds, a)
      BY <1>3, <2>2, <3>1 DEF Honest, Follows
    <3>3. Going(t.rite, t.deeds, a)
      BY <1>2, <1>3, <2>2, <3>1 DEF Going, Follows
    <3> QED BY <3>2, <3>3
  <2>3. CASE a # e.a
    BY <1>2, <1>3, <2>1, <2>3 DEF Honest, Going, Follows
  <2> QED BY <2>2, <2>3
<1> QED BY <1>3, <1>4 DEF t

(* A burst that is begun, on any machine, and left to run.                 *)
LEMMA StartedFit ==
  ASSUME canon \in DOMAIN Canons, NEW s \in Delta, NEW A, ~s.err,
         NEW e \in Env, e.r \in Rites, NEW target \in Targets, NEW pc \in DOMAIN Code(e.r),
         Placed(s.rite), Resting(s.rite, {<<e.a, e.r>>}), Booked(s.rite, s.deeds, A),
         <<e.a, e.r>> \in DOMAIN s.rite
  PROVE  LET t == Burst(s, e, pc, target) IN
         /\ Fit(t, A) /\ Spares(s, t, {e.a}) /\ (e.r # "melee" => Spares(s, t, {}))
         /\ Moves(s, t, <<e.a, e.r>>)
<1> DEFINE k == <<e.a, e.r>>
           t == Burst(s, e, pc, target)
<1>1. e.a \in Loci /\ e.r \in RiteNames
  BY CodeFacts DEF Env
<1>2. Moves(s, t, k) /\ Placed(t.rite) /\ (~t.err /\ k \in DOMAIN t.rite => Behind(t.rite, k))
  BY <1>1, BurstMoves DEF Waits
<1> HIDE DEF t
<1>3. Spares(s, t, {e.a}) /\ (e.r # "melee" => Spares(s, t, {}))
  BY <1>1, <1>2, MovesSpares
<1>4. ~t.err => Resting(t.rite, {})
  BY <1>2, BurstRests
<1>5. Booked(t.rite, t.deeds, A)
  BY <1>1, <1>2, BurstBooked
<1> QED BY <1>2, <1>3, <1>4, <1>5 DEF Moves, Fit, t

LEMMA DrivenFit ==
  ASSUME canon \in DOMAIN Canons, NEW s, NEW A, Fit(s, A), ~s.err, NEW e \in Env,
         NEW v \in Loci, NEW r \in Rites, r \in {"apply_hit", "collapse"}
  PROVE  Fit(Driven(s, e, v, r), A) /\ Spares(s, Driven(s, e, v, r), {})
<1> DEFINE d == [e EXCEPT !.a = v, !.r = r]
           u == Began(s, v, r, v)
           t == Burst(u, d, 1, v)
<1>1. r \in RiteNames /\ 1 \in DOMAIN Code(r) /\ v \in Targets
  <2>1. r \in RiteNames /\ Code(r) \in Seq(Instructions) /\ Len(Code(r)) \in DOMAIN Code(r)
    BY CodeFacts
  <2> QED BY <2>1 DEF Targets
<1>2. d \in Env /\ d.a = v /\ d.r = r
  BY <1>1 DEF Env
<1>3. /\ u \in Delta /\ ~u.err
      /\ Placed(u.rite) /\ Resting(u.rite, {<<v, r>>}) /\ <<v, r>> \in DOMAIN u.rite
      /\ Booked(u.rite, u.deeds, A) /\ Spares(s, u, {})
  <2>1. r # "melee"
    OBVIOUS
  <2> QED BY <1>1, <2>1, BeganFit
<1> HIDE DEF u, d
<1>4. Fit(t, A) /\ Spares(u, t, {})
  <2>1. d.r # "melee"
    BY <1>2
  <2> QED BY <1>1, <1>2, <1>3, <2>1, StartedFit
<1> HIDE DEF t
<1>5. Spares(s, t, {} \cup {})
  BY <1>3, <1>4, SparesTrans
<1> QED BY <1>4, <1>5 DEF Driven, t, u, d

LEMMA CollapseFit ==
  ASSUME canon \in DOMAIN Canons, NEW s, NEW A, Fit(s, A), ~s.err, NEW e \in Env,
         NEW v \in Loci
  PROVE  Fit(Collapse(s, e, v), A) /\ Spares(s, Collapse(s, e, v), {})
<1> DEFINE falls == IF s.deeds.falls[v] < 2 THEN s.deeds.falls[v] + 1 ELSE 2
           d == [s.deeds EXCEPT !.falls[v] = falls]
           u == [s EXCEPT !.deeds = d]
<1>1. \/ Collapse(s, e, v) = s
      \/ "collapse" \in Rites /\ Collapse(s, e, v) = Driven(u, e, v, "collapse")
  BY DEF Collapse
<1>2. s \in Delta /\ s.deeds \in Deeds
  BY DEF Fit, Delta
<1>3. s.deeds.falls \in [Loci -> 0 .. 2]
  BY <1>2 DEF Deeds
<1>4. falls \in 0 .. 2
  BY <1>3
<1> HIDE DEF falls
<1>5. /\ d \in Deeds /\ d.hits = s.deeds.hits /\ d.met = s.deeds.met
      /\ d.bound = s.deeds.bound /\ d.touched = s.deeds.touched
      /\ d.struck = s.deeds.struck
  <2>1. [s.deeds.falls EXCEPT ![v] = falls] \in [Loci -> 0 .. 2]
    BY <1>3, <1>4
  <2> QED BY <1>2, <2>1 DEF Deeds
<1> HIDE DEF d
<1>6. u \in Delta /\ u.rite = s.rite /\ u.deeds = d /\ u.err = s.err /\ u.writes = s.writes
  BY <1>2, <1>5 DEF Delta
<1> HIDE DEF u
<1>7. Fit(u, A) /\ ~u.err /\ Spares(s, u, {})
  <2>1. Placed(s.rite) /\ Resting(s.rite, {}) /\ Booked(s.rite, s.deeds, A)
    BY DEF Fit
  <2>2. Booked(u.rite, u.deeds, A)
    BY <1>5, <1>6, <2>1 DEF Booked, Honest, Going, Follows
  <2> QED BY <1>6, <2>1, <2>2 DEF Fit, Spares
<1>8. CASE Collapse(s, e, v) = s
  BY <1>8 DEF Spares
<1>9. CASE "collapse" \in Rites /\ Collapse(s, e, v) = Driven(u, e, v, "collapse")
  <2>1. Fit(Driven(u, e, v, "collapse"), A) /\ Spares(u, Driven(u, e, v, "collapse"), {})
    BY <1>7, <1>9, DrivenFit
  <2>2. Spares(s, Driven(u, e, v, "collapse"), {} \cup {})
    BY <1>7, <2>1, SparesTrans
  <2> QED BY <1>9, <2>1, <2>2
<1> QED BY <1>1, <1>8, <1>9

(* The bound action of a may strike target: it has met it, and not hit yet. *)
Entitled(d, a, target) ==
    TameTracks /\ Follows(d, a) =>
      d.hits[a] = 0 /\ d.met[a] # {} /\ target = d.touched[a]

LEMMA FitMore ==
  ASSUME NEW s, NEW A, NEW B, Fit(s, A), A \subseteq B
  PROVE  Fit(s, B)
  BY DEF Fit, Booked

LEMMA StruckFit ==
  ASSUME canon \in DOMAIN Canons, NEW s, NEW A, Fit(s, A), ~s.err, NEW e \in Env,
         e.a \in Actors, NEW target \in Loci, Entitled(s.deeds, e.a, target),
         NEW v \in Loci,
         NEW B, A \subseteq B, e.a \in B \/ (TameTracks => ~Follows(s.deeds, e.a))
  PROVE  Fit(Struck(s, e, target, v), B) /\ Spares(s, Struck(s, e, target, v), {})
<1> DEFINE a == e.a
           hits == [s.deeds.hits EXCEPT ![a] = @ + 1]
           struck == [s.deeds.struck EXCEPT ![a] = target]
           d == [s.deeds EXCEPT !.hits = hits, !.struck = struck]
           u == [s EXCEPT !.deeds = d]
           w == [s EXCEPT !.deeds.hits[e.a] = @ + 1, !.deeds.struck[e.a] = target]
<1>1. Struck(s, e, target, v) = IF "apply_hit" \in Rites THEN Driven(w, e, v, "apply_hit") ELSE w
  BY DEF Struck
<1>2. s \in Delta /\ s.deeds \in Deeds
  BY DEF Fit, Delta
<1>3. w = u
  BY <1>2 DEF Delta, Deeds
<1> HIDE DEF w
<1>4. s.deeds.hits \in [Actors -> Nat] /\ s.deeds.struck \in [Actors -> Targets]
  BY <1>2 DEF Deeds
<1>5. /\ hits \in [Actors -> Nat] /\ struck \in [Actors -> Targets]
      /\ hits[a] = s.deeds.hits[a] + 1 /\ struck[a] = target
      /\ \A l \in Actors \ {a} : hits[l] = s.deeds.hits[l] /\ struck[l] = s.deeds.struck[l]
  BY <1>4 DEF Targets
<1> HIDE DEF hits, struck
<1>6. /\ d \in Deeds /\ d.hits = hits /\ d.struck = struck
      /\ d.met = s.deeds.met /\ d.bound = s.deeds.bound /\ d.touched = s.deeds.touched
  BY <1>2, <1>5 DEF Deeds
<1> HIDE DEF d
<1>7. u \in Delta /\ u.rite = s.rite /\ u.deeds = d /\ u.err = s.err /\ u.writes = s.writes
  BY <1>2, <1>6 DEF Delta
<1> HIDE DEF u
<1>8. Placed(s.rite) /\ Resting(s.rite, {}) /\ Booked(s.rite, s.deeds, A)
  BY DEF Fit
<1>9. Booked(u.rite, u.deeds, B)
  <2> SUFFICES ASSUME TameTracks, NEW l \in Actors
               PROVE  Honest(d, l) /\ (l \notin B => Going(s.rite, d, l))
    BY <1>7 DEF Booked
  <2>1. Honest(s.deeds, l) /\ (l \notin A => Going(s.rite, s.deeds, l))
    BY <1>8 DEF Booked
  <2>2. CASE l # a
    <3>1. /\ d.hits[l] = s.deeds.hits[l] /\ d.struck[l] = s.deeds.struck[l]
          /\ d.met[l] = s.deeds.met[l] /\ d.bound[l] = s.deeds.bound[l]
          /\ d.touched[l] = s.deeds.touched[l]
      BY <1>5, <1>6, <2>2
    <3> QED BY <2>1, <3>1 DEF Honest, Going, Follows
  <2>3. CASE l = a
    <3>1. Follows(d, a) => d.hits[a] = 1
      BY <1>5, <1>6 DEF Entitled, Follows
    <3>2. Honest(d, l)
      BY <1>5, <1>6, <2>1, <2>3, <3>1 DEF Honest, Entitled, Follows
    <3>3. l \notin B => Going(s.rite, d, l)
      BY <1>6, <2>3 DEF Going, Follows
    <3> QED BY <3>2, <3>3
  <2> QED BY <2>2, <2>3
<1>10. Fit(u, B) /\ ~u.err /\ Spares(s, u, {})
  BY <1>7, <1>8, <1>9 DEF Fit, Spares
<1>11. CASE "apply_hit" \notin Rites
  BY <1>1, <1>3, <1>10, <1>11
<1>12. CASE "apply_hit" \in Rites
  <2>1. Fit(Driven(u, e, v, "apply_hit"), B) /\ Spares(u, Driven(u, e, v, "apply_hit"), {})
    BY <1>10, <1>12, DrivenFit
  <2>2. Spares(s, Driven(u, e, v, "apply_hit"), {} \cup {})
    BY <1>10, <2>1, SparesTrans
  <2> QED BY <1>1, <1>3, <1>12, <2>1, <2>2
<1> QED BY <1>11, <1>12

LEMMA ParentFacts ==
  ASSUME NEW s \in Delta, NEW t \in Loci
  PROVE  Parent(s, t) \in Loci
  BY DEF Parent

LEMMA ApplyHitFit ==
  ASSUME canon \in DOMAIN Canons, NEW s, NEW A, Fit(s, A), NEW e \in Env,
         e.a \in Actors, NEW target \in Targets,
         ~s.err => Entitled(s.deeds, e.a, target),
         NEW B, A \subseteq B, e.a \in B \/ (TameTracks => ~Follows(s.deeds, e.a))
  PROVE  Fit(ApplyHit(s, e, target), B) /\ Spares(s, ApplyHit(s, e, target), {})
<1> DEFINE v == Parent(s, target)
           u == Struck(s, e, target, v)
           w == ApplyHit(s, e, target)
<1>1. s \in Delta
  BY DEF Fit
<1>2. CASE s.err \/ target = None \/ s.emits = 0
  <2>1. w = s
    BY <1>2 DEF ApplyHit
  <2>2. Fit(s, B)
    BY FitMore
  <2> QED BY <2>1, <2>2 DEF Spares
<1>3. CASE ~(s.err \/ target = None \/ s.emits = 0)
  <2>1. target \in Loci
    BY <1>3 DEF Targets
  <2>2. v \in Loci
    BY <1>1, <2>1, ParentFacts
  <2>3. w = AndFalls(u, e, v, MayCollapse(s, v))
    BY <1>3 DEF ApplyHit, HitOn
  <2> HIDE DEF v, w
  <2>4. Entitled(s.deeds, e.a, target)
    BY <1>3
  <2>5. Fit(u, B) /\ Spares(s, u, {})
    BY <1>3, <2>1, <2>2, <2>4, StruckFit
  <2> HIDE DEF u
  <2>6. \/ w = u
        \/ ~u.err /\ w = Collapse(u, e, v)
    BY <2>3 DEF AndFalls
  <2>7. CASE w = u
    BY <2>5, <2>7 DEF w
  <2>8. CASE ~u.err /\ w = Collapse(u, e, v)
    <3>1. Fit(w, B) /\ Spares(u, w, {})
      BY <2>2, <2>5, <2>8, CollapseFit
    <3>2. Spares(s, w, {} \cup {})
      BY <2>5, <3>1, SparesTrans
    <3> QED BY <3>1, <3>2 DEF w
  <2> QED BY <2>6, <2>7, <2>8
<1> QED BY <1>2, <1>3

-----------------------------------------------------------------------------
(* Intents.                                                                *)
LEMMA FailFit ==
  ASSUME NEW s, NEW A, NEW B, Fit(s, A)
  PROVE  Fit(Fail(s), B) /\ Spares(s, Fail(s), {})
<1>1. s \in Delta
  BY DEF Fit
<1>2. Fail(s) \in Delta /\ Fail(s).err /\ Fail(s).rite = s.rite
  BY <1>1, FailWrites
<1>3. Fail(s).writes = s.writes
  BY <1>1 DEF Fail, Delta
<1> QED BY <1>2, <1>3 DEF Fit, Spares

LEMMA MoreSpares ==
  ASSUME NEW s, NEW t, NEW A, NEW B, Spares(s, t, A), A \subseteq B
  PROVE  Spares(s, t, B)
  BY DEF Spares

(* An actor no track binds, now, is resumed.                               *)
LEMMA ResumeFit ==
  ASSUME canon \in DOMAIN Canons, NEW s, Fit(s, {}), ~s.err, NEW e \in Env,
         e.a \in Actors, e.r \in Rites, <<e.a, e.r>> \in DOMAIN s.rite,
         NEW target \in Targets
  PROVE  LET t == Resume(s, e, s.rite[<<e.a, e.r>>], target) IN
         Fit(t, {}) /\ Spares(s, t, {e.a})
<1> DEFINE k == <<e.a, e.r>>
           m == s.rite[k]
           b == Burst(s, e, m.pc, target)
           t == Resume(s, e, m, target)
<1>1. t \in {Fail(s), MeleeHit(b, e, target, e.r = "melee")}
      /\ (Bound(e.a, e.r) => t = Fail(s))
  BY DEF Resume
<1>2. CASE t = Fail(s)
  BY <1>2, FailFit, MoreSpares
<1>3. CASE t = MeleeHit(b, e, target, e.r = "melee") /\ ~Bound(e.a, e.r)
  <2>1. /\ s \in Delta /\ Placed(s.rite) /\ Resting(s.rite, {})
        /\ Booked(s.rite, s.deeds, {})
    BY DEF Fit
  <2>2. Resting(s.rite, {k}) /\ m.pc \in DOMAIN Code(e.r)
    BY <2>1 DEF Resting, Placed
  <2>3. TameTracks /\ e.r = "melee" => e.a \notin Tracked
    BY <1>3 DEF Bound, TameTracks, MeleeTracks, Track, Tracked
  <2>4. Fit(b, {}) /\ Spares(s, b, {e.a}) /\ Moves(s, b, k)
    <3> HIDE DEF m
    <3> QED BY <2>1, <2>2, StartedFit
  <2> HIDE DEF b, t
  <2>5. t = b \/ (e.r = "melee" /\ t = ApplyHit(b, e, target))
    BY <1>3 DEF MeleeHit
  <2>6. CASE t = b
    BY <2>4, <2>6 DEF t
  <2>7. CASE e.r = "melee" /\ t = ApplyHit(b, e, target)
    <3>1. TameTracks => ~Follows(b.deeds, e.a)
      BY <2>3, <2>7 DEF Follows
    <3>1a. Entitled(b.deeds, e.a, target)
      BY <3>1 DEF Entitled
    <3>2. Fit(t, {}) /\ Spares(b, t, {})
      <4>1. {} \subseteq {}
        OBVIOUS
      <4> QED BY <2>4, <2>7, <3>1, <3>1a, <4>1, ApplyHitFit
    <3>3. Spares(s, t, {e.a} \cup {})
      BY <2>4, <3>2, SparesTrans
    <3>4. {e.a} \cup {} = {e.a}
      OBVIOUS
    <3> QED BY <3>2, <3>3, <3>4 DEF t
  <2> QED BY <2>5, <2>6, <2>7
<1> QED BY <1>1, <1>2, <1>3

LEMMA StartFit ==
  ASSUME canon \in DOMAIN Canons, NEW s, Fit(s, {}), ~s.err, NEW e \in Env,
         e.a \in Actors, NEW verb, NEW target \in Targets,
         e.r \in StartRite(s, verb, target)
  PROVE  LET t == Start(s, e, verb, target) IN
         Fit(t, {}) /\ Spares(s, t, {e.a})
<1> DEFINE k == <<e.a, e.r>>
           o == Began(s, e.a, e.r, target)
           u == Opened(o, e, verb)
           b == Burst(u, e, 1, target)
           may == verb = "fire" \/ (e.r = "melee" /\ e.a \notin Tracked)
           t == Start(s, e, verb, target)
<1>1. e.r \in Rites
  BY DEF StartRite, Fallback
<1>2. e.a \in Loci /\ 1 \in DOMAIN Code(e.r)
  <2>1. Code(e.r) \in Seq(Instructions) /\ Len(Code(e.r)) \in DOMAIN Code(e.r)
    BY <1>1, CodeFacts
  <2> QED BY <2>1 DEF Env
<1>2a. /\ o \in Delta /\ ~o.err /\ Placed(o.rite) /\ Resting(o.rite, {k})
       /\ k \in DOMAIN o.rite /\ Booked(o.rite, o.deeds, {e.a}) /\ Spares(s, o, {e.a})
       /\ ~o.rite[k].hit
  <2>1. {} \cup {e.a} = {e.a}
    OBVIOUS
  <2>2. /\ o \in Delta /\ ~o.err /\ o.left = s.left /\ o.deeds = s.deeds
        /\ Placed(o.rite) /\ Resting(o.rite, {k}) /\ k \in DOMAIN o.rite
        /\ ~o.rite[k].hit
        /\ Booked(o.rite, o.deeds, {} \cup {e.a})
        /\ e.r # "melee" => Booked(o.rite, o.deeds, {})
        /\ Spares(s, o, {e.a}) /\ (e.r # "melee" => Spares(s, o, {}))
    BY <1>1, <1>2, BeganFit
  <2> HIDE DEF o
  <2> QED BY <2>1, <2>2
<1> HIDE DEF o
<1>3. /\ u \in Delta /\ ~u.err /\ Placed(u.rite) /\ Resting(u.rite, {k})
      /\ k \in DOMAIN u.rite /\ Booked(u.rite, u.deeds, {}) /\ Spares(s, u, {e.a})
      /\ u.deeds.bound[e.a] = (Bound(e.a, e.r) /\ verb # "fire")
  <2>1. /\ u \in Delta /\ u.rite = o.rite /\ u.err = o.err /\ u.writes = o.writes
    BY <1>2a, OpenedWrites
  <2>2. /\ Booked(u.rite, u.deeds, {})
        /\ u.deeds.bound[e.a] = (Bound(e.a, e.r) /\ verb # "fire")
    BY <1>2a, OpenedFit
  <2> HIDE DEF u
  <2> QED BY <1>2a, <2>1, <2>2 DEF Spares
<1>4. t = MeleeHit(b, e, target, may)
  BY DEF Start, o, u
<1> HIDE DEF u
<1>5. Fit(b, {}) /\ Spares(u, b, {e.a}) /\ Moves(u, b, k)
  BY <1>1, <1>2, <1>3, StartedFit
<1> HIDE DEF b
<1>6. Spares(s, b, {e.a})
  <2>1. Spares(s, b, {e.a} \cup {e.a})
    BY <1>3, <1>5, SparesTrans
  <2>2. {e.a} \cup {e.a} = {e.a}
    OBVIOUS
  <2> QED BY <2>1, <2>2
<1>7. CASE ~may
  BY <1>4, <1>5, <1>6, <1>7 DEF MeleeHit
<1>8. CASE may
  <2>1. t = ApplyHit(b, e, target)
    BY <1>4, <1>8 DEF MeleeHit
  <2> HIDE DEF t
  <2>2. TameTracks => ~u.deeds.bound[e.a]
    BY <1>3, <1>8 DEF Bound
  <2>3. TameTracks => ~Follows(b.deeds, e.a)
    BY <1>3, <1>5, <2>2 DEF Follows, Moves, SameDeeds
  <2>4. Fit(t, {}) /\ Spares(b, t, {})
    <3>1. {} \subseteq {} /\ Entitled(b.deeds, e.a, target)
      BY <2>3 DEF Entitled
    <3> QED BY <1>5, <2>1, <2>3, <3>1, ApplyHitFit
  <2>5. Spares(s, t, {e.a} \cup {})
    BY <1>6, <2>4, SparesTrans
  <2>6. {e.a} \cup {} = {e.a}
    OBVIOUS
  <2> QED BY <2>4, <2>5, <2>6 DEF t
<1> QED BY <1>7, <1>8

(* Of some rites of a Canon one comes first.                               *)
LEMMA FirstOf ==
  ASSUME NEW H \in SUBSET RiteNames, H # {}
  PROVE  \E r \in H : \A q \in H : RiteOrder[r] <= RiteOrder[q]
<1> DEFINE ids == {RiteOrder[r] : r \in H}
<1>1. ids \subseteq Nat /\ ids # {}
  BY RiteAssumption
<1>2. PICK x \in ids : \A y \in ids : x <= y
  <2> HIDE DEF ids
  <2> QED BY <1>1, LeastOf
<1> QED BY <1>2

LEMMA FirstRiteFacts ==
  ASSUME canon \in DOMAIN Canons, NEW s, NEW a, \E r \in Rites : Has(s, a, r)
  PROVE  FirstRite(s, a) \in Rites /\ Has(s, a, FirstRite(s, a))
<1> DEFINE H == {r \in Rites : Has(s, a, r)}
           Least(r) == Has(s, a, r) /\ \A q \in Rites : Has(s, a, q) => RiteOrder[r] <= RiteOrder[q]
<1>1. H \in SUBSET RiteNames /\ H # {}
  BY CodeFacts
<1>2. \E r \in H : \A q \in H : RiteOrder[r] <= RiteOrder[q]
  <2> HIDE DEF H
  <2> QED BY <1>1, FirstOf
<1>3. \E r \in Rites : Least(r)
  BY <1>2
<1> QED BY <1>3 DEF FirstRite

LEMMA DriveRiteFit ==
  ASSUME canon \in DOMAIN Canons, NEW s, Fit(s, {}), ~s.err, NEW e \in Env,
         e.a \in Actors, NEW verb, NEW target \in Targets
  PROVE  LET t == DriveRite(s, e, verb, target) IN
         Fit(t, {}) /\ Spares(s, t, {e.a})
<1>1. s \in Delta
  BY DEF Fit
<1>2. CASE \E r \in Rites : Has(s, e.a, r)
  <2> DEFINE r == FirstRite(s, e.a)
             d == [e EXCEPT !.r = r]
             m == s.rite[<<e.a, r>>]
             aim == IF m.target = None THEN target ELSE m.target
  <2>1. r \in Rites /\ <<e.a, r>> \in DOMAIN s.rite /\ r \in RiteNames
    BY <1>2, CodeFacts, FirstRiteFacts DEF Has
  <2>2. DriveRite(s, e, verb, target) = Resume(s, d, m, aim)
    BY <1>2 DEF DriveRite
  <2> HIDE DEF r
  <2>3. d \in Env /\ d.a = e.a /\ d.r = r
    BY <2>1 DEF Env
  <2>4. m \in Row
    BY <1>1, <2>1, RowFacts
  <2>5. aim \in Targets
    BY <2>4 DEF Row
  <2> HIDE DEF d, aim
  <2>6. LET t == Resume(s, d, s.rite[<<d.a, d.r>>], aim) IN
        Fit(t, {}) /\ Spares(s, t, {d.a})
    BY <2>1, <2>3, <2>5, ResumeFit
  <2> QED BY <2>2, <2>3, <2>6
<1>3. CASE ~(\E r \in Rites : Has(s, e.a, r)) /\ StartRite(s, verb, target) = {}
  <2>1. DriveRite(s, e, verb, target) = s
    BY <1>3 DEF DriveRite
  <2> QED BY <2>1 DEF Spares
<1>4. CASE ~(\E r \in Rites : Has(s, e.a, r)) /\ StartRite(s, verb, target) # {}
  <2> DEFINE r == CHOOSE r \in StartRite(s, verb, target) : TRUE
             d == [e EXCEPT !.r = r]
  <2>1. r \in StartRite(s, verb, target)
    BY <1>4
  <2>2. DriveRite(s, e, verb, target) = Start(s, d, verb, target)
    BY <1>4 DEF DriveRite
  <2> HIDE DEF r
  <2>3. r \in RiteNames
    <3>1. r \in Rites
      BY <2>1 DEF StartRite, Fallback
    <3> QED BY <3>1, CodeFacts
  <2>4. d \in Env /\ d.a = e.a /\ d.r = r
    BY <2>3 DEF Env
  <2> HIDE DEF d
  <2>5. Fit(Start(s, d, verb, target), {}) /\ Spares(s, Start(s, d, verb, target), {d.a})
    BY <2>1, <2>4, StartFit
  <2> QED BY <2>2, <2>4, <2>5
<1> QED BY <1>2, <1>3, <1>4

-----------------------------------------------------------------------------
(* Islands.  The row of a tracked action, which TameTracks knows.         *)
LEMMA OnBehalfFacts ==
  ASSUME canon \in DOMAIN Canons, NEW a \in Tracked
  PROVE  /\ OnBehalf(a) \in Env /\ OnBehalf(a).a = a /\ OnBehalf(a).r = Track[a].rite
         /\ Track[a].rite \in Rites /\ Track[a].rite \in RiteNames
         /\ a \in Actors /\ a \in Loci
         /\ TameTracks => Track[a].rite = "melee"
<1>1. /\ Track[a].rite \in Rites /\ Track[a].ch \in Channels /\ a \in Actors /\ a \in Loci
  BY TrackFacts
<1>2. Track[a].rite \in RiteNames
  BY <1>1, CodeFacts
<1>3. TameTracks => Track[a].rite = "melee"
  BY DEF TameTracks, MeleeTracks, Track, Tracked
<1> QED BY <1>1, <1>2, <1>3 DEF OnBehalf, Env, Sources

LEMMA EndedFit ==
  ASSUME NEW s, NEW A, Fit(s, A), ~s.err, NEW a \in Loci, NEW r \in RiteNames,
         TameTracks => r = "melee"
  PROVE  Fit(Ended(s, a, r), A \ {a}) /\ Spares(s, Ended(s, a, r), {a})
<1> DEFINE k == <<a, r>>
           t == Ended(s, a, r)
<1>1. /\ s \in Delta /\ Placed(s.rite) /\ Resting(s.rite, {}) /\ Booked(s.rite, s.deeds, A)
  BY DEF Fit
<1>2. Rewrites(s, t, k) /\ t.deeds = s.deeds /\ DOMAIN t.rite = DOMAIN s.rite \ {k}
  BY <1>1, EndedWrites
<1> HIDE DEF t
<1>3. \A j \in DOMAIN t.rite : j \in DOMAIN s.rite /\ t.rite[j] = s.rite[j]
  <2>1. \A j \in DOMAIN s.rite : j \in Keys
    BY <1>1, RowFacts
  <2> QED BY <1>2, <2>1 DEF Rewrites
<1>4. Placed(t.rite) /\ Resting(t.rite, {})
  BY <1>1, <1>3 DEF Placed, Resting, Behind
<1>5. Booked(t.rite, t.deeds, A \ {a})
  <2> SUFFICES ASSUME TameTracks, NEW l \in Actors
               PROVE  Honest(s.deeds, l) /\ (l \notin A \ {a} => Going(t.rite, s.deeds, l))
    BY <1>2 DEF Booked
  <2>1. Honest(s.deeds, l) /\ (l \notin A => Going(s.rite, s.deeds, l))
    BY <1>1 DEF Booked
  <2>2. CASE l = a
    BY <1>2, <2>1, <2>2 DEF Going
  <2>3. CASE l # a
    BY <1>3, <2>1, <2>3 DEF Going
  <2> QED BY <2>2, <2>3
<1>6. t \in Delta /\ ~t.err /\ s.writes \subseteq t.writes
  BY <1>2 DEF Rewrites
<1>7. Spares(s, t, {a})
  <2>1. \A l \in Loci : <<l, "melee">> \in Keys
    BY DEF Keys, RiteNames
  <2> QED BY <1>2, <2>1 DEF Rewrites, Spares
<1> QED BY <1>4, <1>5, <1>6, <1>7 DEF Fit, t

LEMMA FinishedFit ==
  ASSUME NEW s, NEW a \in Loci, Fit(s, {a}), NEW r \in RiteNames,
         TameTracks => r = "melee"
  PROVE  Fit(Finished(s, a, r), {}) /\ Spares(s, Finished(s, a, r), {a})
<1>1. {a} \ {a} = {}
  OBVIOUS
<1>2. CASE ~s.err /\ Has(s, a, r)
  <2>1. Finished(s, a, r) = Ended(s, a, r)
    BY <1>2 DEF Finished
  <2>2. Fit(Ended(s, a, r), {a} \ {a}) /\ Spares(s, Ended(s, a, r), {a})
    BY <1>2, EndedFit
  <2> QED BY <1>1, <2>1, <2>2
<1>3. CASE ~(~s.err /\ Has(s, a, r))
  <2>1. Finished(s, a, r) = s
    BY <1>3 DEF Finished
  <2>2. ~s.err /\ TameTracks => <<a, "melee">> \notin DOMAIN s.rite
    BY <1>3 DEF Has
  <2>3. Fit(s, {})
    BY <2>2 DEF Fit, Booked, Going
  <2> QED BY <2>1, <2>3 DEF Spares
<1> QED BY <1>2, <1>3

(* A WAIT that goes on.                                                    *)
LEMMA AdvancedFit ==
  ASSUME canon \in DOMAIN Canons, NEW s, Fit(s, {}), ~s.err, NEW a \in Tracked,
         <<a, Track[a].rite>> \in DOMAIN s.rite, NEW wait \in Nat \ {0},
         LET m == s.rite[<<a, Track[a].rite>>]
             i == Code(Track[a].rite)[m.pc - 1] IN
         m.pc > 1 /\ i.op = "wait" /\ wait <= i.ticks
  PROVE  LET t == Advanced(s, a, Track[a].rite, s.rite[<<a, Track[a].rite>>].pc, wait) IN
         Fit(t, {}) /\ Spares(s, t, {a})
<1> DEFINE r == Track[a].rite
           k == <<a, r>>
           m == s.rite[k]
           t == Advanced(s, a, r, m.pc, wait)
<1>1. /\ s \in Delta /\ Placed(s.rite) /\ Resting(s.rite, {}) /\ Booked(s.rite, s.deeds, {})
  BY DEF Fit
<1>2. /\ OnBehalf(a) \in Env /\ OnBehalf(a).a = a /\ OnBehalf(a).r = r
      /\ r \in Rites /\ r \in RiteNames /\ a \in Loci
  BY OnBehalfFacts
<1>3. m.pc \in Nat /\ m.pc \in DOMAIN Code(r)
  <2>1. m \in Row
    BY <1>1, RowFacts
  <2> QED BY <1>1, <2>1 DEF Row, Placed
<1>4. /\ Rewrites(s, t, k) /\ DOMAIN t.rite = DOMAIN s.rite
      /\ t.rite[k].pc = m.pc /\ t.rite[k].left = wait
  <2> HIDE DEF m
  <2> QED BY SMTT(30), <1>1, <1>2, <1>3, AdvancedWrites DEF m
<1>5. Moves(s, t, k)
  <2> HIDE DEF m
  <2> QED BY <1>1, <1>2, <1>3, AdvancedMoves
<1> HIDE DEF t, r
<1>6. t \in Delta /\ ~t.err
  BY <1>4 DEF Rewrites
<1>7. Placed(t.rite)
  BY <1>1, <1>2, <1>3, <1>4, <1>5, PlacedByKey
<1>8. Resting(t.rite, {})
  <2>1. Behind(t.rite, k)
    BY <1>4 DEF Behind, Stands, r
  <2>2. Resting(s.rite, {k})
    BY <1>1 DEF Resting
  <2> QED BY <1>1, <1>5, <1>6, <2>1, <2>2, BurstRests
<1>9. Booked(t.rite, t.deeds, {})
  BY <1>1, <1>2, <1>5, BurstBooked
<1>10. Spares(s, t, {a})
  BY <1>2, <1>5, MovesSpares
<1> QED BY <1>6, <1>7, <1>8, <1>9, <1>10 DEF Fit, t, r

LEMMA OnceHit ==
  ASSUME NEW s, NEW e, NEW target, NEW may
  PROVE  LET b == Burst(s, e, s.rite[<<e.a, e.r>>].pc, target) IN
         IslandBurst(s, e, target, may) = HitIf(b, e, target, may /\ b.emits > s.emits)
<1> DEFINE b == Burst(s, e, s.rite[<<e.a, e.r>>].pc, target)
           y == HitIf(b, e, target, may /\ b.emits > s.emits)
           S == {HitIf(x, e, target, may /\ x.emits > s.emits) : x \in {b}}
<1>1. IslandBurst(s, e, target, may) = CHOOSE z \in S : TRUE
  BY DEF IslandBurst, Once
<1>2. S = {y}
  <2> HIDE DEF b
  <2> QED OBVIOUS
<1> HIDE DEF y, S
<1>3. (CHOOSE z \in {y} : TRUE) = y
  OBVIOUS
<1> QED BY <1>1, <1>2, <1>3 DEF y

(* A burst on behalf of a player, who may hit what has been met.           *)
LEMMA IslandBurstFit ==
  ASSUME canon \in DOMAIN Canons, NEW s, Fit(s, {}), ~s.err, NEW a \in Tracked,
         <<a, Track[a].rite>> \in DOMAIN s.rite, NEW target \in Targets, NEW may,
         TameTracks /\ Follows(s.deeds, a) /\ may =>
           s.deeds.met[a] # {} /\ target = s.deeds.touched[a]
  PROVE  LET t == IslandBurst(s, OnBehalf(a), target, may) IN
         Fit(t, {}) /\ Spares(s, t, {a})
<1> DEFINE e == OnBehalf(a)
           k == <<a, Track[a].rite>>
           b == Burst(s, e, s.rite[<<e.a, e.r>>].pc, target)
           hits == may /\ b.emits > s.emits
           t == IslandBurst(s, e, target, may)
<1>1. /\ s \in Delta /\ Placed(s.rite) /\ Resting(s.rite, {}) /\ Booked(s.rite, s.deeds, {})
  BY DEF Fit
<1>2. /\ e \in Env /\ e.a = a /\ e.r = Track[a].rite /\ e.r \in Rites
      /\ e.r \in RiteNames /\ a \in Actors /\ a \in Loci
      /\ TameTracks => e.r = "melee"
  BY OnBehalfFacts
<1>3. t = HitIf(b, e, target, hits)
  BY OnceHit
<1> HIDE DEF e
<1>4. Resting(s.rite, {k}) /\ s.rite[k].pc \in DOMAIN Code(e.r)
  BY <1>1, <1>2 DEF Resting, Placed
<1>5. Fit(b, {}) /\ Spares(s, b, {a}) /\ Moves(s, b, k)
  BY <1>1, <1>2, <1>4, StartedFit
<1> HIDE DEF b, t
<1>6. CASE hits /\ ~b.err
  <2> DEFINE h == ApplyHit(b, e, target)
  <2>1. t = Finished(h, a, e.r)
    BY <1>2, <1>3, <1>6 DEF HitIf
  <2>2. Entitled(b.deeds, a, target)
    <3> SUFFICES ASSUME TameTracks, Follows(b.deeds, a)
                 PROVE  /\ b.deeds.hits[a] = 0 /\ b.deeds.met[a] # {}
                        /\ target = b.deeds.touched[a]
      BY DEF Entitled
    <3>1. Follows(s.deeds, a) /\ SameDeeds(s, b)
      BY <1>5 DEF Follows, Moves, SameDeeds
    <3>2. <<a, "melee">> \in DOMAIN s.rite /\ Going(s.rite, s.deeds, a)
      BY <1>1, <1>2 DEF Booked
    <3> QED BY <1>6, <3>1, <3>2 DEF Going, SameDeeds
  <2>3. Fit(h, {a}) /\ Spares(b, h, {})
    <3>1. {} \subseteq {a} /\ a \in {a}
      OBVIOUS
    <3> QED BY <1>2, <1>5, <2>2, <3>1, ApplyHitFit
  <2> HIDE DEF h
  <2>4. Fit(t, {}) /\ Spares(h, t, {a})
    BY <1>2, <2>1, <2>3, FinishedFit
  <2>5. Spares(b, t, {} \cup {a})
    BY <2>3, <2>4, SparesTrans
  <2>6. Spares(s, t, {a} \cup ({} \cup {a}))
    BY <1>5, <2>5, SparesTrans
  <2>7. {a} \cup ({} \cup {a}) = {a}
    OBVIOUS
  <2> QED BY <2>4, <2>6, <2>7 DEF t, e
<1>7. CASE ~(hits /\ ~b.err)
  <2>1. t = b
    BY <1>3, <1>7 DEF HitIf
  <2> QED BY <1>5, <2>1 DEF t, e
<1> QED BY <1>6, <1>7

LEMMA ClockFit ==
  ASSUME canon \in DOMAIN Canons, NEW s, Fit(s, {}), ~s.err, NEW a \in Tracked,
         <<a, Track[a].rite>> \in DOMAIN s.rite
  PROVE  LET t == Clock(s, a, s.rite[<<a, Track[a].rite>>]) IN
         Fit(t, {}) /\ Spares(s, t, {a})
<1> DEFINE r == Track[a].rite
           m == s.rite[<<a, r>>]
           i == Code(r)[m.pc - 1]
           t == Clock(s, a, m)
<1>1. /\ s \in Delta /\ Placed(s.rite) /\ Booked(s.rite, s.deeds, {})
  BY DEF Fit
<1>2. m \in Row
  BY <1>1, RowFacts
<1>3. a \in Actors /\ r \in Rites /\ (TameTracks => r = "melee")
  BY OnBehalfFacts
<1>4. CASE m.pc = 1 \/ i.op # "wait"
  <2>1. t = Fail(s)
    BY <1>4 DEF Clock
  <2> QED BY <2>1, FailFit, MoreSpares
<1>5. CASE ~(m.pc = 1 \/ i.op # "wait") /\ m.age < i.ticks
  <2>1. t = Advanced(s, a, r, m.pc, i.ticks - m.age)
    BY <1>5 DEF Clock
  <2>2. m.pc \in DOMAIN Code(r) /\ m.pc > 1 /\ m.pc - 1 \in DOMAIN Code(r)
    <3>1. m.pc \in DOMAIN Code(r)
      BY <1>1 DEF Placed
    <3>2. Code(r) \in Seq(Instructions)
      BY <1>3, CodeFacts
    <3> HIDE DEF m, r
    <3> QED BY <1>5, <3>1, <3>2
  <2>3. i.ticks \in Nat
    <3>1. i \in Instructions
      BY <1>3, <2>2, CodeFacts
    <3> QED BY <1>5, <3>1, InstructionFacts
  <2>4. m.age \in Nat
    BY <1>2, MaxAgeNat DEF Row
  <2>5. i.ticks - m.age \in Nat \ {0} /\ i.ticks - m.age <= i.ticks
    BY <1>5, <2>3, <2>4
  <2> DEFINE wait == i.ticks - m.age
  <2>6. m.pc > 1 /\ i.op = "wait" /\ wait <= i.ticks
    BY <1>5, <2>2, <2>5
  <2>7. wait \in Nat \ {0}
    BY <2>5
  <2> HIDE DEF wait
  <2>8. Fit(Advanced(s, a, r, m.pc, wait), {}) /\ Spares(s, Advanced(s, a, r, m.pc, wait), {a})
    BY <2>6, <2>7, AdvancedFit
  <2> QED BY <2>1, <2>8 DEF wait
<1>6. CASE ~(m.pc = 1 \/ i.op # "wait") /\ ~(m.age < i.ticks)
  <2>1. t = IslandBurst(s, OnBehalf(a), m.target, m.hit)
    BY <1>6 DEF Clock
  <2>2. m.target \in Targets
    BY <1>2 DEF Row
  <2>3. TameTracks /\ Follows(s.deeds, a) /\ m.hit =>
          s.deeds.met[a] # {} /\ m.target = s.deeds.touched[a]
    BY <1>1, <1>3 DEF Booked, Going
  <2> HIDE DEF m, t
  <2> QED BY <2>1, <2>2, <2>3, IslandBurstFit DEF t, m
<1> QED BY <1>4, <1>5, <1>6

(* A claim the kernel has validated, of a row no one has moved since.      *)
Claimed(s, a, claims) ==
    a \in DOMAIN claims =>
      /\ claims[a].target \in Loci
      /\ TameTracks =>
           /\ <<a, "melee">> \in DOMAIN s.rite
           /\ s.rite[<<a, "melee">>].target = claims[a].target /\ claims[a].target # a
           /\ s.rite[<<a, "melee">>].age \in 1 .. Track[a].ticks

LEMMA AdmittedWrites ==
  ASSUME NEW s \in Delta, NEW a \in Actors, NEW r \in RiteNames, NEW target \in Loci,
         <<a, r>> \in DOMAIN s.rite
  PROVE  LET t == Admitted(s, a, r, target)
             m == s.rite[<<a, r>>]
             n == t.rite[<<a, r>>] IN
         /\ Rewrites(s, t, <<a, r>>) /\ DOMAIN t.rite = DOMAIN s.rite
         /\ n.pc = m.pc /\ n.left = m.left /\ n.target = m.target /\ n.age = m.age
         /\ t.deeds.hits = s.deeds.hits /\ t.deeds.bound = s.deeds.bound
         /\ t.deeds.struck = s.deeds.struck
         /\ t.deeds.met[a] = s.deeds.met[a] \cup {m.age} /\ t.deeds.touched[a] = target
         /\ \A l \in Actors \ {a} : /\ t.deeds.met[l] = s.deeds.met[l]
                                     /\ t.deeds.touched[l] = s.deeds.touched[l]
<1> DEFINE k == <<a, r>>
           m == s.rite[k]
           hit == m.hit \/ m.target = target
           n == [m EXCEPT !.hit = hit]
           u == Wrote(Put(s, k, n), a)
           met == [u.deeds.met EXCEPT ![a] = @ \cup {m.age}]
           touched == [u.deeds.touched EXCEPT ![a] = target]
           d == [u.deeds EXCEPT !.met = met, !.touched = touched]
           w == [u EXCEPT !.deeds = d]
           t == Admitted(s, a, r, target)
<1>1. m \in Row /\ a \in Loci
  BY RowFacts DEF Loci
<1>2. n \in Row /\ n.hit = hit /\ n.pc = m.pc /\ n.left = m.left /\ n.target = m.target
      /\ n.age = m.age /\ m.age \in 0 .. MaxAge
  <2>1. hit \in BOOLEAN
    BY <1>1 DEF Row
  <2> HIDE DEF m, hit
  <2> QED BY <1>1, <2>1 DEF Row
<1>3. t = [u EXCEPT !.deeds.met[a] = @ \cup {m.age}, !.deeds.touched[a] = target]
  BY DEF Admitted
<1> HIDE DEF n
<1>4. /\ Rewrites(s, u, k) /\ u.deeds = s.deeds
      /\ DOMAIN u.rite = DOMAIN s.rite \cup {k} /\ u.rite[k] = n
  BY <1>1, <1>2, PutWrote
<1> HIDE DEF u, m, hit
<1>5. u \in Delta /\ u.deeds \in Deeds
  BY <1>4 DEF Rewrites, Delta
<1>6. u.deeds.met \in [Actors -> SUBSET (0 .. MaxAge)]
      /\ u.deeds.touched \in [Actors -> Targets] /\ target \in Targets
  BY <1>5 DEF Deeds, Targets
<1>7. /\ met \in [Actors -> SUBSET (0 .. MaxAge)]
      /\ met[a] = u.deeds.met[a] \cup {m.age}
      /\ touched \in [Actors -> Targets] /\ touched[a] = target
      /\ \A l \in Actors \ {a} : met[l] = u.deeds.met[l] /\ touched[l] = u.deeds.touched[l]
  BY <1>2, <1>6
<1>8. t = w
  BY <1>3, <1>5 DEF Delta, Deeds
<1> HIDE DEF met, touched
<1>9. /\ d \in Deeds /\ d.met = met /\ d.hits = u.deeds.hits /\ d.bound = u.deeds.bound
      /\ d.touched = touched /\ d.struck = u.deeds.struck
  BY <1>5, <1>7 DEF Deeds
<1> HIDE DEF d
<1>10. /\ w \in Delta /\ w.rite = u.rite /\ w.deeds = d /\ w.writes = u.writes
       /\ w.qty = u.qty /\ w.parts = u.parts /\ w.left = u.left /\ w.emits = u.emits
       /\ w.err = u.err /\ w.run = u.run /\ w.pc = u.pc /\ w.target = u.target
  BY <1>5, <1>9 DEF Delta
<1> HIDE DEF w, t
<1>11. Rewrites(s, t, k)
  BY <1>4, <1>8, <1>10 DEF Rewrites
<1>12. DOMAIN t.rite = DOMAIN s.rite /\ t.rite[k] = n
  BY <1>4, <1>8, <1>10
<1> QED BY <1>2, <1>4, <1>7, <1>8, <1>9, <1>10, <1>11, <1>12 DEF t, m, hit

(* An admitted contact, on what the action aimed at.                       *)
LEMMA AdmittedFit ==
  ASSUME canon \in DOMAIN Canons, NEW s, Fit(s, {}), ~s.err, NEW a \in Tracked,
         <<a, Track[a].rite>> \in DOMAIN s.rite, NEW claims, a \in DOMAIN claims,
         Claimed(s, a, claims)
  PROVE  LET t == Admitted(s, a, Track[a].rite, claims[a].target) IN
         /\ Fit(t, {}) /\ ~t.err /\ Spares(s, t, {a})
         /\ <<a, Track[a].rite>> \in DOMAIN t.rite
         /\ TameTracks /\ Follows(t.deeds, a) =>
              t.deeds.met[a] # {} /\ claims[a].target = t.deeds.touched[a]
<1> DEFINE r == Track[a].rite
           k == <<a, r>>
           m == s.rite[k]
           target == claims[a].target
           t == Admitted(s, a, r, target)
<1>1. /\ s \in Delta /\ Placed(s.rite) /\ Resting(s.rite, {}) /\ Booked(s.rite, s.deeds, {})
  BY DEF Fit
<1>2. a \in Actors /\ a \in Loci /\ r \in RiteNames /\ (TameTracks => r = "melee")
  BY OnBehalfFacts
<1>3. target \in Loci
  BY DEF Claimed
<1>4. TameTracks => m.target = target /\ target # a /\ m.age \in 1 .. Track[a].ticks
  BY <1>2 DEF Claimed
<1>5. /\ Rewrites(s, t, k) /\ DOMAIN t.rite = DOMAIN s.rite
      /\ t.rite[k].pc = m.pc /\ t.rite[k].left = m.left /\ t.rite[k].target = m.target
      /\ t.deeds.hits = s.deeds.hits /\ t.deeds.bound = s.deeds.bound
      /\ t.deeds.struck = s.deeds.struck
      /\ t.deeds.met[a] = s.deeds.met[a] \cup {m.age} /\ t.deeds.touched[a] = target
      /\ \A l \in Actors \ {a} : /\ t.deeds.met[l] = s.deeds.met[l]
                                  /\ t.deeds.touched[l] = s.deeds.touched[l]
  <2>1. <<a, r>> \in DOMAIN s.rite
    OBVIOUS
  <2> HIDE DEF r, target
  <2> QED BY <1>1, <1>2, <1>3, <2>1, AdmittedWrites
<1> HIDE DEF t, m, target, r
<1>6. t \in Delta /\ ~t.err
  BY <1>5 DEF Rewrites
<1>7. \A j \in DOMAIN t.rite \ {k} : j \in DOMAIN s.rite /\ t.rite[j] = s.rite[j]
  <2>1. \A j \in DOMAIN s.rite : j \in Keys
    BY <1>1, RowFacts
  <2> QED BY <1>5, <2>1 DEF Rewrites
<1>8. Placed(t.rite)
  BY <1>1, <1>5, <1>7 DEF Placed, m
<1>9. Resting(t.rite, {})
  BY <1>1, <1>5, <1>7 DEF Resting, Behind, Stands, m
<1>10. Spares(s, t, {a})
  <2>1. \A l \in Loci : <<l, "melee">> \in Keys
    BY DEF Keys, RiteNames
  <2> QED BY <1>5, <2>1 DEF Rewrites, Spares
<1>10a. ASSUME TameTracks, Follows(s.deeds, a) PROVE s.deeds.hits[a] = 0
  <2>1. k = <<a, "melee">> /\ k \in DOMAIN s.rite
    BY <1>2, <1>10a DEF r
  <2> QED BY <1>1, <1>2, <1>10a, <2>1 DEF Booked, Going
<1>11. ASSUME TameTracks, Follows(t.deeds, a)
       PROVE  t.deeds.met[a] # {} /\ target = t.deeds.touched[a] /\ Going(t.rite, t.deeds, a)
  <2>1. Follows(s.deeds, a)
    BY <1>5, <1>11 DEF Follows
  <2>2. k = <<a, "melee">> /\ k \in DOMAIN s.rite
    BY <1>2, <1>11 DEF r
  <2>3. s.deeds.hits[a] = 0
    BY <1>10a, <1>11, <2>1
  <2> QED BY <1>4, <1>5, <1>11, <2>2, <2>3 DEF Going
<1>12. Booked(t.rite, t.deeds, {})
  <2> SUFFICES ASSUME TameTracks, NEW l \in Actors
               PROVE  Honest(t.deeds, l) /\ Going(t.rite, t.deeds, l)
    BY DEF Booked
  <2>1. Honest(s.deeds, l) /\ Going(s.rite, s.deeds, l)
    BY <1>1 DEF Booked
  <2>2. CASE l = a
    <3>1. Honest(t.deeds, a)
      <4>1. Follows(t.deeds, a) <=> Follows(s.deeds, a)
        BY <1>5 DEF Follows
      <4>2. Follows(s.deeds, a) => s.deeds.hits[a] = 0
        BY <1>10a
      <4>3. /\ s.deeds.bound[a] /\ (epoch = 0 \/ MaxEpoch > 1) => a \in Tracked
            /\ Follows(s.deeds, a) => s.deeds.met[a] \subseteq 1 .. Track[a].ticks
        BY <2>1, <2>2 DEF Honest
      <4> QED BY <1>4, <1>5, <4>1, <4>2, <4>3 DEF Honest
    <3>2. Going(t.rite, t.deeds, a)
      BY <1>11 DEF Going
    <3> QED BY <2>2, <3>1, <3>2
  <2>3. CASE l # a
    <3>1. Honest(t.deeds, l)
      BY <1>5, <2>1, <2>3 DEF Honest, Follows
    <3>2. Going(t.rite, t.deeds, l)
      BY <1>5, <1>7, <2>1, <2>3 DEF Going, Follows
    <3> QED BY <3>1, <3>2
  <2> QED BY <2>2, <2>3
<1> QED BY <1>5, <1>6, <1>8, <1>9, <1>10, <1>11, <1>12 DEF Fit, t, target, r

LEMMA InsideWindowFit ==
  ASSUME canon \in DOMAIN Canons, NEW s, Fit(s, {}), ~s.err, NEW a \in Tracked,
         <<a, Track[a].rite>> \in DOMAIN s.rite, NEW claims, Claimed(s, a, claims),
         s.rite[<<a, Track[a].rite>>].pc = Track[a].wait + 1
  PROVE  LET t == InsideWindow(s, a, s.rite[<<a, Track[a].rite>>], claims) IN
         Fit(t, {}) /\ Spares(s, t, {a})
<1> DEFINE r == Track[a].rite
           m == s.rite[<<a, r>>]
           t == InsideWindow(s, a, m, claims)
<1>1. s \in Delta
  BY DEF Fit
<1>2. a \in Loci /\ r \in RiteNames /\ (TameTracks => r = "melee")
  BY OnBehalfFacts
<1>3. CASE a \in DOMAIN claims
  <2> DEFINE target == claims[a].target
             u == Admitted(s, a, r, target)
             v == IslandBurst(u, OnBehalf(a), target, TRUE)
  <2>1. t \in {Fail(s), v}
    BY <1>3 DEF InsideWindow
  <2>2. CASE t = Fail(s)
    BY <2>2, FailFit, MoreSpares
  <2>3. CASE t = v
    <3>1. target \in Targets
      BY <1>3 DEF Claimed, Targets
    <3>2. /\ Fit(u, {}) /\ ~u.err /\ Spares(s, u, {a})
          /\ <<a, r>> \in DOMAIN u.rite
          /\ TameTracks /\ Follows(u.deeds, a) =>
               u.deeds.met[a] # {} /\ target = u.deeds.touched[a]
      BY <1>3, AdmittedFit
    <3> HIDE DEF u, target, t
    <3>3. Fit(v, {}) /\ Spares(u, v, {a})
      BY <3>1, <3>2, IslandBurstFit
    <3> HIDE DEF v
    <3>4. Spares(s, v, {a} \cup {a})
      BY <3>2, <3>3, SparesTrans
    <3>5. {a} \cup {a} = {a}
      OBVIOUS
    <3> QED BY <2>3, <3>3, <3>4, <3>5 DEF t
  <2> QED BY <2>1, <2>2, <2>3
<1>4. CASE a \notin DOMAIN claims /\ m.age < Track[a].ticks
  <2> DEFINE wait == Track[a].ticks - m.age
  <2>1. t = Advanced(s, a, r, m.pc, wait)
    BY <1>4 DEF InsideWindow
  <2>2. m.age \in Nat
    <3>1. m \in Row
      BY <1>1, RowFacts
    <3> QED BY <3>1, MaxAgeNat DEF Row
  <2>3. /\ Track[a].ticks \in Nat \ {0} /\ Track[a].wait \in DOMAIN Code(r)
        /\ Code(r)[Track[a].wait].op = "wait"
        /\ Code(r)[Track[a].wait].ticks = Track[a].ticks /\ r \in Rites
    BY TrackFacts
  <2>4. Track[a].wait \in Nat \ {0}
    BY <2>3, CodeFacts
  <2>5. wait \in Nat \ {0} /\ wait <= Track[a].ticks
    BY <1>4, <2>2, <2>3
  <2>6. m.pc > 1 /\ m.pc - 1 = Track[a].wait
    BY <2>4
  <2> HIDE DEF wait
  <2>7. Fit(Advanced(s, a, r, m.pc, wait), {}) /\ Spares(s, Advanced(s, a, r, m.pc, wait), {a})
    BY <2>3, <2>5, <2>6, AdvancedFit
  <2> QED BY <2>1, <2>7
<1>5. CASE a \notin DOMAIN claims /\ ~(m.age < Track[a].ticks)
  <2>1. t = Ended(s, a, r)
    BY <1>5 DEF InsideWindow
  <2>2. Fit(Ended(s, a, r), {} \ {a}) /\ Spares(s, Ended(s, a, r), {a})
    BY <1>2, EndedFit
  <2>3. {} \ {a} = {}
    OBVIOUS
  <2> QED BY <2>1, <2>2, <2>3
<1> QED BY <1>3, <1>4, <1>5

LEMMA AdmitWindowFit ==
  ASSUME canon \in DOMAIN Canons, NEW s, Fit(s, {}), NEW a, NEW claims,
         Claimed(s, a, claims)
  PROVE  LET t == AdmitWindow(s, a, claims) IN
         Fit(t, {}) /\ Spares(s, t, {a} \cap Tracked)
<1> DEFINE r == Track[a].rite
           m == s.rite[<<a, r>>]
           t == AdmitWindow(s, a, claims)
<1>1. CASE s.err \/ a \notin Tracked \/ ~Has(s, a, r)
  <2>1. t = s
    BY <1>1 DEF AdmitWindow
  <2> QED BY <2>1 DEF Spares
<1>2. CASE ~(s.err \/ a \notin Tracked \/ ~Has(s, a, r))
  <2>1. a \in Tracked /\ ~s.err /\ <<a, r>> \in DOMAIN s.rite /\ {a} \cap Tracked = {a}
    BY <1>2 DEF Has
  <2>2. a \in Loci /\ r \in RiteNames /\ (TameTracks => r = "melee")
    BY <2>1, OnBehalfFacts
  <2>3. \/ t = Fail(s)
        \/ t = Ended(s, a, r)
        \/ t = Clock(s, a, m)
        \/ m.pc = Track[a].wait + 1 /\ t = InsideWindow(s, a, m, claims)
    BY <1>2 DEF AdmitWindow
  <2>4. CASE t = Fail(s)
    BY <2>4, FailFit, MoreSpares
  <2>5. CASE t = Ended(s, a, r)
    <3>1. Fit(Ended(s, a, r), {} \ {a}) /\ Spares(s, Ended(s, a, r), {a})
      BY <2>1, <2>2, EndedFit
    <3>2. {} \ {a} = {}
      OBVIOUS
    <3> QED BY <2>1, <2>5, <3>1, <3>2
  <2>6. CASE t = Clock(s, a, m)
    <3> HIDE DEF t
    <3>1. Fit(t, {}) /\ Spares(s, t, {a})
      BY <2>1, <2>6, ClockFit
    <3> QED BY <2>1, <3>1 DEF t
  <2>7. CASE m.pc = Track[a].wait + 1 /\ t = InsideWindow(s, a, m, claims)
    <3> HIDE DEF t
    <3>1. Fit(t, {}) /\ Spares(s, t, {a})
      BY <2>1, <2>7, InsideWindowFit
    <3> QED BY <2>1, <3>1 DEF t
  <2> QED BY <2>3, <2>4, <2>5, <2>6, <2>7
<1> QED BY <1>1, <1>2

(* The bodies of an island in their order, out of its LET.                 *)
WindowLoop(x, i, claims, N, run) ==
    [n \in 0 .. N |-> IF n = 0 THEN x
                      ELSE Once(run[n - 1], LAMBDA s : AdmitBody(i, s, SigilOrder[n], claims))]

LEMMA OnceBody ==
  ASSUME NEW x, NEW i, NEW n, NEW claims
  PROVE  Once(x, LAMBDA s : AdmitBody(i, s, SigilOrder[n], claims)) =
           AdmitBody(i, x, SigilOrder[n], claims)
<1> DEFINE y == AdmitBody(i, x, SigilOrder[n], claims)
<1>1. {AdmitBody(i, s, SigilOrder[n], claims) : s \in {x}} = {y}
  OBVIOUS
<1> HIDE DEF y
<1>2. (CHOOSE z \in {y} : TRUE) = y
  OBVIOUS
<1> QED BY <1>1, <1>2 DEF Once, y

LEMMA WindowsAreLoop ==
  ASSUME NEW i, NEW claims
  PROVE  LET x == [BeginSpec EXCEPT !.writes = Bodies(i)]
             N == Len(SigilOrder) IN
         AdmitWindows(i, claims) = (CHOOSE run : run = WindowLoop(x, i, claims, N, run))[N]
  BY DEF AdmitWindows, WindowLoop

LEMMA WindowsRun ==
  ASSUME NEW x, NEW i, NEW claims, NEW N \in Nat
  PROVE  \E run : run = WindowLoop(x, i, claims, N, run)
<1> DEFINE bad == {n \in Nat : \A run : run # WindowLoop(x, i, claims, n, run)}
<1>1. SUFFICES ASSUME bad # {} PROVE FALSE
  OBVIOUS
<1>2. PICK m \in bad : \A n \in bad : m <= n
  BY <1>1, LeastOf
<1>3. CASE m = 0
  <2> DEFINE f == [n \in 0 .. 0 |-> x]
  <2>1. f = WindowLoop(x, i, claims, 0, f)
    BY DEF WindowLoop
  <2> QED BY <1>2, <1>3, <2>1
<1>4. CASE m # 0
  <2>1. m - 1 \in Nat /\ m \in Nat /\ m - 1 \notin bad
    BY <1>2, <1>4
  <2>2. PICK g : g = WindowLoop(x, i, claims, m - 1, g)
    BY <2>1
  <2> DEFINE last == AdmitBody(i, g[m - 1], SigilOrder[m], claims)
             f == [n \in 0 .. m |-> IF n < m THEN g[n] ELSE last]
  <2>3. ASSUME NEW n \in 0 .. m
        PROVE  f[n] = IF n = 0 THEN x ELSE AdmitBody(i, f[n - 1], SigilOrder[n], claims)
    <3>1. CASE n < m
      <4>1. n \in 0 .. m - 1 /\ f[n] = g[n]
        BY <2>1, <3>1
      <4>2. g[n] = IF n = 0 THEN x
                   ELSE Once(g[n - 1], LAMBDA s : AdmitBody(i, s, SigilOrder[n], claims))
        BY <2>2, <4>1 DEF WindowLoop
      <4>3. n # 0 => f[n - 1] = g[n - 1]
        BY <2>1, <3>1
      <4>4. Once(g[n - 1], LAMBDA s : AdmitBody(i, s, SigilOrder[n], claims)) =
              AdmitBody(i, g[n - 1], SigilOrder[n], claims)
        BY OnceBody
      <4> HIDE DEF f
      <4> QED BY <4>1, <4>2, <4>3, <4>4
    <3>2. CASE n = m
      <4>1. f[n] = last /\ f[m - 1] = g[m - 1]
        BY <2>1, <3>2
      <4> HIDE DEF f
      <4> QED BY <1>4, <3>2, <4>1
    <3> QED BY <2>1, <3>1, <3>2
  <2>4. f = [n \in 0 .. m |-> f[n]]
    OBVIOUS
  <2> HIDE DEF f
  <2>5. f = WindowLoop(x, i, claims, m, f)
    <3>1. \A n \in 0 .. m : f[n] = IF n = 0 THEN x
              ELSE Once(f[n - 1], LAMBDA s : AdmitBody(i, s, SigilOrder[n], claims))
      <4>1. TAKE n \in 0 .. m
      <4>2. Once(f[n - 1], LAMBDA s : AdmitBody(i, s, SigilOrder[n], claims)) =
              AdmitBody(i, f[n - 1], SigilOrder[n], claims)
        BY OnceBody
      <4> QED BY <2>3, <4>2
    <3> QED BY <2>4, <3>1 DEF WindowLoop
  <2> QED BY <1>2, <2>5
<1> QED BY <1>3, <1>4

LEMMA StillClaimed ==
  ASSUME NEW s, NEW t, NEW A, Spares(s, t, A), NEW l \in Loci \ A, NEW claims,
         Claimed(s, l, claims)
  PROVE  Claimed(t, l, claims)
  BY DEF Claimed, Spares

(* A whole island: its bodies come one after the other, each once.         *)
WindowRun(i, claims, f) ==
    /\ AdmitWindows(i, claims) = f[Len(SigilOrder)]
    /\ f[0] = [BeginSpec EXCEPT !.writes = Bodies(i)]
    /\ \A n \in 1 .. Len(SigilOrder) : f[n] = AdmitBody(i, f[n - 1], SigilOrder[n], claims)

LEMMA BodiesInOrder ==
  ASSUME NEW i, NEW claims
  PROVE  LET N == Len(SigilOrder) IN
         /\ N \in Nat /\ Bodies(i) \subseteq Loci
         /\ \A n \in 1 .. N : SigilOrder[n] \in Loci
         /\ \A n \in 1 .. N : \A j \in 1 .. n - 1 : SigilOrder[j] # SigilOrder[n]
         /\ \E f : WindowRun(i, claims, f)
<1> DEFINE x == [BeginSpec EXCEPT !.writes = Bodies(i)]
           N == Len(SigilOrder)
           f == CHOOSE run : run = WindowLoop(x, i, claims, N, run)
<1>1. AdmitWindows(i, claims) = f[N]
  BY WindowsAreLoop
<1>2. /\ N \in Nat /\ Bodies(i) \subseteq Loci
      /\ \A n \in 1 .. N : SigilOrder[n] \in Loci
      /\ \A n \in 1 .. N : \A j \in 1 .. n - 1 : SigilOrder[j] # SigilOrder[n]
  <2>1. SigilOrder \in Seq(Loci) /\ IsInjective(SigilOrder)
    BY WorldAssumption
  <2>2. N \in Nat /\ DOMAIN SigilOrder = 1 .. N /\ \A n \in 1 .. N : SigilOrder[n] \in Loci
    BY <2>1
  <2>3. \A m, n \in 1 .. N : SigilOrder[m] = SigilOrder[n] => m = n
    BY <2>1, <2>2 DEF IsInjective
  <2>4. \A n \in 1 .. N : \A j \in 1 .. n - 1 : j \in 1 .. N /\ j # n
    BY <2>2
  <2> HIDE DEF N
  <2> QED BY <2>2, <2>3, <2>4 DEF Bodies
<1> HIDE DEF x
<1>3. f = WindowLoop(x, i, claims, N, f)
  <2> HIDE DEF N
  <2>1. \E run : run = WindowLoop(x, i, claims, N, run)
    BY <1>2, WindowsRun
  <2> QED BY <2>1
<1> HIDE DEF f, N
<1>4. f[0] = x /\ \A n \in 1 .. N : f[n] = AdmitBody(i, f[n - 1], SigilOrder[n], claims)
  <2>1. \A n \in 0 .. N :
          f[n] = IF n = 0 THEN x
                 ELSE Once(f[n - 1], LAMBDA s : AdmitBody(i, s, SigilOrder[n], claims))
    BY <1>3 DEF WindowLoop
  <2>2. f[0] = x
    <3>1. 0 \in 0 .. N
      BY <1>2
    <3> QED BY <2>1, <3>1
  <2>3. ASSUME NEW n \in 1 .. N
        PROVE  f[n] = AdmitBody(i, f[n - 1], SigilOrder[n], claims)
    <3>1. Once(f[n - 1], LAMBDA s : AdmitBody(i, s, SigilOrder[n], claims)) =
            AdmitBody(i, f[n - 1], SigilOrder[n], claims)
      BY OnceBody
    <3>2. n \in 0 .. N /\ n # 0
      BY <1>2
    <3> QED BY <2>1, <3>1, <3>2
  <2> QED BY <2>2, <2>3
<1>5. WindowRun(i, claims, f)
  BY <1>1, <1>4 DEF x, N, WindowRun
<1> QED BY <1>2, <1>5 DEF N

(* Each is moved on at most once, and after its claim was validated.       *)
LEMMA AdmitWindowsFit ==
  ASSUME canon \in DOMAIN Canons, NEW i, NEW claims,
         Fit([BeginSpec EXCEPT !.writes = Bodies(i)], {}),
         \A a \in Bodies(i) : Claimed([BeginSpec EXCEPT !.writes = Bodies(i)], a, claims)
  PROVE  LET t == AdmitWindows(i, claims) IN
         /\ Fit(t, {})
         /\ Spares([BeginSpec EXCEPT !.writes = Bodies(i)], t, Bodies(i) \cap Tracked)
<1> DEFINE x == [BeginSpec EXCEPT !.writes = Bodies(i)]
           N == Len(SigilOrder)
<1>1. PICK f : WindowRun(i, claims, f)
  BY BodiesInOrder
<1>2. /\ N \in Nat /\ Bodies(i) \subseteq Loci
      /\ \A n \in 1 .. N : SigilOrder[n] \in Loci
      /\ \A n \in 1 .. N : \A j \in 1 .. n - 1 : SigilOrder[j] # SigilOrder[n]
  BY BodiesInOrder
<1>3. /\ AdmitWindows(i, claims) = f[N] /\ f[0] = x
      /\ \A n \in 1 .. N : f[n] = AdmitBody(i, f[n - 1], SigilOrder[n], claims)
  BY <1>1 DEF WindowRun
<1> HIDE DEF x, N
<1> DEFINE B == Bodies(i) \cap Tracked
           Before(n) == {SigilOrder[j] : j \in 1 .. n} \cap B
           Ok(n) == Fit(f[n], {}) /\ Spares(x, f[n], Before(n))
<1>4. Ok(0)
  <2>1. Fit(f[0], {}) /\ f[0] = x
    BY <1>3 DEF x
  <2>2. Spares(x, x, Before(0))
    BY DEF Spares
  <2> QED BY <2>1, <2>2
<1>5. ASSUME NEW n \in 1 .. N, Ok(n - 1) PROVE Ok(n)
  <2> DEFINE s == f[n - 1]
             l == SigilOrder[n]
             t == AdmitBody(i, s, l, claims)
  <2>1. f[n] = t /\ l \in Loci
    BY <1>2, <1>3
  <2>2. Fit(s, {}) /\ Spares(x, s, Before(n - 1)) /\ l \notin Before(n - 1)
    BY <1>2, <1>5
  <2>3. Before(n - 1) \cup ({l} \cap B) \subseteq Before(n)
    <3>1. \A j \in 1 .. n - 1 : j \in 1 .. n
      OBVIOUS
    <3>2. n \in 1 .. n
      OBVIOUS
    <3> QED BY <3>1, <3>2
  <2> HIDE DEF s, l, Before
  <2>4. CASE l \notin Bodies(i)
    <3>1. t = s
      BY <2>4 DEF AdmitBody
    <3>2. Spares(x, t, Before(n))
      BY <2>2, <2>3, <3>1, MoreSpares
    <3> QED BY <2>1, <2>2, <3>1, <3>2
  <2>5. CASE l \in Bodies(i)
    <3>1. Claimed(x, l, claims)
      BY <2>5 DEF x
    <3>2. Claimed(s, l, claims)
      BY <2>1, <2>2, <3>1, StillClaimed
    <3>3. t = AdmitWindow(s, l, claims)
      BY <2>5 DEF AdmitBody
    <3> HIDE DEF t
    <3>4. Fit(t, {}) /\ Spares(s, t, {l} \cap Tracked)
      BY <2>2, <3>2, <3>3, AdmitWindowFit
    <3>5. Spares(x, t, Before(n - 1) \cup ({l} \cap Tracked))
      BY <2>2, <3>4, SparesTrans
    <3>6. {l} \cap Tracked \subseteq {l} \cap B
      BY <2>5
    <3>7. Spares(x, t, Before(n))
      BY <2>3, <3>5, <3>6, MoreSpares
    <3> QED BY <2>1, <3>4, <3>7
  <2> QED BY <2>4, <2>5
<1>6. \A n \in 0 .. N : Ok(n)
  <2> HIDE DEF Ok
  <2> DEFINE bad == {n \in 0 .. N : ~Ok(n)}
  <2>1. SUFFICES ASSUME bad # {} PROVE FALSE
    OBVIOUS
  <2>2. bad \subseteq Nat
    BY <1>2
  <2>3. PICK m \in bad : \A n \in bad : m <= n
    BY <2>1, <2>2, LeastOf
  <2>4. m \in 1 .. N /\ m - 1 \in 0 .. N
    BY <1>2, <1>4, <2>3
  <2>5. Ok(m - 1)
    BY <2>3, <2>4
  <2> QED BY <1>5, <2>3, <2>4, <2>5
<1>7. Fit(f[N], {}) /\ Spares(x, f[N], Before(N))
  <2>1. N \in 0 .. N
    BY <1>2
  <2> QED BY <1>6, <2>1
<1>8. Spares(x, f[N], B)
  <2>1. Before(N) \subseteq B
    OBVIOUS
  <2> HIDE DEF Before, B
  <2> QED BY <1>7, <2>1, MoreSpares
<1> QED BY <1>3, <1>7, <1>8 DEF x

-----------------------------------------------------------------------------
(* The invariant.  An action in the step that began its WAIT is known by   *)
(* its actor's lane, which is taken: that is why a contact finds an older  *)
(* row.                                                                    *)
Types ==
    /\ canon \in DOMAIN Canons /\ epoch \in Nat /\ island \in Partitions
    /\ rite \in RowSets /\ qty \in [Loci -> Int] /\ parts \in SUBSET (Loci \X Loci)
    /\ deeds \in Deeds /\ left \in Nat
    /\ written \in SUBSET (Loci \X {0, 1}) /\ stage \in 0 .. 3

Dated ==
    \A a \in Actors : <<a, "melee">> \in DOMAIN rite /\ rite[<<a, "melee">>].age = 0 =>
        <<a, 1>> \in written

IInv == Types /\ Placed(rite) /\ Resting(rite, {}) /\ Booked(rite, deeds, {}) /\ Dated

LEMMA StartInv == Init => IInv
<1> SUFFICES ASSUME Init PROVE IInv
  OBVIOUS
<1> USE DEF Init
<1>1. rite = <<>> /\ DOMAIN rite = {}
  OBVIOUS
<1>2. rite \in RowSets
  <2>1. {} \in SUBSET Keys /\ rite \in [{} -> Row]
    BY <1>1
  <2> QED BY <2>1, IsRows
<1>3. deeds \in Deeds
  <2>1. [a \in Actors |-> {}] \in [Actors -> SUBSET (0 .. MaxAge)]
    OBVIOUS
  <2>2. [l \in Loci |-> 0] \in [Loci -> 0 .. 2]
    OBVIOUS
  <2>3. [a \in Actors |-> None] \in [Actors -> Targets]
    BY DEF Targets
  <2>4. [a \in Actors |-> 0] \in [Actors -> Nat] /\ [a \in Actors |-> FALSE] \in [Actors -> BOOLEAN]
    OBVIOUS
  <2> QED BY <2>1, <2>2, <2>3, <2>4 DEF Deeds
<1>4. Types
  BY <1>2, <1>3, WorldAssumption DEF Types
<1>5. Placed(rite) /\ Resting(rite, {}) /\ Dated
  BY <1>1 DEF Placed, Resting, Dated
<1>6. Booked(rite, deeds, {})
  <2>1. \A a \in Actors : ~deeds.bound[a]
    OBVIOUS
  <2> QED BY <2>1 DEF Booked, Honest, Going, Follows
<1> QED BY <1>4, <1>5, <1>6 DEF IInv

(* A transaction starts from the world as it is.                           *)
LEMMA BeginFit ==
  ASSUME IInv, NEW W \in SUBSET Loci
  PROVE  LET x == [BeginSpec EXCEPT !.writes = W] IN
         /\ Fit(x, {}) /\ ~x.err /\ x.rite = rite /\ x.writes = W
<1> DEFINE x == [BeginSpec EXCEPT !.writes = W]
<1>1. /\ x.rite = rite /\ x.qty = qty /\ x.parts = parts /\ x.deeds = deeds
      /\ x.left = left /\ x.writes = W /\ x.emits = 0 /\ x.err = FALSE
      /\ x.run = FALSE /\ x.pc = 1 /\ x.target = None
  BY DEF BeginSpec
<1>2. x \in Delta
  BY DEF IInv, Types, BeginSpec, Delta, Targets
<1> HIDE DEF x
<1>3. Fit(x, {})
  BY <1>1, <1>2 DEF IInv, Fit
<1> QED BY <1>1, <1>3 DEF x

(* Judged, a transaction leaves the world as it was or as it left it.      *)
LEMMA JudgeKeeps ==
  ASSUME IInv, NEW s, NEW cells \in SUBSET (Loci \X {0, 1}), NEW veto,
         Fit(s, {}), Judge(s, cells, veto), NEW x, x.rite = rite, NEW A, Spares(x, s, A),
         ~s.err => \A a \in A \cap Actors : <<a, 1>> \in cells,
         UNCHANGED <<canon, epoch, island>>, stage' \in 0 .. 3
  PROVE  IInv'
<1>1. s \in Delta /\ left' = s.left
  BY DEF Fit, Judge
<1>2. CASE s.err \/ veto
  <2>1. UNCHANGED <<rite, qty, parts, deeds, written>>
    BY <1>2 DEF Judge, world
  <2>2. Types'
    BY <1>1, <2>1 DEF IInv, Types, Delta
  <2>3. Placed(rite)' /\ Resting(rite, {})'
    BY <2>1 DEF IInv, Placed, Resting, Behind, Rites, Code
  <2>4. Booked(rite, deeds, {})'
    BY <2>1 DEF IInv, Booked, Honest, Going, Follows, Tracked, Track
  <2>5. Dated'
    BY <2>1 DEF IInv, Dated
  <2> QED BY <2>2, <2>3, <2>4, <2>5 DEF IInv
<1>3. CASE ~(s.err \/ veto)
  <2>1. /\ rite' = s.rite /\ qty' = s.qty /\ parts' = s.parts /\ deeds' = s.deeds
        /\ written' = written \cup cells
    BY <1>3 DEF Judge
  <2>2. Placed(s.rite) /\ Resting(s.rite, {}) /\ Booked(s.rite, s.deeds, {})
    BY <1>3 DEF Fit
  <2>3. Types'
    BY <1>1, <2>1 DEF IInv, Types, Delta
  <2>4. Placed(rite)' /\ Resting(rite, {})'
    BY <2>1, <2>2 DEF Placed, Resting, Behind, Rites, Code
  <2>5. Booked(rite, deeds, {})'
    BY <2>1, <2>2 DEF Booked, Honest, Going, Follows, Tracked, Track
  <2>6. Dated'
    <3> SUFFICES ASSUME NEW a \in Actors, <<a, "melee">> \in DOMAIN s.rite,
                        s.rite[<<a, "melee">>].age = 0
                 PROVE  <<a, 1>> \in written \cup cells
      BY <2>1 DEF Dated
    <3>1. CASE a \in A
      BY <1>3, <3>1
    <3>2. CASE a \notin A
      <4>1. a \in Loci \ A
        BY <3>2 DEF Loci
      <4>2. <<a, "melee">> \in DOMAIN rite /\ s.rite[<<a, "melee">>] = rite[<<a, "melee">>]
        BY <4>1 DEF Spares
      <4> QED BY <4>2 DEF IInv, Dated
    <3> QED BY <3>1, <3>2
  <2> QED BY <2>3, <2>4, <2>5, <2>6 DEF IInv
<1> QED BY <1>2, <1>3

LEMMA IntentKeeps ==
  ASSUME IInv, NEW source \in Sources, NEW a \in Actors, NEW o \in Orders,
         NEW claimed \in SUBSET Channels, NEW veto,
         Intent(source, a, o.verb, o.target, claimed, veto)
  PROVE  IInv'
<1> DEFINE e == [a |-> a, r |-> None, source |-> source, claimed |-> claimed]
           s == DriveRite(BeginSpec, e, o.verb, o.target)
<1>1. e \in Env /\ e.a = a /\ a \in Loci
  BY DEF Env, Loci
<1>2. o.target \in Targets
  BY InputAssumption
<1>3. Fit(BeginSpec, {}) /\ ~BeginSpec.err /\ BeginSpec.rite = rite
  <2>1. BeginSpec \in Delta
    BY DEF IInv, Types, BeginSpec, Delta, Targets
  <2>2. /\ ~BeginSpec.err /\ BeginSpec.rite = rite /\ BeginSpec.deeds = deeds
    BY DEF BeginSpec
  <2> QED BY <2>1, <2>2 DEF IInv, Fit
<1>4. /\ Judge(s, WriteCells(a), veto) /\ UNCHANGED <<canon, epoch, island>>
      /\ stage' \in 0 .. 3
  BY DEF Intent
<1> HIDE DEF e
<1>5. Fit(s, {}) /\ Spares(BeginSpec, s, {a})
  <2>1. canon \in DOMAIN Canons
    BY DEF IInv, Types
  <2> QED BY <1>1, <1>2, <1>3, <2>1, DriveRiteFit
<1> HIDE DEF s
<1>6. WriteCells(a) \in SUBSET (Loci \X {0, 1}) /\ \A b \in {a} : <<b, 1>> \in WriteCells(a)
  BY <1>1 DEF WriteCells
<1> QED BY <1>3, <1>4, <1>5, <1>6, JudgeKeeps

(* What validates a claim, and the free lane of its actor, witness it.     *)
LEMMA ValidClaimed ==
  ASSUME IInv, NEW i, NEW claims \in Claims(i), NEW a \in Bodies(i), NEW x, x.rite = rite,
         a \in DOMAIN claims => ValidClaim(BeginSpec, a, claims[a]),
         ContactWindow(BeginSpec, a) => <<a, 1>> \notin written
  PROVE  Claimed(x, a, claims)
<1> SUFFICES ASSUME a \in DOMAIN claims PROVE Claimed(x, a, claims)
  BY DEF Claimed
<1>1. claims[a] \in Claimable /\ a \in Tracked
  <2>1. PICK who \in SUBSET (Bodies(i) \cap Tracked) : claims \in [who -> Claimable]
    BY DEF Claims
  <2> QED BY <2>1
<1>2. claims[a].target \in Loci
  BY <1>1, InputAssumption DEF Claim
<1> DEFINE k == <<a, Track[a].rite>>
           m == Machine(BeginSpec, a, Track[a].rite)
<1>3. /\ ContactWindow(BeginSpec, a) /\ k \in DOMAIN rite
      /\ m.age <= Track[a].ticks /\ claims[a].target = m.target /\ claims[a].target # a
  BY DEF ValidClaim, ContactWindow, Has, BeginSpec
<1>4. canon \in DOMAIN Canons /\ rite \in RowSets
  BY DEF IInv, Types
<1>5. rite[k] \in Row
  BY <1>3, <1>4, RowsOf
<1>6. m.age = rite[k].age /\ m.target = rite[k].target
  BY <1>5 DEF Machine, BeginSpec, Row
<1>7. ASSUME TameTracks PROVE rite[k].age \in 1 .. Track[a].ticks /\ k = <<a, "melee">>
  <2>1. k = <<a, "melee">> /\ a \in Actors /\ Track[a].ticks \in Nat
    BY <1>1, <1>4, <1>7, OnBehalfFacts, TrackFacts
  <2>2. rite[k].age # 0
    BY <1>3, <2>1 DEF IInv, Dated
  <2>3. rite[k].age \in Nat
    BY <1>5, MaxAgeNat DEF Row
  <2> HIDE DEF k, m
  <2> QED BY <1>3, <1>6, <2>1, <2>2, <2>3
<1> HIDE DEF m
<1> QED BY <1>2, <1>3, <1>6, <1>7 DEF Claimed

(* An island whose claims are valid and whose lanes are free runs through. *)
LEMMA IslandFit ==
  ASSUME IInv, NEW i, NEW claims \in Claims(i),
         \A a \in DOMAIN claims : ValidClaim(BeginSpec, a, claims[a]),
         \A a \in Bodies(i) : ContactWindow(BeginSpec, a) => <<a, 1>> \notin written
  PROVE  LET x == [BeginSpec EXCEPT !.writes = Bodies(i)]
             s == AdmitWindows(i, claims) IN
         /\ \A a \in Bodies(i) : Claimed(x, a, claims)
         /\ Fit(s, {}) /\ Spares(x, s, Bodies(i) \cap Tracked) /\ Bodies(i) \subseteq s.writes
<1> DEFINE x == [BeginSpec EXCEPT !.writes = Bodies(i)]
           s == AdmitWindows(i, claims)
<1>1. canon \in DOMAIN Canons /\ Bodies(i) \in SUBSET Loci
  BY DEF IInv, Types, Bodies
<1>2. Fit(x, {}) /\ x.rite = rite /\ x.writes = Bodies(i)
  BY <1>1, BeginFit
<1>3. ASSUME NEW a \in Bodies(i) PROVE Claimed(x, a, claims)
  <2>1. a \in DOMAIN claims => ValidClaim(BeginSpec, a, claims[a])
    OBVIOUS
  <2>2. ContactWindow(BeginSpec, a) => <<a, 1>> \notin written
    OBVIOUS
  <2> HIDE DEF x
  <2> QED BY <1>2, <2>1, <2>2, ValidClaimed
<1>4. Fit(s, {}) /\ Spares(x, s, Bodies(i) \cap Tracked)
  BY <1>1, <1>2, <1>3, AdmitWindowsFit
<1> HIDE DEF x, s
<1>5. Bodies(i) \subseteq s.writes
  BY <1>2, <1>4 DEF Spares
<1> QED BY <1>3, <1>4, <1>5 DEF x, s

LEMMA IslandKeeps ==
  ASSUME IInv, NEW i, NEW claims \in Claims(i), NEW veto, AdmitIsland(i, claims, veto)
  PROVE  IInv'
<1> DEFINE taken == written \cap
             ((Bodies(i) \X {0}) \cup {<<a, 1>> : a \in {b \in Bodies(i) :
                                                      ContactWindow(BeginSpec, b)}})
           valid == \A a \in DOMAIN claims : ValidClaim(BeginSpec, a, claims[a])
           x == [BeginSpec EXCEPT !.writes = Bodies(i)]
           s == AdmitWindows(i, claims)
           cells == IslandCells(i, s)
           t == [s EXCEPT !.err = @ \/ cells \cap written # {}]
           B == Bodies(i) \cap Tracked
<1>1. UNCHANGED <<canon, epoch, island>> /\ stage' \in 0 .. 3
  BY DEF AdmitIsland
<1>2. CASE taken # {} \/ ~valid
  <2>1. UNCHANGED <<rite, qty, parts, deeds, left, written>>
    BY <1>2 DEF AdmitIsland, world
  <2>2. Types'
    BY <1>1, <2>1 DEF IInv, Types
  <2>3. Placed(rite)' /\ Resting(rite, {})'
    BY <1>1, <2>1 DEF IInv, Placed, Resting, Behind, Rites, Code
  <2>4. Booked(rite, deeds, {})'
    BY <1>1, <2>1 DEF IInv, Booked, Honest, Going, Follows, Tracked, Track
  <2>5. Dated'
    BY <2>1 DEF IInv, Dated
  <2> QED BY <2>2, <2>3, <2>4, <2>5 DEF IInv
<1>3. CASE taken = {} /\ valid
  <2>1. Judge(t, cells, veto)
    BY <1>3 DEF AdmitIsland, JudgeIsland
  <2>2. canon \in DOMAIN Canons /\ Bodies(i) \in SUBSET Loci
    BY DEF IInv, Types, Bodies
  <2>3. Fit(x, {}) /\ x.rite = rite /\ x.writes = Bodies(i)
    BY <2>2, BeginFit
  <2>4. \A a \in Bodies(i) : ContactWindow(BeginSpec, a) => <<a, 1>> \notin written
    BY <1>3
  <2>5. Fit(s, {}) /\ Spares(x, s, B) /\ Bodies(i) \subseteq s.writes
    BY <1>3, <2>4, IslandFit
  <2> HIDE DEF s, x
  <2>6. s \in Delta
    BY <2>5 DEF Fit
  <2>7. cells \in SUBSET (Loci \X {0, 1})
    BY <2>6 DEF IslandCells, Delta
  <2>8. \A a \in B \cap Actors : <<a, 1>> \in cells
    BY <2>5 DEF IslandCells
  <2> HIDE DEF cells, B
  <2>9. /\ t \in Delta /\ t.rite = s.rite /\ t.deeds = s.deeds /\ t.writes = s.writes
        /\ ~t.err => ~s.err
    BY <2>6 DEF Delta
  <2> HIDE DEF t
  <2>10. Fit(t, {}) /\ Spares(x, t, B)
    BY <2>5, <2>9 DEF Fit, Spares
  <2> QED BY <1>1, <2>1, <2>3, <2>7, <2>8, <2>10, JudgeKeeps
<1> QED BY <1>2, <1>3

(* A step: every row is older, and no lane is taken.                       *)
LEMMA StepKeeps ==
  ASSUME IInv, NEW dt \in Ticks, NEW steps \in RiteSteps, Step(dt, steps)
  PROVE  IInv'
<1>1. /\ rite' = [k \in DOMAIN rite |-> [rite[k] EXCEPT !.age = Older(@, dt)]]
      /\ UNCHANGED <<canon, epoch, island, qty, parts>>
      /\ left' = steps /\ written' = {} /\ stage' = 0
  BY DEF Step
<1>2. Types /\ Placed(rite) /\ Resting(rite, {}) /\ Booked(rite, deeds, {})
  BY DEF IInv
<1>3. rite \in RowSets /\ deeds \in Deeds
  BY <1>2 DEF Types
<1>4. DOMAIN rite \subseteq Keys /\ \A k \in DOMAIN rite : rite[k] \in Row
  BY <1>3, RowsOf
<1>5. dt \in Nat \ {0} /\ steps \in Nat /\ MaxAge \in Nat \ {0}
  BY WorldAssumption
<1>6. ASSUME NEW k \in DOMAIN rite
      PROVE  /\ rite'[k] \in Row /\ rite'[k].age # 0
             /\ rite'[k].pc = rite[k].pc /\ rite'[k].left = rite[k].left
             /\ rite'[k].target = rite[k].target /\ rite'[k].hit = rite[k].hit
  <2> DEFINE m == rite[k]
             age == Older(m.age, dt)
             n == [m EXCEPT !.age = age]
  <2>1. rite'[k] = n /\ m \in Row
    BY <1>1, <1>4
  <2>2. m.age \in 0 .. MaxAge
    BY <2>1 DEF Row
  <2>3. age \in 0 .. MaxAge /\ age # 0
    BY <1>5, <2>2 DEF Older
  <2> HIDE DEF age, m
  <2>4. n \in Row /\ n.age = age /\ n.pc = m.pc /\ n.left = m.left /\ n.target = m.target
        /\ n.hit = m.hit
    BY <2>1, <2>3 DEF Row
  <2> QED BY <2>1, <2>3, <2>4 DEF m
<1>7. DOMAIN rite' = DOMAIN rite
  BY <1>1
<1>8. rite' \in RowSets
  <2>1. DOMAIN rite \in SUBSET Keys /\ rite' \in [DOMAIN rite -> Row]
    BY <1>1, <1>4, <1>6
  <2> QED BY <2>1, IsRows
<1>9. /\ deeds' \in Deeds
      /\ \A a \in Actors :
           /\ Idle(a) => ~deeds'.bound[a]
           /\ ~Idle(a) =>
                /\ deeds'.hits[a] = deeds.hits[a] /\ deeds'.met[a] = deeds.met[a]
                /\ deeds'.bound[a] = deeds.bound[a]
                /\ deeds'.touched[a] = deeds.touched[a] /\ deeds'.struck[a] = deeds.struck[a]
  <2> DEFINE hits == Forget(deeds.hits, 0)
             met == Forget(deeds.met, {})
             bound == Forget(deeds.bound, FALSE)
             touched == Forget(deeds.touched, None)
             struck == Forget(deeds.struck, None)
             d == [deeds EXCEPT !.hits = hits, !.met = met, !.bound = bound,
                                !.touched = touched, !.struck = struck]
  <2>1. deeds' = d
    BY <1>3 DEF Step, Deeds
  <2>2. /\ deeds.hits \in [Actors -> Nat] /\ deeds.met \in [Actors -> SUBSET (0 .. MaxAge)]
        /\ deeds.bound \in [Actors -> BOOLEAN] /\ deeds.touched \in [Actors -> Targets]
        /\ deeds.struck \in [Actors -> Targets]
    BY <1>3 DEF Deeds
  <2>3. /\ hits \in [Actors -> Nat] /\ met \in [Actors -> SUBSET (0 .. MaxAge)]
        /\ bound \in [Actors -> BOOLEAN] /\ touched \in [Actors -> Targets]
        /\ struck \in [Actors -> Targets]
    BY <2>2 DEF Forget, Targets
  <2>4. \A a \in Actors :
           /\ Idle(a) => ~bound[a]
           /\ ~Idle(a) =>
                /\ hits[a] = deeds.hits[a] /\ met[a] = deeds.met[a]
                /\ bound[a] = deeds.bound[a] /\ touched[a] = deeds.touched[a]
                /\ struck[a] = deeds.struck[a]
    BY DEF Forget
  <2> HIDE DEF hits, met, bound, touched, struck
  <2>5. /\ d \in Deeds /\ d.hits = hits /\ d.met = met /\ d.bound = bound
        /\ d.touched = touched /\ d.struck = struck
    BY <1>3, <2>3 DEF Deeds
  <2> HIDE DEF d
  <2> QED BY <2>1, <2>4, <2>5
<1>10. Types'
  BY <1>1, <1>2, <1>5, <1>8, <1>9 DEF Types
<1>11. Placed(rite)'
  BY <1>1, <1>2, <1>6, <1>7 DEF Placed, Rites, Code
<1>12. Resting(rite, {})'
  <2> SUFFICES ASSUME epoch = 0, NEW k \in DOMAIN rite PROVE Behind(rite, k)'
    BY <1>1, <1>7 DEF Resting
  <2>1. Behind(rite, k)
    BY <1>2 DEF Resting
  <2>2. rite'[k].pc = rite[k].pc /\ rite'[k].left = rite[k].left
    BY <1>6
  <2> QED BY <1>1, <2>1, <2>2 DEF Behind, Stands, Code
<1>13. Booked(rite, deeds, {})'
  <2> SUFFICES ASSUME TameTracks, NEW a \in Actors
               PROVE  Honest(deeds, a)' /\ Going(rite, deeds, a)'
    BY DEF Booked
  <2>1. Honest(deeds, a) /\ Going(rite, deeds, a)
    BY <1>2 DEF Booked
  <2>2. CASE Idle(a)
    <3>1. ~deeds'.bound[a]
      BY <1>9, <2>2
    <3> QED BY <3>1 DEF Honest, Going, Follows
  <2>3. CASE ~Idle(a)
    <3>1. /\ deeds'.hits[a] = deeds.hits[a] /\ deeds'.met[a] = deeds.met[a]
          /\ deeds'.bound[a] = deeds.bound[a]
          /\ deeds'.touched[a] = deeds.touched[a] /\ deeds'.struck[a] = deeds.struck[a]
      BY <1>9, <2>3
    <3>2. Honest(deeds, a)'
      BY <1>1, <2>1, <3>1 DEF Honest, Follows, Tracked, Track
    <3>3. Going(rite, deeds, a)'
      BY <1>1, <1>6, <1>7, <2>1, <3>1 DEF Going, Follows, Tracked, Track
    <3> QED BY <3>2, <3>3
  <2> QED BY <2>2, <2>3
<1>14. Dated'
  BY <1>6, <1>7 DEF Dated
<1> QED BY <1>10, <1>11, <1>12, <1>13, <1>14 DEF IInv

(* A pack: the rows the new Canon knows go on.                             *)
LEMMA EpochKeeps ==
  ASSUME IInv, NEW c \in DOMAIN Canons, ApplyEpoch(c)
  PROVE  IInv'
<1> DEFINE S == {k \in DOMAIN rite : /\ k[2] \in DOMAIN Canons[c].code
                                     /\ rite[k].pc \in DOMAIN Canons[c].code[k[2]]}
<1>1. /\ epoch < MaxEpoch /\ <<canon, c>> \in Packs /\ canon' = c /\ epoch' = epoch + 1
      /\ rite' = Restrict(rite, S) /\ stage' = 3
      /\ UNCHANGED <<island, qty, parts, deeds, left, written>>
  BY DEF ApplyEpoch
<1>2. Types /\ Booked(rite, deeds, {}) /\ Dated /\ MaxEpoch \in Nat /\ epoch \in Nat
  BY WorldAssumption DEF IInv, Types
<1>3. DOMAIN rite \subseteq Keys /\ \A k \in DOMAIN rite : rite[k] \in Row
  <2>1. rite \in RowSets
    BY <1>2 DEF Types
  <2> QED BY <2>1, RowsOf
<1>4. rite' = [k \in S |-> rite[k]] /\ S \subseteq DOMAIN rite
  <2>1. DOMAIN rite \cap S = S
    OBVIOUS
  <2> HIDE DEF S
  <2> QED BY <1>1, <2>1 DEF Restrict
<1>5. DOMAIN rite' = S /\ \A k \in S : rite'[k] = rite[k]
  BY <1>4
<1>6. rite' \in RowSets
  <2>1. S \in SUBSET Keys /\ rite' \in [S -> Row]
    BY <1>3, <1>4
  <2> QED BY <2>1, IsRows
<1>7. Types'
  BY <1>1, <1>2, <1>6 DEF Types
<1>8. Placed(rite)'
  BY <1>1, <1>5 DEF Placed, Rites, Code
<1>9. Resting(rite, {})'
  BY <1>1, <1>2 DEF Resting
<1>10. Dated'
  BY <1>1, <1>2, <1>5 DEF Dated
<1>11. Booked(rite, deeds, {})'
  <2> SUFFICES ASSUME TameTracks, NEW a \in Actors
               PROVE  Honest(deeds, a)' /\ Going(rite, deeds, a)'
    BY DEF Booked
  <2>1. Honest(deeds, a) /\ Going(rite, deeds, a)
    BY <1>2 DEF Booked
  <2> DEFINE old == Canons[canon].track
             new == Canons[c].track
  <2>2. /\ a \in DOMAIN old \cap DOMAIN new => old[a].ticks = new[a].ticks
        /\ MaxEpoch <= 1 \/ DOMAIN old \subseteq DOMAIN new
    BY <1>1 DEF TameTracks, TracksKept
  <2>3. /\ Tracked = DOMAIN old /\ Tracked' = DOMAIN new
        /\ Track[a].ticks = old[a].ticks /\ Track'[a].ticks = new[a].ticks
    BY <1>1 DEF Tracked, Track
  <2>4. epoch = 0 \/ MaxEpoch > 1
    BY <1>1, <1>2
  <2>5. deeds.bound[a] => a \in Tracked
    BY <2>1, <2>4 DEF Honest
  <2>6. Follows(deeds, a)' => Follows(deeds, a) /\ Track'[a].ticks = Track[a].ticks
    BY <1>1, <2>2, <2>3, <2>5 DEF Follows
  <2>7. deeds'.bound[a] /\ (epoch' = 0 \/ MaxEpoch > 1) => a \in Tracked'
    BY <1>1, <1>2, <2>2, <2>3, <2>5
  <2>8. Honest(deeds, a)'
    BY <1>1, <2>1, <2>6, <2>7 DEF Honest
  <2>9. Going(rite, deeds, a)'
    BY <1>1, <1>5, <2>1, <2>6 DEF Going
  <2> QED BY <2>8, <2>9
<1> QED BY <1>7, <1>8, <1>9, <1>10, <1>11 DEF IInv

-----------------------------------------------------------------------------
(* What the specification keeps, for every Canon, pack and world.          *)
THEOREM SpecInv == Spec => []IInv
<1>1. IInv /\ [Next]_vars => IInv'
  <2> SUFFICES ASSUME IInv, [Next]_vars PROVE IInv'
    OBVIOUS
  <2>1. ASSUME NEW veto, PlayerIntent(veto) PROVE IInv'
    <3>1. PICK a \in Actors, o \in Orders :
            Intent("player", a, o.verb, o.target, o.claimed, veto)
      BY <2>1 DEF PlayerIntent
    <3>2. o.claimed \in SUBSET Channels /\ "player" \in Sources
      BY InputAssumption DEF Sources
    <3> QED BY <3>1, <3>2, IntentKeeps
  <2>2. ASSUME NEW veto, MindIntent(veto) PROVE IInv'
    <3>1. PICK a \in Actors, o \in Orders : Intent("mind", a, o.verb, o.target, {}, veto)
      BY <2>2 DEF MindIntent
    <3>2. {} \in SUBSET Channels /\ "mind" \in Sources
      BY DEF Sources
    <3> QED BY <3>1, <3>2, IntentKeeps
  <2>3. ASSUME NEW i, NEW veto, IslandProposal(i, veto) PROVE IInv'
    BY <2>3, IslandKeeps DEF IslandProposal
  <2>4. ASSUME NEW dt \in Ticks, NEW steps \in RiteSteps, Step(dt, steps) PROVE IInv'
    BY <2>4, StepKeeps
  <2>5. ASSUME NEW c \in DOMAIN Canons, ApplyEpoch(c) PROVE IInv'
    BY <2>5, EpochKeeps
  <2>6. CASE UNCHANGED vars
    <3>1. UNCHANGED <<canon, epoch, island, rite, qty, parts, deeds, left, written, stage>>
      BY <2>6 DEF vars, world
    <3>2. Types'
      BY <3>1 DEF IInv, Types
    <3>3. Placed(rite)' /\ Resting(rite, {})'
      BY <3>1 DEF IInv, Placed, Resting, Behind, Rites, Code
    <3>4. Booked(rite, deeds, {})'
      BY <3>1 DEF IInv, Booked, Honest, Going, Follows, Tracked, Track
    <3>5. Dated'
      BY <3>1 DEF IInv, Dated
    <3> QED BY <3>2, <3>3, <3>4, <3>5 DEF IInv
  <2> QED BY <2>1, <2>2, <2>3, <2>4, <2>5, <2>6 DEF Next
<1> QED BY <1>1, StartInv, PTL DEF Spec

(* Rows, machines and accounts keep their shape: a row is of a rite of the *)
(* present Canon and at an instruction of it, across packs too.            *)
THEOREM SpecTypeOK == Spec => []TypeOK
<1>1. IInv => TypeOK
  <2> SUFFICES ASSUME IInv PROVE TypeOK
    OBVIOUS
  <2>1. Types /\ Placed(rite)
    BY DEF IInv
  <2>2. DOMAIN rite \subseteq Keys /\ \A k \in DOMAIN rite : rite[k] \in Row
    BY <2>1, RowsOf DEF Types
  <2>3. DOMAIN rite \subseteq Loci \X Rites
    BY <2>1, <2>2 DEF Placed, Keys
  <2>4. \A k \in DOMAIN rite : /\ rite[k].pc \in DOMAIN Code(k[2])
                               /\ rite[k].age \in 0 .. MaxAge /\ rite[k].target \in Targets
    BY <2>1, <2>2 DEF Placed, Row
  <2> QED BY <2>1, <2>3, <2>4 DEF Types, TypeOK
<1> QED BY <1>1, SpecInv, PTL

(* Nobody sees half a burst: whichever instructions a rite is made of,     *)
(* wherever its steps run out and whoever drives it, its row stands behind *)
(* a WAIT with no more to wait than that says (run_burst, K21).            *)
THEOREM SpecNoHalfBurst == Spec => []NoHalfBurst
<1>1. IInv => NoHalfBurst
  BY DEF IInv, Resting, Behind, NoHalfBurst
<1> QED BY <1>1, SpecInv, PTL

(* A bound action that FIRE did not begin hits at most once (the hit       *)
(* ledger), when tracks bind melee and packs keep them.                    *)
THEOREM SpecOneHitPerAction ==
  ASSUME MeleeTracks, TracksKept
  PROVE  Spec => []OneHitPerAction
<1>1. IInv => OneHitPerAction
  <2> SUFFICES ASSUME IInv, NEW a \in Tracked, deeds.bound[a] PROVE deeds.hits[a] <= 1
    BY DEF OneHitPerAction
  <2>1. a \in Actors
    BY TrackFacts DEF IInv, Types
  <2> QED BY <2>1 DEF IInv, Booked, Honest, Follows, TameTracks
<1> QED BY <1>1, SpecInv, PTL

(* A bound action that FIRE did not begin hits only what its last contact  *)
(* was on, whatever its rite has bound since, and that contact was         *)
(* admitted inside its window (K64).                                       *)
THEOREM SpecHitsAreWitnessed ==
  ASSUME MeleeTracks, TracksKept
  PROVE  Spec => []HitsAreWitnessed
<1>1. IInv => HitsAreWitnessed
  <2> SUFFICES ASSUME IInv, NEW a \in Tracked, deeds.bound[a]
               PROVE  /\ \A age \in deeds.met[a] : age \in 1 .. Track[a].ticks
                      /\ deeds.hits[a] > 0 =>
                           deeds.met[a] # {} /\ deeds.struck[a] = deeds.touched[a]
    BY DEF HitsAreWitnessed
  <2>1. a \in Actors
    BY TrackFacts DEF IInv, Types
  <2> QED BY <2>1 DEF IInv, Booked, Honest, Follows, TameTracks
<1> QED BY <1>1, SpecInv, PTL

-----------------------------------------------------------------------------
(* A WAIT yields.  The same transactions, followed through the rows only:  *)
(* which of them a transaction that goes through may have touched.         *)
Blows == {"apply_hit", "collapse"}

(* A rite the VM drives on a victim has run through when the burst is over. *)
Gone(f) == \A k \in DOMAIN f : k[2] \notin Blows

Sound(s) == s \in Delta /\ (~s.err => Placed(s.rite) /\ Gone(s.rite))

(* Nothing but the rows of K has been touched.                             *)
Keeps(s, t, K) ==
    /\ s.err => t.err
    /\ ~t.err => \A k \in Keys \ K :
         /\ k \in DOMAIN t.rite <=> k \in DOMAIN s.rite
         /\ k \in DOMAIN s.rite => t.rite[k] = s.rite[k]

LEMMA KeepsTrans ==
  ASSUME NEW s, NEW t, NEW u, NEW K, NEW L, Keeps(s, t, K), Keeps(t, u, L)
  PROVE  Keeps(s, u, K \cup L)
  BY DEF Keeps

LEMMA KeepsMore ==
  ASSUME NEW s, NEW t, NEW K, NEW L, Keeps(s, t, K), K \subseteq L
  PROVE  Keeps(s, t, L)
  BY DEF Keeps

LEMMA FailKeeps ==
  ASSUME NEW s, Sound(s), NEW K
  PROVE  Sound(Fail(s)) /\ Keeps(s, Fail(s), K) /\ Fail(s).err
<1>1. Fail(s) \in Delta /\ Fail(s).err
  BY FailWrites DEF Sound
<1> QED BY <1>1 DEF Sound, Keeps

(* Only what the rows, errors and the shape of a delta tell apart.         *)
LEMMA SoundByRows ==
  ASSUME NEW s, Sound(s), NEW t \in Delta, t.rite = s.rite, t.err = s.err
  PROVE  Sound(t) /\ Keeps(s, t, {})
  BY DEF Sound, Keeps

LEMMA GoneByKey ==
  ASSUME NEW s \in Delta, NEW t \in Delta, NEW k, Gone(s.rite),
         \A j \in Keys \ {k} : j \in DOMAIN t.rite => j \in DOMAIN s.rite,
         k \in DOMAIN t.rite => k[2] \notin Blows
  PROVE  Gone(t.rite)
<1>1. \A j \in DOMAIN t.rite : j \in Keys
  BY RowFacts
<1> QED BY <1>1 DEF Gone

(* What stands behind a WAIT is no rite of the VM's own.                   *)
LEMMA WaitsFacts ==
  ASSUME WaitsAreReal, canon \in DOMAIN Canons, NEW f, NEW k, k[2] \in Rites,
         f[k].pc \in DOMAIN Code(k[2]), Behind(f, k)
  PROVE  k[2] \notin Blows /\ Code(k[2])[f[k].pc - 1].ticks > 0
<1> DEFINE r == k[2]
           pc == f[k].pc
<1>1. Code(r) \in Seq(Instructions) /\ pc \in DOMAIN Code(r) /\ pc > 1
  BY CodeFacts DEF Behind
<1>2. Code(r)[pc - 1].op = "wait"
  BY DEF Behind, Stands
<1>3. pc - 1 \in DOMAIN Code(r)
  <2> HIDE DEF r, pc
  <2> QED BY <1>1
<1>4. Code(r) = Canons[canon].code[r] /\ r \in DOMAIN Canons[canon].code
  BY DEF Code, Rites
<1> HIDE DEF pc
<1>5. Code(r)[pc - 1].ticks > 0 /\ r \notin {"apply_hit", "collapse"}
  BY <1>2, <1>3, <1>4 DEF WaitsAreReal
<1> QED BY <1>5 DEF Blows, pc

(* Such a rite, begun on anybody, leaves every row as it was.              *)
LEMMA BlowKeeps ==
  ASSUME WaitsAreReal, canon \in DOMAIN Canons, NEW s, Sound(s), ~s.err, NEW d \in Env,
         d.r \in Rites, d.r \in Blows, NEW target \in Targets,
         NEW u \in Delta, Placed(u.rite), <<d.a, d.r>> \in DOMAIN u.rite,
         \A j \in Keys \ {<<d.a, d.r>>} :
            /\ j \in DOMAIN u.rite <=> j \in DOMAIN s.rite
            /\ j \in DOMAIN s.rite => u.rite[j] = s.rite[j]
  PROVE  LET t == Burst(u, d, 1, target) IN Sound(t) /\ Keeps(s, t, {})
<1> DEFINE k == <<d.a, d.r>>
           t == Burst(u, d, 1, target)
<1>1. d.r \in RiteNames /\ 1 \in DOMAIN Code(d.r)
  <2>1. d.r \in RiteNames /\ Code(d.r) \in Seq(Instructions)
        /\ Len(Code(d.r)) \in DOMAIN Code(d.r)
    BY CodeFacts
  <2> QED BY <2>1
<1>2. s \in Delta /\ Placed(s.rite) /\ Gone(s.rite)
  BY DEF Sound
<1>3. /\ Moves(u, t, k) /\ Placed(t.rite)
      /\ ~t.err /\ k \in DOMAIN t.rite => Waits(t.rite, k)
  BY <1>1, BurstMoves
<1> HIDE DEF t
<1>4. t \in Delta
  BY <1>3 DEF Moves
<1>5. ~t.err => k \notin DOMAIN t.rite
  <2>1. SUFFICES ASSUME ~t.err, k \in DOMAIN t.rite PROVE FALSE
    OBVIOUS
  <2>2. Behind(t.rite, k) /\ k[2] \in Rites /\ t.rite[k].pc \in DOMAIN Code(k[2])
    BY <1>3, <2>1 DEF Waits, Placed
  <2>3. k[2] \notin Blows
    BY <2>2, WaitsFacts
  <2> QED BY <2>3
<1>6. k \notin DOMAIN s.rite
  BY <1>2 DEF Gone
<1>7. \A j \in Keys \ {k} : /\ j \in DOMAIN t.rite <=> j \in DOMAIN s.rite
                            /\ j \in DOMAIN s.rite => t.rite[j] = s.rite[j]
  BY <1>3 DEF Moves
<1>8. ~t.err => Gone(t.rite)
  BY <1>2, <1>4, <1>5, <1>7, GoneByKey
<1>9. Keeps(s, t, {})
  BY <1>5, <1>6, <1>7 DEF Keeps
<1> QED BY <1>3, <1>4, <1>8, <1>9 DEF Sound, t

LEMMA BegunRows ==
  ASSUME canon \in DOMAIN Canons, NEW s \in Delta, Placed(s.rite),
         NEW v \in Loci, NEW r \in Rites, NEW target \in Targets
  PROVE  LET u == Began(s, v, r, target)
             k == <<v, r>> IN
         /\ u \in Delta /\ u.err = s.err /\ Placed(u.rite) /\ k \in DOMAIN u.rite
         /\ \A j \in Keys \ {k} : /\ j \in DOMAIN u.rite <=> j \in DOMAIN s.rite
                                  /\ j \in DOMAIN s.rite => u.rite[j] = s.rite[j]
<1> DEFINE k == <<v, r>>
           u == Began(s, v, r, target)
<1>1. r \in RiteNames /\ 1 \in DOMAIN Code(r)
  <2>1. r \in RiteNames /\ Code(r) \in Seq(Instructions) /\ Len(Code(r)) \in DOMAIN Code(r)
    BY CodeFacts
  <2> QED BY <2>1
<1>2. /\ Rewrites(s, u, k) /\ DOMAIN u.rite = DOMAIN s.rite \cup {k}
      /\ u.rite[k] = Fresh(target)
  BY <1>1, BeganWrites
<1> HIDE DEF u
<1>3. Placed(u.rite)
  <2>1. u.rite[k].pc = 1
    BY <1>2 DEF Fresh
  <2>2. \A j \in DOMAIN s.rite : j \in Keys
    BY RowFacts
  <2> QED BY <1>1, <1>2, <2>1, <2>2 DEF Placed, Rewrites
<1> QED BY <1>2, <1>3 DEF Rewrites, u

(* A rite driven on a victim leaves every row as it was.                   *)
LEMMA DrivenKeeps ==
  ASSUME WaitsAreReal, canon \in DOMAIN Canons, NEW s, Sound(s), ~s.err, NEW e \in Env,
         NEW v \in Loci, NEW r \in Rites, r \in Blows
  PROVE  Sound(Driven(s, e, v, r)) /\ Keeps(s, Driven(s, e, v, r), {})
<1> DEFINE d == [e EXCEPT !.a = v, !.r = r]
           k == <<v, r>>
           u == Began(s, v, r, v)
           t == Burst(u, d, 1, v)
<1>1. r \in RiteNames /\ v \in Targets
  BY CodeFacts DEF Targets
<1>2. d \in Env /\ d.a = v /\ d.r = r
  BY <1>1 DEF Env
<1>3. s \in Delta /\ Placed(s.rite)
  BY DEF Sound
<1>4. /\ u \in Delta /\ Placed(u.rite) /\ k \in DOMAIN u.rite
      /\ \A j \in Keys \ {k} : /\ j \in DOMAIN u.rite <=> j \in DOMAIN s.rite
                               /\ j \in DOMAIN s.rite => u.rite[j] = s.rite[j]
  BY <1>1, <1>3, BegunRows
<1> HIDE DEF u, d
<1>5. Sound(t) /\ Keeps(s, t, {})
  BY <1>1, <1>2, <1>4, BlowKeeps
<1> QED BY <1>5 DEF Driven, t, u, d

LEMMA CollapseKeeps ==
  ASSUME WaitsAreReal, canon \in DOMAIN Canons, NEW s, Sound(s), ~s.err, NEW e \in Env,
         NEW v \in Loci
  PROVE  Sound(Collapse(s, e, v)) /\ Keeps(s, Collapse(s, e, v), {})
<1> DEFINE falls == IF s.deeds.falls[v] < 2 THEN s.deeds.falls[v] + 1 ELSE 2
           d == [s.deeds EXCEPT !.falls[v] = falls]
           u == [s EXCEPT !.deeds = d]
<1>1. \/ Collapse(s, e, v) = s
      \/ "collapse" \in Rites /\ Collapse(s, e, v) = Driven(u, e, v, "collapse")
  BY DEF Collapse
<1>2. s \in Delta /\ s.deeds \in Deeds
  BY DEF Sound, Delta
<1>3. s.deeds.falls \in [Loci -> 0 .. 2]
  BY <1>2 DEF Deeds
<1>4. falls \in 0 .. 2
  BY <1>3
<1> HIDE DEF falls
<1>5. d \in Deeds
  <2>1. [s.deeds.falls EXCEPT ![v] = falls] \in [Loci -> 0 .. 2]
    BY <1>3, <1>4
  <2> QED BY <1>2, <2>1 DEF Deeds
<1> HIDE DEF d
<1>6. u \in Delta /\ u.rite = s.rite /\ u.err = s.err
  BY <1>2, <1>5 DEF Delta
<1> HIDE DEF u
<1>7. Sound(u) /\ Keeps(s, u, {}) /\ ~u.err
  BY <1>6, SoundByRows
<1>8. CASE Collapse(s, e, v) = s
  BY <1>8 DEF Keeps
<1>9. CASE "collapse" \in Rites /\ Collapse(s, e, v) = Driven(u, e, v, "collapse")
  <2>1. /\ Sound(Driven(u, e, v, "collapse"))
        /\ Keeps(u, Driven(u, e, v, "collapse"), {})
    <3>1. "collapse" \in Blows
      BY DEF Blows
    <3> QED BY <1>7, <1>9, <3>1, DrivenKeeps
  <2>2. Keeps(s, Driven(u, e, v, "collapse"), {} \cup {})
    BY <1>7, <2>1, KeepsTrans
  <2> QED BY <1>9, <2>1, <2>2
<1> QED BY <1>1, <1>8, <1>9

LEMMA StruckKeeps ==
  ASSUME WaitsAreReal, canon \in DOMAIN Canons, NEW s, Sound(s), ~s.err, NEW e \in Env,
         e.a \in Actors, NEW target \in Loci, NEW v \in Loci
  PROVE  Sound(Struck(s, e, target, v)) /\ Keeps(s, Struck(s, e, target, v), {})
<1> DEFINE a == e.a
           hits == [s.deeds.hits EXCEPT ![a] = @ + 1]
           struck == [s.deeds.struck EXCEPT ![a] = target]
           d == [s.deeds EXCEPT !.hits = hits, !.struck = struck]
           u == [s EXCEPT !.deeds = d]
           w == [s EXCEPT !.deeds.hits[e.a] = @ + 1, !.deeds.struck[e.a] = target]
<1>1. Struck(s, e, target, v) = IF "apply_hit" \in Rites THEN Driven(w, e, v, "apply_hit") ELSE w
  BY DEF Struck
<1>2. s \in Delta /\ s.deeds \in Deeds
  BY DEF Sound, Delta
<1>3. w = u
  BY <1>2 DEF Delta, Deeds
<1> HIDE DEF w
<1>4. s.deeds.hits \in [Actors -> Nat] /\ s.deeds.struck \in [Actors -> Targets]
  BY <1>2 DEF Deeds
<1>5. hits \in [Actors -> Nat] /\ struck \in [Actors -> Targets]
  BY <1>4 DEF Targets
<1> HIDE DEF hits, struck
<1>6. d \in Deeds
  BY <1>2, <1>5 DEF Deeds
<1> HIDE DEF d
<1>7. u \in Delta /\ u.rite = s.rite /\ u.err = s.err
  BY <1>2, <1>6 DEF Delta
<1> HIDE DEF u
<1>8. Sound(u) /\ Keeps(s, u, {}) /\ ~u.err
  BY <1>7, SoundByRows
<1>9. CASE "apply_hit" \notin Rites
  BY <1>1, <1>3, <1>8, <1>9
<1>10. CASE "apply_hit" \in Rites
  <2>1. /\ Sound(Driven(u, e, v, "apply_hit"))
        /\ Keeps(u, Driven(u, e, v, "apply_hit"), {})
    <3>1. "apply_hit" \in Blows
      BY DEF Blows
    <3> QED BY <1>8, <1>10, <3>1, DrivenKeeps
  <2>2. Keeps(s, Driven(u, e, v, "apply_hit"), {} \cup {})
    BY <1>8, <2>1, KeepsTrans
  <2> QED BY <1>1, <1>3, <1>10, <2>1, <2>2
<1> QED BY <1>9, <1>10

LEMMA ApplyHitKeeps ==
  ASSUME WaitsAreReal, canon \in DOMAIN Canons, NEW s, Sound(s), NEW e \in Env,
         e.a \in Actors, NEW target \in Targets
  PROVE  Sound(ApplyHit(s, e, target)) /\ Keeps(s, ApplyHit(s, e, target), {})
<1> DEFINE v == Parent(s, target)
           u == Struck(s, e, target, v)
           w == ApplyHit(s, e, target)
<1>1. s \in Delta
  BY DEF Sound
<1>2. CASE s.err \/ target = None \/ s.emits = 0
  <2>1. w = s
    BY <1>2 DEF ApplyHit
  <2> QED BY <2>1 DEF Keeps
<1>3. CASE ~(s.err \/ target = None \/ s.emits = 0)
  <2>1. target \in Loci
    BY <1>3 DEF Targets
  <2>2. v \in Loci
    BY <1>1, <2>1, ParentFacts
  <2>3. w = AndFalls(u, e, v, MayCollapse(s, v))
    BY <1>3 DEF ApplyHit, HitOn
  <2> HIDE DEF v, w
  <2>4. Sound(u) /\ Keeps(s, u, {})
    BY <1>3, <2>1, <2>2, StruckKeeps
  <2> HIDE DEF u
  <2>5. \/ w = u
        \/ ~u.err /\ w = Collapse(u, e, v)
    BY <2>3 DEF AndFalls
  <2>6. CASE w = u
    BY <2>4, <2>6 DEF w
  <2>7. CASE ~u.err /\ w = Collapse(u, e, v)
    <3>1. Sound(w) /\ Keeps(u, w, {})
      BY <2>2, <2>4, <2>7, CollapseKeeps
    <3>2. Keeps(s, w, {} \cup {})
      BY <2>4, <3>1, KeepsTrans
    <3> QED BY <3>1, <3>2 DEF w
  <2> QED BY <2>5, <2>6, <2>7
<1> QED BY <1>2, <1>3

(* A burst of a machine that was there touches that machine only, and      *)
(* leaves it at the beginning of a WAIT.                                   *)
LEMMA BurstKeeps ==
  ASSUME canon \in DOMAIN Canons, NEW s, Sound(s), ~s.err, NEW e \in Env,
         e.r \in Rites \ Blows, <<e.a, e.r>> \in DOMAIN s.rite,
         NEW target \in Targets, NEW pc \in DOMAIN Code(e.r)
  PROVE  LET t == Burst(s, e, pc, target)
             k == <<e.a, e.r>> IN
         /\ Sound(t) /\ Keeps(s, t, {k})
         /\ ~t.err /\ k \in DOMAIN t.rite => Waits(t.rite, k)
<1> DEFINE k == <<e.a, e.r>>
           t == Burst(s, e, pc, target)
<1>1. s \in Delta /\ Placed(s.rite) /\ Gone(s.rite)
  BY DEF Sound
<1>2. /\ Moves(s, t, k) /\ Placed(t.rite)
      /\ ~t.err /\ k \in DOMAIN t.rite => Waits(t.rite, k)
  BY <1>1, BurstMoves
<1> HIDE DEF t
<1>3. t \in Delta /\ Keeps(s, t, {k})
  BY <1>2 DEF Moves, Keeps
<1>4. Gone(t.rite)
  <2>1. \A j \in Keys \ {k} : j \in DOMAIN t.rite => j \in DOMAIN s.rite
    BY <1>2 DEF Moves
  <2>2. k[2] \notin Blows
    OBVIOUS
  <2> QED BY <1>1, <1>3, <2>1, <2>2, GoneByKey
<1> QED BY <1>2, <1>3, <1>4 DEF Sound, t

(* An intent: rows of its actor only, and a row that is new, or in the     *)
(* step that began its WAIT, waits.                                        *)
Of(a) == {k \in Keys : k[1] = a}

Timely(s, t) ==
    ~t.err => \A k \in DOMAIN t.rite :
        \/ k \in DOMAIN s.rite /\ t.rite[k] = s.rite[k]
        \/ Waits(t.rite, k)

LEMMA KeptTimely ==
  ASSUME NEW s, NEW t, NEW u, Timely(s, t), Sound(t), Sound(u), Keeps(t, u, {})
  PROVE  Timely(s, u)
<1> SUFFICES ASSUME ~u.err, NEW k \in DOMAIN u.rite
             PROVE  \/ k \in DOMAIN s.rite /\ u.rite[k] = s.rite[k]
                    \/ Waits(u.rite, k)
  BY DEF Timely
<1>1. k \in Keys
  BY RowFacts DEF Sound
<1>2. ~t.err /\ k \in DOMAIN t.rite /\ u.rite[k] = t.rite[k]
  BY <1>1 DEF Keeps
<1> QED BY <1>2 DEF Timely, Waits, Behind

LEMMA BurstTimely ==
  ASSUME NEW s, NEW t, NEW k \in Keys, Sound(t), Keeps(s, t, {k}),
         ~t.err /\ k \in DOMAIN t.rite => Waits(t.rite, k)
  PROVE  Timely(s, t)
<1> SUFFICES ASSUME ~t.err, NEW j \in DOMAIN t.rite
             PROVE  \/ j \in DOMAIN s.rite /\ t.rite[j] = s.rite[j]
                    \/ Waits(t.rite, j)
  BY DEF Timely
<1>1. j \in Keys
  BY RowFacts DEF Sound
<1> QED BY <1>1 DEF Keeps

LEMMA MeleeHitKeeps ==
  ASSUME WaitsAreReal, canon \in DOMAIN Canons, NEW s, NEW b, Sound(b), Timely(s, b),
         NEW e \in Env, e.a \in Actors, NEW target \in Targets, NEW may,
         Keeps(s, b, Of(e.a))
  PROVE  LET t == MeleeHit(b, e, target, may) IN
         Sound(t) /\ Keeps(s, t, Of(e.a)) /\ Timely(s, t)
<1> DEFINE t == ApplyHit(b, e, target)
<1>1. CASE ~may
  BY <1>1 DEF MeleeHit
<1>2. CASE may
  <2>1. MeleeHit(b, e, target, may) = t
    BY <1>2 DEF MeleeHit
  <2>2. Sound(t) /\ Keeps(b, t, {})
    BY ApplyHitKeeps
  <2> HIDE DEF t
  <2>3. Keeps(s, t, Of(e.a) \cup {}) /\ Timely(s, t)
    BY <2>2, KeepsTrans, KeptTimely
  <2>4. Of(e.a) \cup {} = Of(e.a)
    OBVIOUS
  <2> QED BY <2>1, <2>2, <2>3, <2>4
<1> QED BY <1>1, <1>2

LEMMA FailTimely ==
  ASSUME NEW s, Sound(s), NEW K
  PROVE  Sound(Fail(s)) /\ Keeps(s, Fail(s), K) /\ Timely(s, Fail(s))
<1>1. Sound(Fail(s)) /\ Keeps(s, Fail(s), K) /\ Fail(s).err
  BY FailKeeps
<1> QED BY <1>1 DEF Timely

LEMMA ResumeKeeps ==
  ASSUME WaitsAreReal, canon \in DOMAIN Canons, NEW s, Sound(s), ~s.err, NEW e \in Env,
         e.a \in Actors, e.r \in Rites, <<e.a, e.r>> \in DOMAIN s.rite,
         NEW target \in Targets
  PROVE  LET t == Resume(s, e, s.rite[<<e.a, e.r>>], target) IN
         Sound(t) /\ Keeps(s, t, Of(e.a)) /\ Timely(s, t)
<1> DEFINE k == <<e.a, e.r>>
           m == s.rite[k]
           b == Burst(s, e, m.pc, target)
           t == Resume(s, e, m, target)
<1>1. t \in {Fail(s), MeleeHit(b, e, target, e.r = "melee")}
  BY DEF Resume
<1>2. CASE t = Fail(s)
  BY <1>2, FailTimely
<1>3. CASE t = MeleeHit(b, e, target, e.r = "melee")
  <2>1. s \in Delta /\ Placed(s.rite) /\ Gone(s.rite)
    BY DEF Sound
  <2>2. m.pc \in DOMAIN Code(e.r) /\ e.r \in Rites \ Blows
    BY <2>1 DEF Placed, Gone
  <2>3. k \in Of(e.a)
    BY <2>1, RowFacts DEF Of
  <2>4. /\ Sound(b) /\ Keeps(s, b, {k})
        /\ ~b.err /\ k \in DOMAIN b.rite => Waits(b.rite, k)
    <3> HIDE DEF m
    <3> QED BY <2>2, BurstKeeps
  <2> HIDE DEF b, t
  <2>5. Timely(s, b)
    BY <2>3, <2>4, BurstTimely DEF Of
  <2>6. Keeps(s, b, Of(e.a))
    BY <2>3, <2>4, KeepsMore
  <2>7. Sound(t) /\ Keeps(s, t, Of(e.a)) /\ Timely(s, t)
    BY <1>3, <2>4, <2>5, <2>6, MeleeHitKeeps
  <2> QED BY <2>7 DEF t
<1> QED BY <1>1, <1>2, <1>3

LEMMA StartKeeps ==
  ASSUME WaitsAreReal, canon \in DOMAIN Canons, NEW s, Sound(s), ~s.err, NEW e \in Env,
         e.a \in Actors, NEW verb, NEW target \in Targets,
         e.r \in StartRite(s, verb, target)
  PROVE  LET t == Start(s, e, verb, target) IN
         Sound(t) /\ Keeps(s, t, Of(e.a)) /\ Timely(s, t)
<1> DEFINE k == <<e.a, e.r>>
           o == Began(s, e.a, e.r, target)
           u == Opened(o, e, verb)
           b == Burst(u, e, 1, target)
           may == verb = "fire" \/ (e.r = "melee" /\ e.a \notin Tracked)
           t == Start(s, e, verb, target)
<1>1. e.r \in Rites
  BY DEF StartRite, Fallback
<1>2. e.a \in Loci /\ e.r \in RiteNames /\ 1 \in DOMAIN Code(e.r)
  <2>1. Code(e.r) \in Seq(Instructions) /\ Len(Code(e.r)) \in DOMAIN Code(e.r)
        /\ e.r \in RiteNames
    BY <1>1, CodeFacts
  <2> QED BY <2>1 DEF Env
<1>3. s \in Delta /\ Placed(s.rite) /\ Gone(s.rite)
  BY DEF Sound
<1>4. /\ o \in Delta /\ o.err = s.err /\ Placed(o.rite) /\ k \in DOMAIN o.rite
      /\ \A j \in Keys \ {k} : /\ j \in DOMAIN o.rite <=> j \in DOMAIN s.rite
                               /\ j \in DOMAIN s.rite => o.rite[j] = s.rite[j]
  BY <1>1, <1>2, <1>3, BegunRows
<1> HIDE DEF o
<1>5. u \in Delta /\ u.rite = o.rite /\ u.err = o.err
  BY <1>4, OpenedWrites
<1>6. t = MeleeHit(b, e, target, may)
  BY DEF Start, o
<1> HIDE DEF u, may
<1>7. k \in Of(e.a)
  BY <1>2 DEF Of, Keys
<1>8. Sound(b) /\ Keeps(s, b, {k}) /\ Timely(s, b)
  <2>1. CASE e.r \notin Blows
    <3>1. Gone(u.rite)
      <4>1. \A j \in Keys \ {k} : j \in DOMAIN u.rite => j \in DOMAIN s.rite
        BY <1>4, <1>5
      <4>2. k[2] \notin Blows /\ u \in Delta
        BY <1>4, <1>5, <2>1
      <4> QED BY <1>3, <4>1, <4>2, GoneByKey
    <3>2. Sound(u) /\ Keeps(s, u, {k}) /\ ~u.err
      BY <1>4, <1>5, <3>1 DEF Sound, Keeps
    <3>3. /\ Sound(b) /\ Keeps(u, b, {k})
          /\ ~b.err /\ k \in DOMAIN b.rite => Waits(b.rite, k)
      BY <1>1, <1>2, <1>4, <1>5, <2>1, <3>2, BurstKeeps
    <3> HIDE DEF b
    <3>4. Keeps(s, b, {k} \cup {k})
      BY <3>2, <3>3, KeepsTrans
    <3>5. {k} \cup {k} = {k}
      OBVIOUS
    <3> QED BY <1>7, <3>3, <3>4, <3>5, BurstTimely DEF Of
  <2>2. CASE e.r \in Blows
    <3>1. Sound(b) /\ Keeps(s, b, {})
      BY <1>1, <1>4, <1>5, <2>2, BlowKeeps
    <3> HIDE DEF b
    <3>2. Sound(s) /\ Timely(s, s)
      BY DEF Timely
    <3>3. Timely(s, b)
      BY <3>1, <3>2, KeptTimely
    <3>4. Keeps(s, b, {k})
      BY <3>1, KeepsMore
    <3> QED BY <3>1, <3>3, <3>4
  <2> QED BY <2>1, <2>2
<1> HIDE DEF b, t
<1>9. Keeps(s, b, Of(e.a))
  BY <1>7, <1>8, KeepsMore
<1>10. Sound(t) /\ Keeps(s, t, Of(e.a)) /\ Timely(s, t)
  BY <1>6, <1>8, <1>9, MeleeHitKeeps
<1> QED BY <1>10 DEF t

LEMMA DriveRiteKeeps ==
  ASSUME WaitsAreReal, canon \in DOMAIN Canons, NEW s, Sound(s), ~s.err, NEW e \in Env,
         e.a \in Actors, NEW verb, NEW target \in Targets
  PROVE  LET t == DriveRite(s, e, verb, target) IN
         Sound(t) /\ Keeps(s, t, Of(e.a)) /\ Timely(s, t)
<1>1. s \in Delta
  BY DEF Sound
<1>2. CASE \E r \in Rites : Has(s, e.a, r)
  <2> DEFINE r == FirstRite(s, e.a)
             d == [e EXCEPT !.r = r]
             m == s.rite[<<e.a, r>>]
             aim == IF m.target = None THEN target ELSE m.target
  <2>1. r \in Rites /\ <<e.a, r>> \in DOMAIN s.rite /\ r \in RiteNames
    BY <1>2, CodeFacts, FirstRiteFacts DEF Has
  <2>2. DriveRite(s, e, verb, target) = Resume(s, d, m, aim)
    BY <1>2 DEF DriveRite
  <2> HIDE DEF r
  <2>3. d \in Env /\ d.a = e.a /\ d.r = r
    BY <2>1 DEF Env
  <2>4. m \in Row
    BY <1>1, <2>1, RowFacts
  <2>5. aim \in Targets
    BY <2>4 DEF Row
  <2> HIDE DEF d, aim
  <2>6. LET t == Resume(s, d, s.rite[<<d.a, d.r>>], aim) IN
        Sound(t) /\ Keeps(s, t, Of(d.a)) /\ Timely(s, t)
    BY <2>1, <2>3, <2>5, ResumeKeeps
  <2> QED BY <2>2, <2>3, <2>6
<1>3. CASE ~(\E r \in Rites : Has(s, e.a, r)) /\ StartRite(s, verb, target) = {}
  <2>1. DriveRite(s, e, verb, target) = s
    BY <1>3 DEF DriveRite
  <2> QED BY <2>1 DEF Keeps, Timely
<1>4. CASE ~(\E r \in Rites : Has(s, e.a, r)) /\ StartRite(s, verb, target) # {}
  <2> DEFINE r == CHOOSE r \in StartRite(s, verb, target) : TRUE
             d == [e EXCEPT !.r = r]
  <2>1. r \in StartRite(s, verb, target)
    BY <1>4
  <2>2. DriveRite(s, e, verb, target) = Start(s, d, verb, target)
    BY <1>4 DEF DriveRite
  <2> HIDE DEF r
  <2>3. r \in RiteNames
    <3>1. r \in Rites
      BY <2>1 DEF StartRite, Fallback
    <3> QED BY <3>1, CodeFacts
  <2>4. d \in Env /\ d.a = e.a /\ d.r = r
    BY <2>3 DEF Env
  <2> HIDE DEF d
  <2>5. LET t == Start(s, d, verb, target) IN
        Sound(t) /\ Keeps(s, t, Of(d.a)) /\ Timely(s, t)
    BY <2>1, <2>4, StartKeeps
  <2> QED BY <2>2, <2>4, <2>5
<1> QED BY <1>2, <1>3, <1>4

(* An island: it moves its tracked actions on, but a row in the step that  *)
(* began its WAIT it writes as it found it.                                *)
Held(f) == {k \in DOMAIN f : Waits(f, k)}

LEMMA PlacedByRewriting ==
  ASSUME NEW s, Sound(s), ~s.err, NEW t, NEW k \in Keys, Rewrites(s, t, k),
         k \in DOMAIN t.rite => k \in DOMAIN s.rite /\ t.rite[k].pc = s.rite[k].pc
  PROVE  Sound(t) /\ Keeps(s, t, {k}) /\ ~t.err
<1>1. s \in Delta /\ Placed(s.rite) /\ Gone(s.rite) /\ t \in Delta /\ ~t.err
  BY DEF Sound, Rewrites
<1>2. \A j \in DOMAIN t.rite : j \in DOMAIN s.rite /\ t.rite[j].pc = s.rite[j].pc
  <2> SUFFICES ASSUME NEW j \in DOMAIN t.rite
               PROVE  j \in DOMAIN s.rite /\ t.rite[j].pc = s.rite[j].pc
    OBVIOUS
  <2>1. j \in Keys
    BY <1>1, RowFacts
  <2> QED BY <2>1 DEF Rewrites
<1>3. Placed(t.rite) /\ Gone(t.rite)
  BY <1>1, <1>2 DEF Placed, Gone
<1> QED BY <1>1, <1>3 DEF Sound, Keeps, Rewrites

LEMMA EndedKeeps ==
  ASSUME NEW s, Sound(s), ~s.err, NEW a \in Loci, NEW r \in RiteNames
  PROVE  Sound(Ended(s, a, r)) /\ Keeps(s, Ended(s, a, r), {<<a, r>>})
<1> DEFINE k == <<a, r>>
           t == Ended(s, a, r)
<1>1. Rewrites(s, t, k) /\ DOMAIN t.rite = DOMAIN s.rite \ {k}
  BY EndedWrites DEF Sound
<1>2. k \in Keys
  BY DEF Keys
<1> HIDE DEF t
<1>3. Sound(t) /\ Keeps(s, t, {k})
  BY <1>1, <1>2, PlacedByRewriting
<1> QED BY <1>3 DEF t

(* A WAIT that goes on and has not passed at all is left as it is.         *)
LEMMA AdvancedKeeps ==
  ASSUME NEW s, Sound(s), ~s.err, NEW a \in Loci, NEW r \in RiteNames,
         <<a, r>> \in DOMAIN s.rite, NEW wait \in Nat,
         Waits(s.rite, <<a, r>>) => wait = s.rite[<<a, r>>].left
  PROVE  LET t == Advanced(s, a, r, s.rite[<<a, r>>].pc, wait) IN
         Sound(t) /\ Keeps(s, t, {<<a, r>>} \ Held(s.rite))
<1> DEFINE k == <<a, r>>
           m == s.rite[k]
           t == Advanced(s, a, r, m.pc, wait)
           n == t.rite[k]
<1>1. s \in Delta /\ k \in Keys
  BY DEF Sound, Keys
<1>2. m \in Row
  BY <1>1, RowFacts
<1>3. m.pc \in Nat
  BY <1>2 DEF Row
<1>4. /\ Rewrites(s, t, k) /\ DOMAIN t.rite = DOMAIN s.rite
      /\ n.pc = m.pc /\ n.left = wait /\ n.agency = m.agency /\ n.hit = m.hit
      /\ n.target = m.target /\ n.ch = m.ch /\ n.age \in {0, m.age}
  <2> HIDE DEF m
  <2> QED BY SMTT(30), <1>1, <1>3, AdvancedWrites DEF m
<1> HIDE DEF t
<1>5. Sound(t) /\ Keeps(s, t, {k}) /\ ~t.err
  BY <1>1, <1>4, PlacedByRewriting
<1>6. CASE ~Waits(s.rite, k)
  <2>1. {k} \ Held(s.rite) = {k}
    BY <1>6 DEF Held
  <2> QED BY <1>5, <2>1 DEF t
<1>7. CASE Waits(s.rite, k)
  <2>1. m.age = 0 /\ m.left = wait
    BY <1>7 DEF Waits
  <2>2. n \in Row
    BY <1>4, RowFacts DEF Rewrites
  <2>3. n = m
    <3> HIDE DEF n, m
    <3> QED BY <1>2, <1>4, <2>1, <2>2 DEF Row
  <2>4. k \in DOMAIN t.rite
    BY <1>4
  <2> HIDE DEF n, m
  <2>5. \A j \in Keys : /\ j \in DOMAIN t.rite <=> j \in DOMAIN s.rite
                        /\ j \in DOMAIN s.rite => t.rite[j] = s.rite[j]
    BY <1>4, <2>3, <2>4 DEF Rewrites, n, m
  <2>6. Keeps(s, t, {k} \ Held(s.rite))
    BY <2>5 DEF Keeps
  <2> QED BY <1>5, <2>6 DEF t, m
<1> QED BY <1>6, <1>7

LEMMA IslandBurstKeeps ==
  ASSUME WaitsAreReal, canon \in DOMAIN Canons, NEW s, Sound(s), ~s.err, NEW a \in Tracked,
         <<a, Track[a].rite>> \in DOMAIN s.rite, NEW target \in Targets, NEW may
  PROVE  LET t == IslandBurst(s, OnBehalf(a), target, may) IN
         Sound(t) /\ Keeps(s, t, {<<a, Track[a].rite>>})
<1> DEFINE e == OnBehalf(a)
           k == <<a, Track[a].rite>>
           b == Burst(s, e, s.rite[<<e.a, e.r>>].pc, target)
           hits == may /\ b.emits > s.emits
           t == IslandBurst(s, e, target, may)
<1>1. s \in Delta /\ Placed(s.rite) /\ Gone(s.rite)
  BY DEF Sound
<1>2. /\ e \in Env /\ e.a = a /\ e.r = Track[a].rite /\ e.r \in Rites
      /\ e.r \in RiteNames /\ a \in Actors /\ a \in Loci
  BY OnBehalfFacts
<1>3. t = HitIf(b, e, target, hits)
  BY OnceHit
<1> HIDE DEF e
<1>4. s.rite[k].pc \in DOMAIN Code(e.r) /\ e.r \in Rites \ Blows
  BY <1>1, <1>2 DEF Placed, Gone
<1>5. Sound(b) /\ Keeps(s, b, {k})
  BY <1>2, <1>4, BurstKeeps
<1> HIDE DEF b, t
<1>6. CASE hits /\ ~b.err
  <2> DEFINE h == ApplyHit(b, e, target)
  <2>1. t = Finished(h, a, e.r)
    BY <1>2, <1>3, <1>6 DEF HitIf
  <2>2. Sound(h) /\ Keeps(b, h, {})
    BY <1>2, <1>5, ApplyHitKeeps
  <2> HIDE DEF h
  <2>3. Keeps(s, h, {k} \cup {})
    BY <1>5, <2>2, KeepsTrans
  <2>4. {k} \cup {} = {k}
    OBVIOUS
  <2>5. CASE t = h
    BY <2>2, <2>3, <2>4, <2>5 DEF t, e
  <2>6. CASE ~h.err /\ t = Ended(h, a, e.r)
    <3>1. Sound(t) /\ Keeps(h, t, {k})
      BY <1>2, <2>2, <2>6, EndedKeeps
    <3>2. Keeps(s, t, {k} \cup {k})
      BY <2>3, <2>4, <3>1, KeepsTrans
    <3>3. {k} \cup {k} = {k}
      OBVIOUS
    <3> QED BY <3>1, <3>2, <3>3 DEF t, e
  <2> QED BY <2>1, <2>5, <2>6 DEF Finished
<1>7. CASE ~(hits /\ ~b.err)
  <2>1. t = b
    BY <1>3, <1>7 DEF HitIf
  <2> QED BY <1>5, <2>1 DEF t, e
<1> QED BY <1>6, <1>7

LEMMA ClockKeeps ==
  ASSUME WaitsAreReal, canon \in DOMAIN Canons, NEW s, Sound(s), ~s.err, NEW a \in Tracked,
         <<a, Track[a].rite>> \in DOMAIN s.rite
  PROVE  LET t == Clock(s, a, s.rite[<<a, Track[a].rite>>]) IN
         Sound(t) /\ Keeps(s, t, {<<a, Track[a].rite>>} \ Held(s.rite))
<1> DEFINE r == Track[a].rite
           k == <<a, r>>
           m == s.rite[k]
           i == Code(r)[m.pc - 1]
           t == Clock(s, a, m)
           K == {k} \ Held(s.rite)
<1>1. s \in Delta /\ Placed(s.rite)
  BY DEF Sound
<1>2. m \in Row
  BY <1>1, RowFacts
<1>3. a \in Loci /\ r \in Rites /\ r \in RiteNames
  BY OnBehalfFacts
<1>4. Waits(s.rite, k) => m.age = 0 /\ m.left = i.ticks /\ i.ticks > 0
  <2>1. SUFFICES ASSUME Waits(s.rite, k) PROVE m.age = 0 /\ m.left = i.ticks /\ i.ticks > 0
    OBVIOUS
  <2>2. m.age = 0 /\ m.left = Code(k[2])[m.pc - 1].ticks /\ Behind(s.rite, k)
    BY <2>1 DEF Waits
  <2>3. m.pc \in DOMAIN Code(k[2]) /\ k[2] \in Rites
    BY <1>1, <1>3 DEF Placed
  <2>4. Code(k[2])[s.rite[k].pc - 1].ticks > 0
    <3> HIDE DEF k
    <3> QED BY <2>2, <2>3, WaitsFacts DEF m
  <2> QED BY <2>2, <2>4
<1>5. CASE m.pc = 1 \/ i.op # "wait"
  <2>1. t = Fail(s)
    BY <1>5 DEF Clock
  <2> HIDE DEF K
  <2> QED BY <2>1, FailKeeps DEF K
<1>6. CASE ~(m.pc = 1 \/ i.op # "wait") /\ m.age < i.ticks
  <2> DEFINE wait == i.ticks - m.age
  <2>1. t = Advanced(s, a, r, m.pc, wait)
    BY <1>6 DEF Clock
  <2>2. m.pc \in DOMAIN Code(r) /\ m.pc > 1 /\ m.pc - 1 \in DOMAIN Code(r)
    <3>1. m.pc \in DOMAIN Code(r)
      BY <1>1 DEF Placed
    <3>2. Code(r) \in Seq(Instructions)
      BY <1>3, CodeFacts
    <3> HIDE DEF m, r
    <3> QED BY <1>6, <3>1, <3>2
  <2>3. i.ticks \in Nat
    <3>1. i \in Instructions
      BY <1>3, <2>2, CodeFacts
    <3> QED BY <1>6, <3>1, InstructionFacts
  <2>4. m.age \in Nat
    BY <1>2, MaxAgeNat DEF Row
  <2>5. wait \in Nat
    BY <1>6, <2>3, <2>4
  <2>6. Waits(s.rite, k) => wait = m.left
    <3> HIDE DEF i, m
    <3> QED BY <1>4, <2>3
  <2> HIDE DEF wait
  <2>7. Sound(Advanced(s, a, r, m.pc, wait)) /\ Keeps(s, Advanced(s, a, r, m.pc, wait), K)
    BY <1>3, <2>5, <2>6, AdvancedKeeps
  <2> QED BY <2>1, <2>7
<1>7. CASE ~(m.pc = 1 \/ i.op # "wait") /\ ~(m.age < i.ticks)
  <2>1. t = IslandBurst(s, OnBehalf(a), m.target, m.hit)
    BY <1>7 DEF Clock
  <2>2. m.target \in Targets
    BY <1>2 DEF Row
  <2>3. ~Waits(s.rite, k)
    <3>1. m.age = 0 /\ i.ticks > 0 => m.age < i.ticks
      BY <1>2, <1>7
    <3> QED BY <1>4, <1>7, <3>1
  <2>4. K = {k}
    BY <2>3 DEF Held
  <2> HIDE DEF m, t, K, r
  <2>5. Sound(t) /\ Keeps(s, t, {k})
    BY <2>1, <2>2, IslandBurstKeeps DEF r
  <2> QED BY <2>4, <2>5 DEF t, m, K, r
<1> QED BY <1>5, <1>6, <1>7

(* No one claims a contact for a row in the step that began its WAIT.      *)
Unheld(s, a, claims) ==
    a \in DOMAIN claims /\ ~s.err =>
      claims[a].target \in Loci /\ <<a, Track[a].rite>> \notin Held(s.rite)

LEMMA InsideWindowKeeps ==
  ASSUME WaitsAreReal, canon \in DOMAIN Canons, NEW s, Sound(s), ~s.err, NEW a \in Tracked,
         <<a, Track[a].rite>> \in DOMAIN s.rite, NEW claims, Unheld(s, a, claims),
         s.rite[<<a, Track[a].rite>>].pc = Track[a].wait + 1
  PROVE  LET t == InsideWindow(s, a, s.rite[<<a, Track[a].rite>>], claims) IN
         Sound(t) /\ Keeps(s, t, {<<a, Track[a].rite>>} \ Held(s.rite))
<1> DEFINE r == Track[a].rite
           k == <<a, r>>
           m == s.rite[k]
           t == InsideWindow(s, a, m, claims)
           K == {k} \ Held(s.rite)
<1>1. s \in Delta
  BY DEF Sound
<1>2. a \in Actors /\ a \in Loci /\ r \in RiteNames /\ k \in Keys
  BY OnBehalfFacts DEF Keys
<1>3. /\ Track[a].ticks \in Nat \ {0} /\ Track[a].wait \in Nat
      /\ Code(r)[Track[a].wait].ticks = Track[a].ticks
  <2>1. /\ Track[a].ticks \in Nat \ {0} /\ Track[a].wait \in DOMAIN Code(r) /\ r \in Rites
        /\ Code(r)[Track[a].wait].ticks = Track[a].ticks
    BY TrackFacts
  <2> QED BY <2>1, CodeFacts
<1>4. m.age \in Nat
  <2>1. m \in Row
    BY <1>1, RowFacts
  <2> QED BY <2>1, MaxAgeNat DEF Row
<1>5. Waits(s.rite, k) => m.age = 0 /\ m.left = Track[a].ticks
  <2>1. m.pc - 1 = Track[a].wait
    BY <1>3
  <2>2. Waits(s.rite, k) => m.age = 0 /\ m.left = Code(k[2])[m.pc - 1].ticks
    BY DEF Waits
  <2> QED BY <1>3, <2>1, <2>2
<1>6. CASE a \in DOMAIN claims
  <2> DEFINE target == claims[a].target
             u == Admitted(s, a, r, target)
             v == IslandBurst(u, OnBehalf(a), target, TRUE)
  <2>1. t \in {Fail(s), v}
    BY <1>6 DEF InsideWindow
  <2>2. CASE t = Fail(s)
    <3> HIDE DEF K
    <3> QED BY <2>2, FailKeeps DEF K
  <2>3. CASE t = v
    <3>1. target \in Loci /\ target \in Targets /\ K = {k}
      BY <1>6 DEF Unheld, Targets, Held
    <3> HIDE DEF target, t, K
    <3>2. Rewrites(s, u, k) /\ DOMAIN u.rite = DOMAIN s.rite /\ u.rite[k].pc = s.rite[k].pc
      BY SMTT(30), <1>1, <1>2, <3>1, AdmittedWrites
    <3> HIDE DEF u
    <3>3. Sound(u) /\ Keeps(s, u, {k}) /\ ~u.err
      BY <1>2, <3>2, PlacedByRewriting
    <3>4. Sound(v) /\ Keeps(u, v, {k})
      BY <3>1, <3>2, <3>3, IslandBurstKeeps
    <3> HIDE DEF v
    <3>5. Keeps(s, v, {k} \cup {k})
      BY <3>3, <3>4, KeepsTrans
    <3>6. {k} \cup {k} = {k}
      OBVIOUS
    <3> QED BY <2>3, <3>1, <3>4, <3>5, <3>6 DEF t, K
  <2> QED BY <2>1, <2>2, <2>3
<1>7. CASE a \notin DOMAIN claims /\ m.age < Track[a].ticks
  <2> DEFINE wait == Track[a].ticks - m.age
  <2>1. t = Advanced(s, a, r, m.pc, wait)
    BY <1>7 DEF InsideWindow
  <2>2. wait \in Nat
    BY <1>3, <1>4, <1>7
  <2>3. Waits(s.rite, k) => wait = m.left
    BY <1>3, <1>5
  <2> HIDE DEF wait
  <2>4. Sound(Advanced(s, a, r, m.pc, wait)) /\ Keeps(s, Advanced(s, a, r, m.pc, wait), K)
    BY <1>2, <2>2, <2>3, AdvancedKeeps
  <2> QED BY <2>1, <2>4
<1>8. CASE a \notin DOMAIN claims /\ ~(m.age < Track[a].ticks)
  <2>1. t = Ended(s, a, r)
    BY <1>8 DEF InsideWindow
  <2>2. K = {k}
    <3>1. ~Waits(s.rite, k)
      BY <1>3, <1>5, <1>8
    <3> QED BY <3>1 DEF Held
  <2> HIDE DEF K
  <2>3. Sound(Ended(s, a, r)) /\ Keeps(s, Ended(s, a, r), {k})
    BY <1>2, EndedKeeps
  <2> QED BY <2>1, <2>2, <2>3 DEF K
<1> QED BY <1>6, <1>7, <1>8

LEMMA AdmitWindowKeeps ==
  ASSUME WaitsAreReal, canon \in DOMAIN Canons, NEW s, Sound(s), NEW a, NEW claims,
         Unheld(s, a, claims)
  PROVE  LET t == AdmitWindow(s, a, claims) IN
         /\ Sound(t)
         /\ Keeps(s, t, IF a \in Tracked THEN {<<a, Track[a].rite>>} \ Held(s.rite) ELSE {})
<1> DEFINE r == Track[a].rite
           k == <<a, r>>
           m == s.rite[k]
           t == AdmitWindow(s, a, claims)
           K == IF a \in Tracked THEN {k} \ Held(s.rite) ELSE {}
<1>1. CASE s.err \/ a \notin Tracked \/ ~Has(s, a, r)
  <2>1. t = s
    BY <1>1 DEF AdmitWindow
  <2> QED BY <2>1 DEF Keeps
<1>2. CASE ~(s.err \/ a \notin Tracked \/ ~Has(s, a, r))
  <2>1. a \in Tracked /\ ~s.err /\ k \in DOMAIN s.rite /\ K = {k} \ Held(s.rite)
    BY <1>2 DEF Has
  <2>2. a \in Loci /\ r \in RiteNames
    BY <2>1, OnBehalfFacts
  <2>3. \/ t = Fail(s)
        \/ m.age > Track[a].ticks /\ t = Ended(s, a, r)
        \/ t = Clock(s, a, m)
        \/ m.pc = Track[a].wait + 1 /\ t = InsideWindow(s, a, m, claims)
    BY <1>2 DEF AdmitWindow
  <2>4. CASE t = Fail(s)
    <3> HIDE DEF K
    <3> QED BY <2>4, FailKeeps DEF K
  <2>5. CASE m.age > Track[a].ticks /\ t = Ended(s, a, r)
    <3>1. Track[a].ticks \in Nat
      BY <2>1, TrackFacts
    <3>2. ~Waits(s.rite, k)
      BY <2>5, <3>1 DEF Waits
    <3>3. K = {k}
      BY <2>1, <3>2 DEF Held
    <3> HIDE DEF K
    <3>4. Sound(Ended(s, a, r)) /\ Keeps(s, Ended(s, a, r), {k})
      BY <2>1, <2>2, EndedKeeps
    <3> QED BY <2>5, <3>3, <3>4 DEF K
  <2>6. CASE t = Clock(s, a, m)
    <3> HIDE DEF t
    <3>1. Sound(t) /\ Keeps(s, t, {k} \ Held(s.rite))
      BY <2>1, <2>6, ClockKeeps
    <3> QED BY <2>1, <3>1 DEF t
  <2>7. CASE m.pc = Track[a].wait + 1 /\ t = InsideWindow(s, a, m, claims)
    <3> HIDE DEF t
    <3>1. Sound(t) /\ Keeps(s, t, {k} \ Held(s.rite))
      BY <2>1, <2>7, InsideWindowKeeps
    <3> QED BY <2>1, <3>1 DEF t
  <2> QED BY <2>3, <2>4, <2>5, <2>6, <2>7
<1> QED BY <1>1, <1>2

(* The rows an island has moved on when n of the bodies are through.       *)
Through(i, n) ==
    {<<l, Track[l].rite>> : l \in {SigilOrder[j] : j \in 1 .. n} \cap Bodies(i) \cap Tracked}
Moved(i) == {<<l, Track[l].rite>> : l \in Bodies(i) \cap Tracked}

LEMMA AdmitWindowsKeeps ==
  ASSUME WaitsAreReal, canon \in DOMAIN Canons, NEW i, NEW claims,
         DOMAIN claims \subseteq Tracked,
         Sound([BeginSpec EXCEPT !.writes = Bodies(i)]),
         \A a \in Bodies(i) : Unheld([BeginSpec EXCEPT !.writes = Bodies(i)], a, claims)
  PROVE  LET x == [BeginSpec EXCEPT !.writes = Bodies(i)]
             t == AdmitWindows(i, claims) IN
         Sound(t) /\ Keeps(x, t, Moved(i) \ Held(x.rite))
<1> DEFINE x == [BeginSpec EXCEPT !.writes = Bodies(i)]
           N == Len(SigilOrder)
<1>1. PICK f : WindowRun(i, claims, f)
  BY BodiesInOrder
<1>2. /\ N \in Nat /\ Bodies(i) \subseteq Loci
      /\ \A n \in 1 .. N : SigilOrder[n] \in Loci
      /\ \A n \in 1 .. N : \A j \in 1 .. n - 1 : SigilOrder[j] # SigilOrder[n]
  BY BodiesInOrder
<1>3. /\ AdmitWindows(i, claims) = f[N] /\ f[0] = x
      /\ \A n \in 1 .. N : f[n] = AdmitBody(i, f[n - 1], SigilOrder[n], claims)
  BY <1>1 DEF WindowRun
<1> HIDE DEF x, N
<1> DEFINE Past(n) == Through(i, n) \ Held(x.rite)
           Ok(n) == Sound(f[n]) /\ Keeps(x, f[n], Past(n))
<1>4. Ok(0)
  <2>1. Keeps(x, x, Past(0))
    BY DEF Keeps
  <2> QED BY <1>3, <2>1 DEF x
<1>5. ASSUME NEW n \in 1 .. N, Ok(n - 1) PROVE Ok(n)
  <2> DEFINE s == f[n - 1]
             l == SigilOrder[n]
             k == <<l, Track[l].rite>>
             t == AdmitBody(i, s, l, claims)
  <2>1. f[n] = t /\ l \in Loci
    BY <1>2, <1>3
  <2>2. Sound(s) /\ Keeps(x, s, Past(n - 1))
    BY <1>5
  <2>3. Through(i, n - 1) \subseteq Through(i, n)
        /\ (l \in Bodies(i) \cap Tracked => k \in Through(i, n))
    <3>1. \A j \in 1 .. n - 1 : j \in 1 .. n
      OBVIOUS
    <3>2. n \in 1 .. n
      OBVIOUS
    <3> QED BY <3>1, <3>2 DEF Through
  <2>4. k \notin Through(i, n - 1)
    BY <1>2 DEF Through
  <2> HIDE DEF s, l
  <2>5. CASE l \notin Bodies(i) \/ s.err
    <3>1. t = s
      BY <2>5 DEF AdmitBody, AdmitWindow
    <3> HIDE DEF t
    <3>2. Past(n - 1) \subseteq Past(n)
      BY <2>3
    <3> HIDE DEF Past
    <3>3. Keeps(x, t, Past(n))
      BY <2>2, <3>1, <3>2, KeepsMore
    <3> QED BY <2>1, <2>2, <3>1, <3>3
  <2>6. CASE l \in Bodies(i) /\ ~s.err
    <3>1. t = AdmitWindow(s, l, claims)
      BY <2>6 DEF AdmitBody
    <3> DEFINE K == IF l \in Tracked THEN {k} \ Held(s.rite) ELSE {}
    <3>2. l \in Tracked => (k \in Held(s.rite) <=> k \in Held(x.rite))
      <4> SUFFICES ASSUME l \in Tracked PROVE k \in Held(s.rite) <=> k \in Held(x.rite)
        OBVIOUS
      <4>1. k \in Keys \ Past(n - 1)
        BY <2>4, TrackFacts
      <4> HIDE DEF k, Past
      <4>2. /\ k \in DOMAIN s.rite <=> k \in DOMAIN x.rite
            /\ k \in DOMAIN x.rite => s.rite[k] = x.rite[k]
        BY <2>2, <2>6, <4>1 DEF Keeps
      <4> QED BY <4>2 DEF Held, Waits, Behind
    <3>3. K \subseteq Past(n)
      BY <2>3, <2>6, <3>2
    <3>4. Unheld(s, l, claims)
      <4>1. Unheld(x, l, claims) /\ ~x.err
        BY <2>2, <2>6 DEF x, Keeps
      <4> QED BY <3>2, <4>1 DEF Unheld
    <3> HIDE DEF t
    <3>5. Sound(t) /\ Keeps(s, t, K)
      BY <2>2, <3>1, <3>4, AdmitWindowKeeps
    <3>6. Past(n - 1) \cup K \subseteq Past(n)
      BY <2>3, <3>3
    <3> HIDE DEF Past, K
    <3>7. Keeps(x, t, Past(n - 1) \cup K)
      BY <2>2, <3>5, KeepsTrans
    <3>8. Keeps(x, t, Past(n))
      BY <3>6, <3>7, KeepsMore
    <3> QED BY <2>1, <3>5, <3>8
  <2> QED BY <2>5, <2>6
<1>6. \A n \in 0 .. N : Ok(n)
  <2> HIDE DEF Ok
  <2> DEFINE bad == {n \in 0 .. N : ~Ok(n)}
  <2>1. SUFFICES ASSUME bad # {} PROVE FALSE
    OBVIOUS
  <2>2. bad \subseteq Nat
    BY <1>2
  <2>3. PICK m \in bad : \A n \in bad : m <= n
    BY <2>1, <2>2, LeastOf
  <2>4. m \in 1 .. N /\ m - 1 \in 0 .. N
    BY <1>2, <1>4, <2>3
  <2>5. Ok(m - 1)
    BY <2>3, <2>4
  <2> QED BY <1>5, <2>3, <2>4, <2>5
<1>7. Sound(f[N]) /\ Keeps(x, f[N], Past(N))
  <2>1. N \in 0 .. N
    BY <1>2
  <2> QED BY <1>6, <2>1
<1>8. Past(N) \subseteq Moved(i) \ Held(x.rite)
  BY DEF Through, Moved
<1>9. Keeps(x, f[N], Moved(i) \ Held(x.rite))
  <2> HIDE DEF Past
  <2> QED BY <1>7, <1>8, KeepsMore
<1> QED BY <1>3, <1>7, <1>9 DEF x

(* A row in the step that began its WAIT: its actor's lane is taken, and   *)
(* its island would leave it alone, or has been judged.  (At stage 3 there *)
(* is nothing but the next step.)                                          *)
Yields ==
    /\ Gone(rite)
    /\ stage # 3 => \A k \in DOMAIN rite : rite[k].age = 0 =>
         /\ <<k[1], 1>> \in written
         /\ k \in Held(rite) \/ island[k[1]] \in done

(* This step leaves such rows as they are.                                 *)
Stays == \A k \in DOMAIN rite : rite[k].age = 0 => k \in DOMAIN rite' /\ rite'[k] = rite[k]

LEMMA BeginSound ==
  ASSUME IInv, Gone(rite), NEW W \in SUBSET Loci
  PROVE  LET x == [BeginSpec EXCEPT !.writes = W] IN
         Sound(x) /\ ~x.err /\ x.rite = rite
<1>1. LET x == [BeginSpec EXCEPT !.writes = W] IN
      Fit(x, {}) /\ ~x.err /\ x.rite = rite /\ x.writes = W
  BY BeginFit
<1> QED BY <1>1 DEF Fit, Sound

(* Of K, no row is in the step that began its WAIT, and K's lanes are      *)
(* taken with the transaction.                                             *)
LEMMA JudgeYields ==
  ASSUME IInv, Yields, stage # 3, stage' # 3, UNCHANGED <<canon, island>>,
         done \subseteq done', NEW s, Sound(s), NEW cells, NEW veto, Judge(s, cells, veto),
         NEW x, x.rite = rite, NEW K, Keeps(x, s, K),
         \A k \in K \cap DOMAIN rite : rite[k].age # 0,
         ~s.err => \A k \in K : <<k[1], 1>> \in cells,
         ~s.err => \A k \in K \cap DOMAIN s.rite : s.rite[k].age = 0 =>
           k \in Held(s.rite) \/ island[k[1]] \in done'
  PROVE  Yields' /\ Stays
<1>1. CASE s.err \/ veto
  <2>1. rite' = rite /\ written' = written
    BY <1>1 DEF Judge, world
  <2>2. Held(rite)' = Held(rite)
    BY <2>1 DEF Held, Waits, Behind, Code
  <2>3. Gone(rite)'
    BY <2>1 DEF Yields, Gone
  <2> QED BY <2>1, <2>2, <2>3 DEF Yields, Stays
<1>2. CASE ~(s.err \/ veto)
  <2>1. rite' = s.rite /\ written' = written \cup cells
    BY <1>2 DEF Judge
  <2>2. Held(rite)' = Held(s.rite)
    BY <2>1 DEF Held, Waits, Behind, Code
  <2>3. Gone(rite)'
    BY <1>2, <2>1 DEF Sound, Gone
  <2>4. \A k \in DOMAIN rite : k \in Keys
    BY RowsOf DEF IInv, Types
  <2>5. \A k \in DOMAIN s.rite : k \in Keys
    BY RowFacts DEF Sound
  <2>6. \A k \in Keys \ K : /\ k \in DOMAIN s.rite <=> k \in DOMAIN rite
                            /\ k \in DOMAIN rite => s.rite[k] = rite[k]
    BY <1>2 DEF Keeps
  <2>7. Stays
    BY <2>1, <2>4, <2>6 DEF Stays
  <2>8. ASSUME NEW k \in DOMAIN s.rite, s.rite[k].age = 0
        PROVE  /\ <<k[1], 1>> \in written \cup cells
               /\ k \in Held(s.rite) \/ island[k[1]] \in done'
    <3>1. CASE k \in K
      BY <1>2, <2>8, <3>1
    <3>2. CASE k \notin K
      <4>1. k \in DOMAIN rite /\ s.rite[k] = rite[k]
        BY <2>5, <2>6, <3>2
      <4>2. <<k[1], 1>> \in written /\ (k \in Held(rite) \/ island[k[1]] \in done)
        BY <2>8, <4>1 DEF Yields
      <4>3. k \in Held(rite) => k \in Held(s.rite)
        BY <4>1 DEF Held, Waits, Behind
      <4> QED BY <4>2, <4>3
    <3> QED BY <3>1, <3>2
  <2> QED BY <2>1, <2>2, <2>3, <2>7, <2>8 DEF Yields
<1> QED BY <1>1, <1>2

LEMMA IntentYields ==
  ASSUME WaitsAreReal, IInv, Yields, NEW source \in Sources, NEW a \in Actors,
         NEW o \in Orders, NEW claimed \in SUBSET Channels, NEW veto,
         Intent(source, a, o.verb, o.target, claimed, veto)
  PROVE  Yields' /\ Stays
<1> DEFINE e == [a |-> a, r |-> None, source |-> source, claimed |-> claimed]
           s == DriveRite(BeginSpec, e, o.verb, o.target)
           K == Of(a)
<1>1. e \in Env /\ e.a = a
  BY DEF Env, Loci
<1>2. o.target \in Targets /\ canon \in DOMAIN Canons
  BY InputAssumption DEF IInv, Types
<1>3. Sound(BeginSpec) /\ ~BeginSpec.err /\ BeginSpec.rite = rite
  <2>1. BeginSpec \in Delta
    BY DEF IInv, Types, BeginSpec, Delta, Targets
  <2>2. ~BeginSpec.err /\ BeginSpec.rite = rite
    BY DEF BeginSpec
  <2> QED BY <2>1, <2>2 DEF IInv, Yields, Sound
<1>4. /\ Judge(s, WriteCells(a), veto) /\ UNCHANGED <<canon, island, done>>
      /\ <<a, 1>> \notin written
      /\ stage \in 0 .. 3 /\ stage <= 2 /\ stage' \in {0, 2}
  BY DEF Intent, IInv, Types, WriteCells
<1> HIDE DEF e
<1>5. Sound(s) /\ Keeps(BeginSpec, s, K) /\ Timely(BeginSpec, s)
  BY <1>1, <1>2, <1>3, DriveRiteKeeps
<1> HIDE DEF s
<1>6. stage # 3 /\ stage' # 3 /\ done \subseteq done'
  BY <1>4
<1>7. \A k \in K \cap DOMAIN rite : rite[k].age # 0
  BY <1>4, <1>6 DEF Of, Yields
<1>8. \A k \in K : <<k[1], 1>> \in WriteCells(a)
  BY DEF Of, WriteCells
<1>9. ~s.err => \A k \in K \cap DOMAIN s.rite : s.rite[k].age = 0 => k \in Held(s.rite)
  BY <1>3, <1>5, <1>7 DEF Timely, Held
<1> HIDE DEF K
<1> QED BY <1>3, <1>4, <1>5, <1>6, <1>7, <1>8, <1>9, JudgeYields

LEMMA IslandYields ==
  ASSUME WaitsAreReal, IInv, Yields, NEW i, NEW claims \in Claims(i), NEW veto,
         AdmitIsland(i, claims, veto)
  PROVE  Yields' /\ Stays
<1> DEFINE taken == written \cap
             ((Bodies(i) \X {0}) \cup {<<a, 1>> : a \in {b \in Bodies(i) :
                                                      ContactWindow(BeginSpec, b)}})
           valid == \A a \in DOMAIN claims : ValidClaim(BeginSpec, a, claims[a])
           x == [BeginSpec EXCEPT !.writes = Bodies(i)]
           s == AdmitWindows(i, claims)
           cells == IslandCells(i, s)
           t == [s EXCEPT !.err = @ \/ cells \cap written # {}]
           K == Moved(i) \ Held(rite)
<1>1. /\ UNCHANGED <<canon, island>> /\ done' = done \cup {i} /\ i \notin done
      /\ stage \in 0 .. 3 /\ stage <= 1 /\ stage' = 1
  BY DEF AdmitIsland, IInv, Types
<1>2. stage # 3 /\ stage' # 3 /\ done \subseteq done'
  BY <1>1
<1>3. CASE taken # {} \/ ~valid
  <2>1. rite' = rite /\ written' = written
    BY <1>3 DEF AdmitIsland, world
  <2>2. Held(rite)' = Held(rite)
    BY <1>1, <2>1 DEF Held, Waits, Behind, Code
  <2>3. Gone(rite)'
    BY <2>1 DEF Yields, Gone
  <2> QED BY <1>1, <1>2, <2>1, <2>2, <2>3 DEF Yields, Stays
<1>4. CASE taken = {} /\ valid
  <2>1. Judge(t, cells, veto)
    BY <1>4 DEF AdmitIsland, JudgeIsland
  <2>2. canon \in DOMAIN Canons /\ Bodies(i) \in SUBSET Loci /\ DOMAIN claims \subseteq Tracked
    <3>1. PICK who \in SUBSET (Bodies(i) \cap Tracked) : claims \in [who -> Claimable]
      BY DEF Claims
    <3> QED BY <3>1 DEF IInv, Types, Bodies
  <2>3. Sound(x) /\ ~x.err /\ x.rite = rite
    BY <2>2, BeginSound DEF Yields
  <2>4. \A a \in Bodies(i) : ContactWindow(BeginSpec, a) => <<a, 1>> \notin written
    BY <1>4
  <2>5. /\ \A a \in Bodies(i) : Claimed(x, a, claims)
        /\ Bodies(i) \subseteq s.writes
    BY <1>4, <2>4, IslandFit
  <2>6. \A a \in Bodies(i) : Unheld(x, a, claims)
    <3> SUFFICES ASSUME NEW a \in Bodies(i), a \in DOMAIN claims
                 PROVE  claims[a].target \in Loci /\ <<a, Track[a].rite>> \notin Held(rite)
      BY <2>3 DEF Unheld
    <3>1. claims[a].target \in Loci
      BY <2>5 DEF Claimed
    <3>2. <<a, 1>> \notin written
      BY <1>4, <2>4 DEF ValidClaim
    <3> QED BY <1>2, <3>1, <3>2 DEF Held, Waits, Yields
  <2>7. Sound(s) /\ Keeps(x, s, K)
    BY <2>2, <2>3, <2>6, AdmitWindowsKeeps
  <2> HIDE DEF s, x
  <2>8. s \in Delta
    BY <2>7 DEF Sound
  <2>9. \A k \in K : <<k[1], 1>> \in cells
    BY <2>5 DEF Moved, IslandCells
  <2>10. \A k \in K \cap DOMAIN rite : rite[k].age # 0
    <3> SUFFICES ASSUME NEW k \in K, k \in DOMAIN rite, rite[k].age = 0 PROVE FALSE
      OBVIOUS
    <3>1. k \in Moved(i) /\ k \notin Held(rite)
      OBVIOUS
    <3>2. island[k[1]] = i
      BY <3>1 DEF Moved, Bodies
    <3> HIDE DEF K
    <3>3. k \in Held(rite) \/ island[k[1]] \in done
      BY <1>2 DEF Yields
    <3> QED BY <1>1, <3>1, <3>2, <3>3
  <2>11. \A k \in K : island[k[1]] \in done'
    BY <1>1 DEF Moved, Bodies
  <2> HIDE DEF cells, K
  <2>12. t \in Delta /\ t.rite = s.rite /\ (~t.err => ~s.err)
    BY <2>8 DEF Delta
  <2> HIDE DEF t
  <2>13. Sound(t) /\ Keeps(x, t, K)
    BY <2>3, <2>7, <2>12 DEF Sound, Keeps
  <2> QED BY <1>1, <1>2, <2>1, <2>3, <2>9, <2>10, <2>11, <2>13, JudgeYields
<1> QED BY <1>3, <1>4

(* A step makes every row older; a pack is between two steps.              *)
LEMMA StepYields ==
  ASSUME IInv, Yields, NEW dt \in Ticks, NEW steps \in RiteSteps, Step(dt, steps)
  PROVE  /\ Yields'
         /\ \A k \in DOMAIN rite : /\ k \in DOMAIN rite'
                                   /\ rite'[k] = [rite[k] EXCEPT !.age = rite'[k].age]
<1>1. rite' = [k \in DOMAIN rite |-> [rite[k] EXCEPT !.age = Older(@, dt)]]
  BY DEF Step
<1>2. dt \in Nat \ {0} /\ MaxAge \in Nat \ {0}
  BY WorldAssumption
<1>3. ASSUME NEW k \in DOMAIN rite
      PROVE  rite'[k].age # 0 /\ rite'[k] = [rite[k] EXCEPT !.age = rite'[k].age]
  <2> DEFINE m == rite[k]
             age == Older(m.age, dt)
  <2>1. rite'[k] = [m EXCEPT !.age = age]
    BY <1>1
  <2>2. m \in Row
    BY RowsOf DEF IInv, Types
  <2>3. m.age \in 0 .. MaxAge
    BY <2>2 DEF Row
  <2>4. age # 0
    BY <1>2, <2>3 DEF Older
  <2> HIDE DEF age, m
  <2>5. rite'[k].age = age
    BY <2>1, <2>2 DEF Row
  <2> QED BY <2>1, <2>4, <2>5 DEF m
<1>4. DOMAIN rite' = DOMAIN rite
  BY <1>1
<1>5. Gone(rite)'
  BY <1>4 DEF Yields, Gone
<1> QED BY <1>3, <1>4, <1>5 DEF Yields

LEMMA EpochYields ==
  ASSUME IInv, Yields, NEW c \in DOMAIN Canons, ApplyEpoch(c)
  PROVE  Yields' /\ epoch' # epoch
<1>1. /\ epoch' = epoch + 1 /\ stage' = 3
      /\ rite' = Restrict(rite, {k \in DOMAIN rite :
                    /\ k[2] \in DOMAIN Canons[c].code
                    /\ rite[k].pc \in DOMAIN Canons[c].code[k[2]]})
  BY DEF ApplyEpoch
<1>2. DOMAIN rite' \subseteq DOMAIN rite
  BY <1>1 DEF Restrict
<1>3. Gone(rite)'
  BY <1>2 DEF Yields, Gone
<1> QED BY <1>1, <1>3 DEF Yields, IInv, Types

(* What WaitTakesAStep says of a step.                                     *)
Leaves == \A k \in DOMAIN rite : rite[k].age = 0 /\ epoch' = epoch =>
            /\ k \in DOMAIN rite'
            /\ rite'[k] = [rite[k] EXCEPT !.age = rite'[k].age]

LEMMA StaysLeaves ==
  ASSUME IInv, Stays
  PROVE  Leaves
<1> SUFFICES ASSUME NEW k \in DOMAIN rite, rite[k].age = 0
             PROVE  /\ k \in DOMAIN rite'
                    /\ rite'[k] = [rite[k] EXCEPT !.age = rite'[k].age]
  BY DEF Leaves
<1>1. k \in DOMAIN rite' /\ rite'[k] = rite[k]
  BY DEF Stays
<1>2. rite[k] \in Row
  BY RowsOf DEF IInv, Types
<1>3. rite[k] = [rite[k] EXCEPT !.age = rite[k].age]
  BY <1>2 DEF Row
<1> QED BY <1>1, <1>3

LEMMA NextYields ==
  ASSUME WaitsAreReal, IInv, Yields, [Next]_vars
  PROVE  Yields' /\ Leaves
<1>1. ASSUME NEW veto, PlayerIntent(veto) PROVE Yields' /\ Leaves
  <2>1. PICK a \in Actors, o \in Orders :
          Intent("player", a, o.verb, o.target, o.claimed, veto)
    BY <1>1 DEF PlayerIntent
  <2>2. o.claimed \in SUBSET Channels /\ "player" \in Sources
    BY InputAssumption DEF Sources
  <2>3. Yields' /\ Stays
    BY <2>1, <2>2, IntentYields
  <2> QED BY <2>3, StaysLeaves
<1>2. ASSUME NEW veto, MindIntent(veto) PROVE Yields' /\ Leaves
  <2>1. PICK a \in Actors, o \in Orders : Intent("mind", a, o.verb, o.target, {}, veto)
    BY <1>2 DEF MindIntent
  <2>2. {} \in SUBSET Channels /\ "mind" \in Sources
    BY DEF Sources
  <2>3. Yields' /\ Stays
    BY <2>1, <2>2, IntentYields
  <2> QED BY <2>3, StaysLeaves
<1>3. ASSUME NEW i, NEW veto, IslandProposal(i, veto) PROVE Yields' /\ Leaves
  <2>1. Yields' /\ Stays
    BY <1>3, IslandYields DEF IslandProposal
  <2> QED BY <2>1, StaysLeaves
<1>4. ASSUME NEW dt \in Ticks, NEW steps \in RiteSteps, Step(dt, steps)
      PROVE  Yields' /\ Leaves
  BY <1>4, StepYields DEF Leaves
<1>5. ASSUME NEW c \in DOMAIN Canons, ApplyEpoch(c) PROVE Yields' /\ Leaves
  BY <1>5, EpochYields DEF Leaves
<1>6. CASE UNCHANGED vars
  <2>1. UNCHANGED <<canon, island, rite, written, stage, done>>
    BY <1>6 DEF vars, world
  <2>2. Yields'
    BY <2>1 DEF Yields, Gone, Held, Waits, Behind, Code
  <2>3. Stays
    BY <2>1 DEF Stays
  <2> QED BY <2>2, <2>3, StaysLeaves
<1> QED BY <1>1, <1>2, <1>3, <1>4, <1>5, <1>6 DEF Next

(* The inductive invariant, with it.                                       *)
LEMMA SpecYields ==
  ASSUME WaitsAreReal
  PROVE  Spec => []Yields
<1>1. Init => Yields
  BY DEF Init, Yields, Gone
<1>2. IInv /\ Yields /\ [Next]_vars => Yields'
  BY NextYields
<1> QED BY <1>1, <1>2, SpecInv, PTL DEF Spec

(* A WAIT yields: where every WAIT says a tick, nothing moves a row in the *)
(* step that stalled it, neither a second intent of whatever source (its   *)
(* lane is taken with the transaction that began the WAIT), nor the island *)
(* of its actor (admit_motion_windows lets it be, or is done).             *)
THEOREM SpecWaitTakesAStep ==
  ASSUME WaitsAreReal
  PROVE  Spec => WaitTakesAStep
<1>1. IInv /\ Yields /\ [Next]_vars => [Leaves]_vars
  BY NextYields
<1>2. Spec => [][Leaves]_vars
  BY <1>1, SpecInv, SpecYields, PTL DEF Spec
<1> QED BY <1>2 DEF Leaves, WaitTakesAStep

-----------------------------------------------------------------------------
(* A destroyed locus collapses once.  The same transactions, followed      *)
(* through the resource and the PartOf pairs of the destructibles only.    *)
Ties(s, v) == {p \in Loci : <<v, p>> \in s.parts}

(* Nobody's resource, pairs or deeds have been touched.                    *)
Unhurt(b, t) == t.qty = b.qty /\ t.parts = b.parts /\ t.deeds = b.deeds

LEMMA RewritesUnhurt ==
  ASSUME NEW s, NEW t, NEW k, Rewrites(s, t, k), t.deeds = s.deeds
  PROVE  Unhurt(s, t)
  BY DEF Rewrites, Unhurt

(* A transaction that fails is as it was.                                  *)
Failed(b, c) ==
    /\ c \in Delta /\ c.err /\ c.run = b.run /\ c.pc = b.pc /\ c.deeds = b.deeds
    /\ c.qty = b.qty /\ c.parts = b.parts

LEMMA FailedStays ==
  ASSUME NEW b \in Delta
  PROVE  Failed(b, Fail(b))
  BY DEF Failed, Fail, Delta

LEMMA ReboundUnhurt ==
  ASSUME NEW b \in Delta, NEW e \in Env,
         e.r \in RiteNames, <<e.a, e.r>> \in DOMAIN b.rite,
         NEW pc \in Nat, NEW wait \in Nat, NEW ch \in Channels \cup {None}
  PROVE  LET t == Rebound(b, e, pc, wait, ch) IN
         t \in Delta /\ Unhurt(b, t) /\ t.run = b.run /\ t.pc = b.pc
<1> DEFINE k == <<e.a, e.r>>
           old == b.rite[k]
           n == [old EXCEPT !.age = 0, !.pc = pc, !.left = wait, !.target = b.target,
                            !.ch = ch]
           w == Wrote(Put(b, k, n), e.a)
           t == Rebound(b, e, pc, wait, ch)
<1>1. e.a \in Loci
  BY DEF Env
<1>2. old \in Row
  BY RowFacts
<1>3. 0 \in 0 .. MaxAge /\ b.target \in Targets
  BY MaxAgeNat DEF Delta
<1>4. t = IF old.hit /\ old.target # b.target THEN Fail(b) ELSE w
  BY DEF Rebound, Has
<1>5. n \in Row
  <2> HIDE DEF old
  <2> QED BY <1>2, <1>3 DEF Row
<1> DEFINE Fine(u) == u \in Delta /\ Unhurt(b, u) /\ u.run = b.run /\ u.pc = b.pc
<1>6. Fine(Fail(b))
  BY DEF Fail, Unhurt, Delta
<1> HIDE DEF n
<1>7. Fine(w)
  <2>1. Rewrites(b, w, k) /\ w.deeds = b.deeds
    BY <1>1, <1>5, PutWrote
  <2> HIDE DEF w
  <2>2. Unhurt(b, w)
    BY <2>1, RewritesUnhurt
  <2> QED BY <2>1, <2>2 DEF Rewrites
<1> HIDE DEF w, t, old, Fine
<1>8. Fine(t)
  BY <1>4, <1>6, <1>7
<1> QED BY <1>8 DEF Fine, t

LEMMA AuthorizedUnhurt ==
  ASSUME canon \in DOMAIN Canons, NEW b \in Delta, NEW e \in Env,
         e.r \in RiteNames, <<e.a, e.r>> \in DOMAIN b.rite
  PROVE  Unhurt(b, Authorized(b, e))
<1> DEFINE k == <<e.a, e.r>>
           n == [b.rite[k] EXCEPT !.agency = Track[e.a].ch]
           w == Wrote(Put(b, k, n), e.a)
           t == Authorized(b, e)
<1>1. t \in {b, Fail(b), w} /\ (Bound(e.a, e.r) \/ t = b)
  BY DEF Authorized
<1>2. e.a \in Loci /\ b.rite[k] \in Row
  BY RowFacts DEF Env
<1>3. CASE t = b
  BY <1>3 DEF Unhurt
<1>4. CASE t = Fail(b)
  <2>1. Unhurt(b, Fail(b))
    BY DEF Fail, Unhurt, Delta
  <2> HIDE DEF t
  <2> QED BY <1>4, <2>1 DEF t
<1>5. CASE t = w /\ Bound(e.a, e.r)
  <2>1. Track[e.a].ch \in Channels
    BY <1>5, TrackFacts DEF Bound
  <2>2. n \in Row
    BY <1>2, <2>1 DEF Row
  <2> HIDE DEF n
  <2>3. Rewrites(b, w, k) /\ w.deeds = b.deeds
    BY <1>2, <2>2, PutWrote
  <2> HIDE DEF w, t
  <2> QED BY <1>5, <2>3, RewritesUnhurt DEF t
<1> QED BY <1>1, <1>3, <1>4, <1>5

LEMMA WaitUnhurt ==
  ASSUME canon \in DOMAIN Canons, NEW b \in Delta, NEW e \in Env,
         Placed(b.rite),
         e.r \in Rites, <<e.a, e.r>> \in DOMAIN b.rite,
         b.pc \in DOMAIN Code(e.r), Code(e.r)[b.pc].op = "wait"
  PROVE  Unhurt(b, Wait(b, e, Code(e.r)[b.pc]))
<1> DEFINE k == <<e.a, e.r>>
           i == Code(e.r)[b.pc]
           u == Authorized(b, e)
           v == Advanced(u, e.a, e.r, u.pc + 1, i.ticks)
           w == Rebound(v, e, u.pc + 1, i.ticks, i.ch)
           t == [w EXCEPT !.run = FALSE]
<1>1. /\ e.r \in RiteNames /\ b.pc \in Nat \ {0} /\ i \in Instructions
  BY CodeFacts
<1>2. i.ticks \in Nat /\ i.ch \in Channels \cup {None}
  BY <1>1, InstructionFacts
<1>3. e.a \in Loci
  BY DEF Env
<1>4. /\ Moves(b, u, k) /\ u.pc = b.pc /\ DOMAIN u.rite = DOMAIN b.rite
      /\ u.rite[k].pc = b.rite[k].pc
  BY <1>1, AuthorizedMoves
<1>5. Unhurt(b, u)
  BY <1>1, AuthorizedUnhurt
<1>6. Wait(b, e, i) = IF u.err THEN u
                      ELSE [Rebound(IF Has(u, e.a, e.r) THEN v ELSE u,
                                    e, u.pc + 1, i.ticks, i.ch) EXCEPT !.run = FALSE]
  BY DEF Wait, Stall
<1> HIDE DEF u, i
<1>7. u \in Delta /\ u.pc + 1 \in Nat /\ k \in DOMAIN u.rite
  BY <1>1, <1>4 DEF Moves
<1>8. v \in Delta /\ Unhurt(u, v) /\ k \in DOMAIN v.rite
  <2>1. Rewrites(u, v, k) /\ v.deeds = u.deeds /\ DOMAIN v.rite = DOMAIN u.rite
    BY SMTT(30), <1>1, <1>2, <1>3, <1>7, AdvancedWrites
  <2> HIDE DEF v
  <2>2. Unhurt(u, v)
    BY <2>1, RewritesUnhurt
  <2> QED BY <1>7, <2>1, <2>2 DEF Rewrites
<1> HIDE DEF v
<1>9. w \in Delta /\ Unhurt(v, w)
  BY <1>1, <1>2, <1>7, <1>8, ReboundUnhurt
<1> HIDE DEF w
<1>10. Unhurt(w, t)
  BY <1>9 DEF Delta, Unhurt
<1> HIDE DEF t
<1>11. Wait(b, e, i) \in {u, t}
  BY <1>6, <1>7 DEF Has, t, w
<1>12. Unhurt(b, t)
  BY <1>5, <1>8, <1>9, <1>10 DEF Unhurt
<1>13. Unhurt(b, Wait(b, e, i))
  BY <1>5, <1>11, <1>12
<1> QED BY <1>13 DEF i

(* One quantity is set, one pair of loci related or no more so, or neither. *)
SetsOne(b, t, l, to) ==
    /\ t.parts = b.parts /\ t.pc = b.pc + 1
    /\ \/ t.err /\ t.qty = b.qty
       \/ l \in Loci /\ t.qty = [b.qty EXCEPT ![l] = to]
TiesOne(b, t, x, y, op) ==
    /\ t.qty = b.qty /\ t.pc = b.pc + 1
    /\ \/ t.err /\ t.parts = b.parts
       \/ /\ x \in Loci /\ y \in Loci
          /\ t.parts = IF op = "reladd" THEN b.parts \cup {<<x, y>>}
                       ELSE b.parts \ {<<x, y>>}

(* What an instruction does to quantities and relations, and where it goes *)
(* on.                                                                     *)
LEMMA ExecHurts ==
  ASSUME canon \in DOMAIN Canons, NEW b \in Delta, NEW e \in Env,
         Placed(b.rite), b.run,
         e.r \in Rites, <<e.a, e.r>> \in DOMAIN b.rite, b.pc \in DOMAIN Code(e.r)
  PROVE  LET i == Code(e.r)[b.pc]
             t == Exec(b, e)
             stays == t.qty = b.qty /\ t.parts = b.parts IN
         /\ t.deeds = b.deeds
         /\ i.op \in {"complete", "wait"} => stays
         /\ i.op = "complete" => ~t.run
         /\ i.op \notin {"complete", "wait"} => t.run
         /\ i.op \in {"emit", "spawn", "bind"} => stays /\ t.pc = b.pc + 1
         /\ i.op = "guard" =>
              stays /\ t.pc = IF Holds(b, e, i.pred) THEN b.pc + 1 ELSE i.fail
         /\ i.op = "branch" =>
              stays /\ t.pc = IF Holds(b, e, i.pred) THEN i.yes ELSE i.no
         /\ i.op = "spend" =>
              \/ b.qty[e.a] < i.amount /\ stays /\ t.pc = i.fail
              \/ /\ b.qty[e.a] >= i.amount /\ t.parts = b.parts /\ t.pc = b.pc + 1
                 /\ t.qty = [b.qty EXCEPT ![e.a] = @ - i.amount]
         /\ i.op = "setq" => SetsOne(b, t, Resolve(b, e, i.slot), i.to)
         /\ i.op \in {"reladd", "reldel"} =>
              TiesOne(b, t, Resolve(b, e, i.x), Resolve(b, e, i.y), i.op)
<1> DEFINE k == <<e.a, e.r>>
           i == Code(e.r)[b.pc]
           t == Exec(b, e)
           next(c) == [c EXCEPT !.pc = @ + 1]
<1>1. /\ e.r \in RiteNames /\ b.pc \in Nat \ {0} /\ i \in Instructions
      /\ e.a \in Loci /\ e.a \in Targets
  BY CodeFacts DEF Env, Targets
<1>2. i.op \in {"complete", "guard", "branch", "spend", "wait", "emit", "bind", "setq",
                "reladd", "reldel", "spawn"}
  BY <1>1, InstructionFacts
<1>3. ASSUME NEW pc PROVE LET u == [b EXCEPT !.pc = pc] IN
         Unhurt(b, u) /\ u.run /\ u.pc = pc
  BY DEF Delta, Unhurt
<1>4. CASE i.op = "complete"
  <2> DEFINE u == Ended(b, e.a, e.r)
  <2>1. t = [u EXCEPT !.run = FALSE]
    BY <1>4 DEF Exec
  <2>2. u \in Delta /\ Unhurt(b, u)
    <3>1. Rewrites(b, u, k) /\ u.deeds = b.deeds
      BY <1>1, EndedWrites
    <3>2. Unhurt(b, u)
      BY <3>1, RewritesUnhurt
    <3> HIDE DEF u
    <3> QED BY <3>1, <3>2 DEF Rewrites
  <2> HIDE DEF u, t
  <2>3. Unhurt(u, t) /\ ~t.run
    BY <2>1, <2>2, RunWrites DEF Unhurt
  <2>4. Unhurt(b, t) /\ ~t.run
    BY <2>2, <2>3 DEF Unhurt
  <2> QED BY <1>4, <2>4 DEF Unhurt, t
<1>5. CASE i.op = "guard"
  <2>1. t = [b EXCEPT !.pc = IF Holds(b, e, i.pred) THEN b.pc + 1 ELSE i.fail]
    BY <1>5 DEF Exec
  <2> HIDE DEF t
  <2>2. Unhurt(b, t) /\ t.run /\ t.pc = IF Holds(b, e, i.pred) THEN b.pc + 1 ELSE i.fail
    BY <1>3, <2>1
  <2> QED BY <1>5, <2>2 DEF Unhurt, t
<1>6. CASE i.op = "branch"
  <2>1. t = [b EXCEPT !.pc = IF Holds(b, e, i.pred) THEN i.yes ELSE i.no]
    BY <1>6 DEF Exec
  <2> HIDE DEF t
  <2>2. Unhurt(b, t) /\ t.run /\ t.pc = IF Holds(b, e, i.pred) THEN i.yes ELSE i.no
    BY <1>3, <2>1
  <2> QED BY <1>6, <2>2 DEF Unhurt, t
<1>7. ASSUME NEW c \in Delta, c.run, c.pc = b.pc, t = next(c)
      PROVE  Unhurt(c, t) /\ t.run /\ t.pc = b.pc + 1
  BY <1>7 DEF Delta, Unhurt
<1>8. CASE i.op = "spend"
  <2> DEFINE q == [b EXCEPT !.qty[e.a] = @ - i.amount]
             c == Wrote(q, e.a)
  <2>1. t = IF b.qty[e.a] < i.amount THEN [b EXCEPT !.pc = i.fail] ELSE next(c)
    BY <1>8 DEF Exec
  <2>2. i.amount \in Int /\ b.qty \in [Loci -> Int] /\ b.qty[e.a] \in Int
    BY <1>1, <1>8, InstructionFacts DEF Delta
  <2>3. CASE b.qty[e.a] < i.amount
    <3>1. t = [b EXCEPT !.pc = i.fail]
      BY <2>1, <2>3
    <3> HIDE DEF t
    <3>2. Unhurt(b, t) /\ t.run /\ t.pc = i.fail
      BY <1>3, <3>1
    <3> QED BY <1>8, <2>3, <3>2 DEF Unhurt, t
  <2>4. CASE ~(b.qty[e.a] < i.amount)
    <3>0. b.qty[e.a] - i.amount \in Int
      BY <2>2
    <3>1. [b.qty EXCEPT ![e.a] = @ - i.amount] \in [Loci -> Int]
      BY <2>2, <3>0
    <3>2. /\ q \in Delta /\ q.run = b.run /\ q.pc = b.pc /\ q.deeds = b.deeds
          /\ q.qty = [b.qty EXCEPT ![e.a] = @ - i.amount] /\ q.parts = b.parts
      BY <3>1 DEF Delta
    <3> HIDE DEF q
    <3>3. c \in Delta /\ c.run /\ c.pc = b.pc /\ Unhurt(q, c)
      BY <1>1, <3>2, WroteWrites DEF Unhurt
    <3> HIDE DEF c, t
    <3>4. t = next(c)
      BY <2>1, <2>4
    <3>5. Unhurt(c, t) /\ t.run /\ t.pc = b.pc + 1
      BY <1>7, <3>3, <3>4
    <3>6. b.qty[e.a] >= i.amount
      BY <2>2, <2>4
    <3> HIDE DEF i
    <3> QED BY <1>8, <3>2, <3>3, <3>5, <3>6 DEF Unhurt, t, i
  <2> QED BY <2>3, <2>4
<1>9. CASE i.op = "wait"
  <2>1. t = Wait(b, e, i)
    BY <1>9 DEF Exec
  <2>2. Unhurt(b, t)
    BY <1>9, <2>1, WaitUnhurt
  <2> QED BY <1>9, <2>2 DEF Unhurt
<1>10. CASE i.op = "emit"
  <2> DEFINE c == [b EXCEPT !.emits = @ + 1]
  <2>1. t = next(c)
    BY <1>10 DEF Exec
  <2>2. c \in Delta /\ c.run /\ c.pc = b.pc /\ Unhurt(b, c)
    <3>1. b.emits + 1 \in Nat
      BY DEF Delta
    <3> QED BY <3>1 DEF Delta, Unhurt
  <2> HIDE DEF c, t
  <2>3. Unhurt(c, t) /\ t.run /\ t.pc = b.pc + 1
    BY <1>7, <2>1, <2>2
  <2> QED BY <1>10, <2>2, <2>3 DEF Unhurt, t
<1>11. CASE i.op = "bind"
  <2> DEFINE x == CASE i.src = "this" -> e.a
                    [] i.src = "target" -> b.target
                    [] i.src = "related" -> Related(b, e.a)
             u == [b EXCEPT !.target = x]
             c == Rebound(u, e, b.pc + 1, 0, None)
  <2>1. t = next(c)
    BY <1>11 DEF Exec
  <2>2. x \in Targets
    <3>1. i.src \in {"this", "target", "related"}
      BY <1>1, <1>11, InstructionFacts
    <3>2. b.target \in Targets /\ Related(b, e.a) \in Targets
      BY RelatedFacts DEF Delta
    <3> QED BY <1>1, <3>1, <3>2
  <2> HIDE DEF x
  <2>3. u \in Delta /\ u.run /\ u.pc = b.pc /\ Unhurt(b, u) /\ u.rite = b.rite
    BY <2>2 DEF Delta, Unhurt
  <2> HIDE DEF u
  <2>4. c \in Delta /\ c.run /\ c.pc = b.pc /\ Unhurt(u, c)
    <3>1. b.pc + 1 \in Nat /\ 0 \in Nat /\ <<e.a, e.r>> \in DOMAIN u.rite
      BY <1>1, <2>3
    <3> DEFINE Fine(d) == d \in Delta /\ Unhurt(u, d) /\ d.run = u.run /\ d.pc = u.pc
    <3>2. \A pc \in Nat, wait \in Nat, ch \in Channels \cup {None} :
            Fine(Rebound(u, e, pc, wait, ch))
      BY <1>1, <2>3, <3>1, ReboundUnhurt
    <3> HIDE DEF Fine
    <3>3. Fine(c)
      BY <3>1, <3>2, Zenon
    <3> HIDE DEF c
    <3> QED BY <2>3, <3>3 DEF Fine
  <2> HIDE DEF c, t
  <2>5. Unhurt(c, t) /\ t.run /\ t.pc = b.pc + 1
    BY <1>7, <2>1, <2>4
  <2> QED BY <1>11, <2>3, <2>4, <2>5 DEF Unhurt, t
<1>12. CASE i.op = "setq"
  <2> DEFINE l == Resolve(b, e, i.slot)
             c == SetQty(b, l, i.to)
  <2>1. t = next(c)
    BY <1>12 DEF Exec
  <2>2. i.to \in Int /\ i.slot \in Slots
    BY <1>1, <1>12, InstructionFacts
  <2>3. l \in Targets
    BY <2>2, ResolveFacts
  <2> HIDE DEF l
  <2>4. \/ c = Fail(b)
        \/ /\ Sets(b, c) /\ c.parts = b.parts /\ l \in Loci
           /\ c.qty = [b.qty EXCEPT ![l] = i.to]
    BY <2>2, <2>3, SetQtyWrites
  <2> HIDE DEF c, t
  <2>5. /\ c \in Delta /\ c.run /\ c.pc = b.pc /\ c.deeds = b.deeds /\ c.parts = b.parts
        /\ (c.err /\ c.qty = b.qty) \/ (l \in Loci /\ c.qty = [b.qty EXCEPT ![l] = i.to])
    <3>1. Failed(b, Fail(b))
      BY FailedStays
    <3> QED BY <2>4, <3>1 DEF Sets, Failed
  <2>6. t.err = c.err /\ Unhurt(c, t) /\ t.run /\ t.pc = b.pc + 1
    BY <1>7, <2>1, <2>5 DEF Delta
  <2>7. SetsOne(b, t, l, i.to) /\ t.deeds = b.deeds /\ t.run
    <3> HIDE DEF i
    <3> QED BY <2>5, <2>6 DEF SetsOne, Unhurt
  <2> QED BY <1>12, <2>7 DEF t, l
<1>13. CASE i.op \in {"reladd", "reldel"}
  <2> DEFINE x == Resolve(b, e, i.x)
             y == Resolve(b, e, i.y)
             parts1 == IF i.op = "reladd" THEN b.parts \cup {<<x, y>>}
                       ELSE b.parts \ {<<x, y>>}
             c == SetParts(b, x, y, parts1)
  <2>1. t = next(c)
    BY <1>13 DEF Exec
  <2>2. i.x \in Slots /\ i.y \in Slots
    BY <1>1, <1>13, InstructionFacts
  <2>3. x \in Targets /\ y \in Targets
    BY <2>2, ResolveFacts
  <2> HIDE DEF x, y
  <2>4. x \in Loci /\ y \in Loci => parts1 \subseteq Loci \X Loci
    BY DEF Delta
  <2>4a. parts1 = IF i.op = "reladd" THEN b.parts \cup {<<x, y>>} ELSE b.parts \ {<<x, y>>}
    OBVIOUS
  <2> HIDE DEF parts1
  <2>5. \/ c = Fail(b)
        \/ /\ Sets(b, c) /\ c.qty = b.qty /\ x \in Loci /\ y \in Loci
           /\ c.parts = parts1
    BY <2>3, <2>4, SetPartsWrites
  <2> HIDE DEF c, t
  <2>6. /\ c \in Delta /\ c.run /\ c.pc = b.pc /\ c.deeds = b.deeds /\ c.qty = b.qty
        /\ \/ c.err /\ c.parts = b.parts
           \/ x \in Loci /\ y \in Loci /\ c.parts = parts1
    <3>1. Failed(b, Fail(b))
      BY FailedStays
    <3> QED BY <2>5, <3>1 DEF Sets, Failed
  <2>7. t.err = c.err /\ Unhurt(c, t) /\ t.run /\ t.pc = b.pc + 1
    BY <1>7, <2>1, <2>6 DEF Delta
  <2>8. TiesOne(b, t, x, y, i.op) /\ t.deeds = b.deeds /\ t.run
    <3> HIDE DEF i
    <3> QED BY <2>4a, <2>6, <2>7 DEF TiesOne, Unhurt
  <2> QED BY <1>13, <2>8 DEF t, x, y
<1>14. CASE i.op = "spawn"
  <2>1. t = next(b)
    BY <1>14 DEF Exec
  <2> HIDE DEF t
  <2>2. Unhurt(b, t) /\ t.run /\ t.pc = b.pc + 1
    BY <1>3, <2>1
  <2> QED BY <1>14, <2>2 DEF Unhurt, t
<1> QED
  BY <1>2, <1>4, <1>5, <1>6, <1>8, <1>9, <1>10, <1>11, <1>12, <1>13, <1>14

(* The destructibles are as they were, but for those of V.                 *)
Unharmed(s, t, V) ==
    /\ s.deeds.cut \subseteq t.deeds.cut
    /\ \A v \in Destructible : t.deeds.falls[v] = s.deeds.falls[v]
    /\ \A v \in Destructible \ V : t.qty[v] = s.qty[v] /\ Ties(t, v) = Ties(s, v)

LEMMA UnharmedTrans ==
  ASSUME NEW s, NEW t, NEW u, NEW V, NEW W, Unharmed(s, t, V), Unharmed(t, u, W)
  PROVE  Unharmed(s, u, V \cup W)
  BY DEF Unharmed

LEMMA UnhurtUnharmed ==
  ASSUME NEW s, NEW t, Unhurt(s, t), NEW V
  PROVE  Unharmed(s, t, V)
  BY DEF Unhurt, Unharmed, Ties

LEMMA OutUnharmed ==
  ASSUME NEW b \in Delta, NEW e \in Env, e.r \in RiteNames, NEW V
  PROVE  LET t == OutOfSteps(b, e) IN
         Unharmed(b, t, V) /\ e.a \in t.deeds.cut
<1> DEFINE u == Ended(b, e.a, e.r)
           t == OutOfSteps(b, e)
<1>1. e.a \in Loci
  BY DEF Env
<1>2. Rewrites(b, u, <<e.a, e.r>>) /\ u.deeds = b.deeds
  BY <1>1, EndedWrites
<1>3. Unhurt(b, u)
  BY <1>2, RewritesUnhurt
<1>4. u \in Delta
  BY <1>2 DEF Rewrites
<1>5. t = [u EXCEPT !.run = FALSE, !.deeds.cut = @ \cup {e.a}]
  BY DEF OutOfSteps
<1> HIDE DEF t, u
<1>6. /\ t.qty = u.qty /\ t.parts = u.parts /\ t.deeds.falls = u.deeds.falls
      /\ t.deeds.cut = u.deeds.cut \cup {e.a}
  BY <1>4, <1>5 DEF Delta, Deeds
<1> QED BY <1>3, <1>6 DEF Unhurt, Unharmed, Ties, t

(* A rite that harms nobody, and one that harms nobody but its actor.      *)
Quiet(e) == e.a \in Runners(e.r) /\ \A pc \in DOMAIN Code(e.r) : Harmless(Code(e.r)[pc], e.r)
Selfish(r) ==
    \A pc \in DOMAIN Code(r) : LET i == Code(r)[pc] IN
        /\ i.op = "setq" => i.slot = "this" \/ i.slot \in Targets \ Destructible
        /\ i.op \in {"reladd", "reldel"} => i.x = "this" \/ i.x \in Targets \ Destructible

(* On whom an instruction lays its hand.                                   *)
Hand(i, b, e) ==
    CASE i.op = "spend" -> e.a
      [] i.op = "setq" -> Resolve(b, e, i.slot)
      [] i.op \in {"reladd", "reldel"} -> Resolve(b, e, i.x)
      [] OTHER -> None

LEMMA HandFacts ==
  ASSUME canon \in DOMAIN Canons, NEW b \in Delta, NEW e \in Env, SeededWhole,
         e.r \in Rites, b.pc \in DOMAIN Code(e.r)
  PROVE  LET v == Hand(Code(e.r)[b.pc], b, e) IN
         /\ Selfish(e.r) => v \notin Destructible \ {e.a}
         /\ Quiet(e) => v \notin Destructible
<1> DEFINE i == Code(e.r)[b.pc]
           v == Hand(i, b, e)
<1>1. /\ i \in Instructions
      /\ i.op \in {"complete", "guard", "branch", "spend", "wait", "emit", "bind", "setq",
                   "reladd", "reldel", "spawn"}
  BY CodeFacts, InstructionFacts
<1>2. Destructible \subseteq Loci /\ None \notin Loci
  BY WorldAssumption DEF SeededWhole
<1>3. /\ Selfish(e.r) =>
           /\ i.op = "setq" => i.slot = "this" \/ i.slot \in Targets \ Destructible
           /\ i.op \in {"reladd", "reldel"} => i.x = "this" \/ i.x \in Targets \ Destructible
      /\ Quiet(e) => e.a \in Runners(e.r) /\ Harmless(i, e.r)
  BY DEF Selfish, Quiet
<1> HIDE DEF i
<1>4. ASSUME NEW slot \in Slots
      PROVE  LET l == Resolve(b, e, slot) IN
             /\ slot = "this" \/ slot \in Targets \ Destructible => l \notin Destructible \ {e.a}
             /\ e.a \in Runners(e.r) /\ Reach(slot, e.r) \cap Destructible = {}
                  => l \notin Destructible
  <2> DEFINE l == Resolve(b, e, slot)
  <2>1. /\ l \in Targets
        /\ slot = "this" => l = e.a
        /\ slot \in Targets => l = slot
    BY ResolveFacts
  <2>2. slot \in {"this", "target"} \cup Targets /\ "this" \notin Targets /\ "target" \notin Targets
    BY WorldAssumption DEF Slots, Targets, None
  <2> HIDE DEF l
  <2>3. /\ slot = "this" => Reach(slot, e.r) = Runners(e.r)
        /\ slot = "target" => Reach(slot, e.r) = Loci
        /\ slot \in Targets => Reach(slot, e.r) = {slot}
    BY <2>2 DEF Reach
  <2>4. l \in Destructible => l \in Loci
    BY <1>2
  <2>5. (slot = "this" \/ slot \in Targets \ Destructible) => l \notin Destructible \ {e.a}
    BY <2>1
  <2>6. e.a \in Runners(e.r) /\ Reach(slot, e.r) \cap Destructible = {} => l \notin Destructible
    BY <2>1, <2>2, <2>3, <2>4
  <2> QED BY <2>5, <2>6 DEF l
<1>5. CASE i.op = "spend"
  <2>1. v = e.a
    BY <1>5 DEF Hand
  <2>2. Harmless(i, e.r) => Runners(e.r) \cap Destructible = {}
    BY <1>5 DEF Harmless
  <2> QED BY <1>3, <2>1, <2>2 DEF i
<1>6. CASE i.op = "setq"
  <2>1. v = Resolve(b, e, i.slot) /\ i.slot \in Slots
    BY <1>1, <1>6, InstructionFacts DEF Hand
  <2>2. Harmless(i, e.r) => Reach(i.slot, e.r) \cap Destructible = {}
    BY <1>6 DEF Harmless
  <2> QED BY <1>3, <1>4, <1>6, <2>1, <2>2 DEF i
<1>7. CASE i.op \in {"reladd", "reldel"}
  <2>1. v = Resolve(b, e, i.x) /\ i.x \in Slots
    BY <1>1, <1>7, InstructionFacts DEF Hand
  <2>2. Harmless(i, e.r) => Reach(i.x, e.r) \cap Destructible = {}
    BY <1>7 DEF Harmless
  <2> QED BY <1>3, <1>4, <1>7, <2>1, <2>2 DEF i
<1>8. CASE i.op \notin {"spend", "setq", "reladd", "reldel"}
  <2>1. v = None
    BY <1>8 DEF Hand
  <2> QED BY <1>2, <2>1 DEF i
<1> QED BY <1>5, <1>6, <1>7, <1>8

(* It harms nobody else.                                                   *)
LEMMA ExecSpares ==
  ASSUME canon \in DOMAIN Canons, NEW b \in Delta, NEW e \in Env,
         Placed(b.rite), b.run,
         e.r \in Rites, <<e.a, e.r>> \in DOMAIN b.rite, b.pc \in DOMAIN Code(e.r),
         NEW v \in Loci, v # Hand(Code(e.r)[b.pc], b, e)
  PROVE  Exec(b, e).qty[v] = b.qty[v] /\ Ties(Exec(b, e), v) = Ties(b, v)
<1> DEFINE i == Code(e.r)[b.pc]
           t == Exec(b, e)
           l == Resolve(b, e, i.slot)
           x == Resolve(b, e, i.x)
           y == Resolve(b, e, i.y)
<1>1. i.op \in {"complete", "guard", "branch", "spend", "wait", "emit", "bind", "setq",
                "reladd", "reldel", "spawn"}
  BY CodeFacts, InstructionFacts
<1>2. /\ i.op \notin {"spend", "setq", "reladd", "reldel"} => t.qty = b.qty /\ t.parts = b.parts
      /\ i.op = "spend" =>
           t.parts = b.parts /\ (t.qty = b.qty \/ t.qty = [b.qty EXCEPT ![e.a] = @ - i.amount])
      /\ i.op = "setq" => SetsOne(b, t, l, i.to)
      /\ i.op \in {"reladd", "reldel"} => TiesOne(b, t, x, y, i.op)
  <2> HIDE DEF i, t
  <2>1. i = Code(e.r)[b.pc] /\ t = Exec(b, e)
    BY DEF i, t
  <2> QED BY <1>1, <2>1, ExecHurts
<1>3. b.qty \in [Loci -> Int] /\ v # Hand(i, b, e)
  BY DEF Delta
<1> HIDE DEF i, t, l, x, y
<1>4. t.parts = b.parts => Ties(t, v) = Ties(b, v)
  BY DEF Ties
<1>5. CASE i.op \notin {"spend", "setq", "reladd", "reldel"}
  BY <1>2, <1>4, <1>5 DEF t
<1>6. CASE i.op = "spend"
  <2>1. v # e.a
    BY <1>3, <1>6 DEF Hand
  <2>2. t.parts = b.parts /\ t.qty[v] = b.qty[v]
    BY <1>2, <1>3, <1>6, <2>1
  <2> QED BY <1>4, <2>2 DEF t
<1>7. CASE i.op = "setq"
  <2>1. v # l
    BY <1>3, <1>7 DEF Hand, l
  <2>2. t.parts = b.parts /\ t.qty[v] = b.qty[v]
    BY <1>2, <1>3, <1>7, <2>1 DEF SetsOne
  <2> QED BY <1>4, <2>2 DEF t
<1>8. CASE i.op \in {"reladd", "reldel"}
  <2>1. v # x
    BY <1>3, <1>8 DEF Hand, x
  <2>2. t.qty = b.qty
    BY <1>2, <1>8 DEF TiesOne
  <2>3. \A p \in Loci : <<v, p>> \in t.parts <=> <<v, p>> \in b.parts
    BY <1>2, <1>8, <2>1 DEF TiesOne
  <2>4. Ties(t, v) = Ties(b, v)
    BY <2>3 DEF Ties
  <2> QED BY <2>2, <2>4 DEF t
<1> QED BY <1>5, <1>6, <1>7, <1>8

LEMMA ExecUnharmed ==
  ASSUME SeededWhole, canon \in DOMAIN Canons, NEW b \in Delta, NEW e \in Env,
         Placed(b.rite), b.run,
         e.r \in Rites, <<e.a, e.r>> \in DOMAIN b.rite, b.pc \in DOMAIN Code(e.r)
  PROVE  /\ Selfish(e.r) => Unharmed(b, Exec(b, e), {e.a})
         /\ Quiet(e) => Unharmed(b, Exec(b, e), {})
<1> DEFINE i == Code(e.r)[b.pc]
           t == Exec(b, e)
<1>1. t.deeds = b.deeds
  BY ExecHurts
<1>2. /\ Selfish(e.r) => Hand(i, b, e) \notin Destructible \ {e.a}
      /\ Quiet(e) => Hand(i, b, e) \notin Destructible
  BY HandFacts
<1>3. \A v \in Destructible : v # Hand(i, b, e) => t.qty[v] = b.qty[v] /\ Ties(t, v) = Ties(b, v)
  <2> SUFFICES ASSUME NEW v \in Destructible, v # Hand(i, b, e)
               PROVE  t.qty[v] = b.qty[v] /\ Ties(t, v) = Ties(b, v)
    OBVIOUS
  <2>1. v \in Loci
    BY DEF SeededWhole
  <2> QED BY <2>1, ExecSpares
<1> HIDE DEF t, i
<1> QED BY <1>1, <1>2, <1>3 DEF Unharmed, t

LEMMA TurnUnharmed ==
  ASSUME SeededWhole, canon \in DOMAIN Canons, NEW b, NEW e \in Env,
         e.r \in Rites, Turning(b, <<e.a, e.r>>), NEW n \in Nat, NEW last \in Nat,
         n <= last => b.left > 0
  PROVE  /\ Selfish(e.r) => Unharmed(b, Turn(b, e, n, last), {e.a})
         /\ Quiet(e) => Unharmed(b, Turn(b, e, n, last), {})
<1> DEFINE k == <<e.a, e.r>>
           t == Turn(b, e, n, last)
<1>1. b \in Delta /\ Placed(b.rite) /\ b.left \in Nat /\ k[2] = e.r
  BY DEF Turning, Delta
<1>2. e.r \in RiteNames
  BY CodeFacts
<1>3. CASE ~b.run \/ b.err
  <2>1. t = b
    BY <1>3 DEF Turn
  <2> QED BY <2>1 DEF Unharmed
<1>4. CASE ~(~b.run \/ b.err) /\ n > last
  <2>1. t = OutOfSteps(b, e)
    BY <1>4 DEF Turn
  <2> HIDE DEF t
  <2> QED BY <1>1, <1>2, <2>1, OutUnharmed DEF t
<1>5. CASE ~(~b.run \/ b.err) /\ ~(n > last)
  <2> DEFINE c == [b EXCEPT !.left = @ - 1]
  <2>1. t = Exec(c, e)
    BY <1>5 DEF Turn
  <2> HIDE DEF t
  <2>2. b.left - 1 \in Nat
    BY <1>1, <1>5
  <2>3. /\ c \in Delta /\ c.rite = b.rite /\ c.target = b.target /\ c.run = b.run
        /\ c.pc = b.pc /\ Unhurt(b, c)
    BY <1>1, <2>2 DEF Delta, Unhurt
  <2> HIDE DEF c
  <2>4. k \in DOMAIN b.rite /\ b.pc \in DOMAIN Code(e.r) /\ b.run
    BY <1>1, <1>5 DEF Turning
  <2>5. /\ Selfish(e.r) => Unharmed(c, t, {e.a})
        /\ Quiet(e) => Unharmed(c, t, {})
    BY <1>1, <2>1, <2>3, <2>4, ExecUnharmed
  <2>6. Unharmed(b, c, {})
    BY <2>3, UnhurtUnharmed
  <2>7. /\ Selfish(e.r) => Unharmed(b, t, {} \cup {e.a})
        /\ Quiet(e) => Unharmed(b, t, {} \cup {})
    BY <2>5, <2>6, UnharmedTrans
  <2>8. {} \cup {e.a} = {e.a} /\ {} \cup {} = {}
    OBVIOUS
  <2> QED BY <2>7, <2>8 DEF t
<1> QED BY <1>3, <1>4, <1>5

(* A burst of a selfish rite harms nobody but its actor, a quiet one nobody. *)
LEMMA BurstUnharmed ==
  ASSUME SeededWhole, canon \in DOMAIN Canons, NEW s \in Delta, NEW e \in Env,
         NEW target \in Targets, Placed(s.rite),
         e.r \in Rites, <<e.a, e.r>> \in DOMAIN s.rite, NEW pc \in DOMAIN Code(e.r),
         NEW V, (e.a \in V /\ Selfish(e.r)) \/ Quiet(e)
  PROVE  Unharmed(s, Burst(s, e, pc, target), V)
<1> DEFINE k == <<e.a, e.r>>
<1>2. PICK last \in Nat : \E f : Burster(s, e, pc, target, last, f)
  BY BurstTurns
<1>2a. PICK f : Burster(s, e, pc, target, last, f)
  BY <1>2
<1> DEFINE Ok(n) == Unharmed(s, f[n], V)
<1>3. Ok(0)
  <2> DEFINE x == Loaded(s, pc, target)
  <2>1. Unhurt(s, x)
    BY DEF Loaded, Delta, Unhurt
  <2> HIDE DEF x
  <2>2. f[0] = x
    BY <1>2a DEF Burster, x
  <2> QED BY <2>1, <2>2, UnhurtUnharmed
<1>4. ASSUME NEW n \in 1 .. last + 1, Ok(n - 1) PROVE Ok(n)
  <2> DEFINE b == f[n - 1]
  <2>1. n \in Nat /\ n - 1 \in 0 .. last + 1
    OBVIOUS
  <2>2. /\ f[n] = Turn(b, e, n, last) /\ (n <= last => b.left > 0)
        /\ Turning(b, k)
    BY <1>2a, <2>1 DEF Burster
  <2>3. Unharmed(s, b, V)
    BY <1>4
  <2> HIDE DEF b
  <2>4. /\ Selfish(e.r) => Unharmed(b, f[n], {e.a})
        /\ Quiet(e) => Unharmed(b, f[n], {})
    BY <2>1, <2>2, TurnUnharmed
  <2>5. Unharmed(b, f[n], V)
    BY <2>4 DEF Unharmed
  <2>6. Unharmed(s, f[n], V \cup V)
    BY <2>3, <2>5, UnharmedTrans
  <2>7. V \cup V = V
    OBVIOUS
  <2> QED BY <2>6, <2>7
<1>5. \A n \in 0 .. last + 1 : Ok(n)
  <2> HIDE DEF Ok
  <2> DEFINE bad == {n \in 0 .. last + 1 : ~Ok(n)}
  <2>1. SUFFICES ASSUME bad # {} PROVE FALSE
    OBVIOUS
  <2>2. bad \subseteq Nat
    OBVIOUS
  <2>3. PICK m \in bad : \A n \in bad : m <= n
    BY <2>1, <2>2, LeastOf
  <2>4. m \in 1 .. last + 1 /\ m - 1 \in 0 .. last + 1
    BY <1>3, <2>3
  <2>5. Ok(m - 1)
    BY <2>3, <2>4
  <2> QED BY <1>4, <2>3, <2>4, <2>5
<1>6. last + 1 \in 0 .. last + 1
  OBVIOUS
<1> QED BY <1>2a, <1>5, <1>6 DEF Burster

(* What has become of a destructible.                                      *)
Fate(s, v) ==
    CASE s.qty[v] > 0 /\ Ties(s, v) = {v} -> "whole"
      [] s.qty[v] = 0 /\ Ties(s, v) = {v} -> "dying"
      [] s.qty[v] = 0 /\ Ties(s, v) = {} -> "gone"
      [] OTHER -> "torn"

LEMMA FateFacts ==
  ASSUME NEW s, NEW v, s.qty[v] \in Int
  PROVE  /\ Fate(s, v) = "whole" <=> s.qty[v] > 0 /\ Ties(s, v) = {v}
         /\ Fate(s, v) = "dying" <=> s.qty[v] = 0 /\ Ties(s, v) = {v}
         /\ Fate(s, v) = "gone" <=> s.qty[v] = 0 /\ Ties(s, v) = {}
         /\ s.qty[v] > 0 /\ Ties(s, v) = {} => Fate(s, v) = "torn"
<1>1. {v} # {}
  OBVIOUS
<1> DEFINE q == s.qty[v]
           ties == Ties(s, v)
<1>2. Fate(s, v) = CASE q > 0 /\ ties = {v} -> "whole"
                     [] q = 0 /\ ties = {v} -> "dying"
                     [] q = 0 /\ ties = {} -> "gone"
                     [] OTHER -> "torn"
  BY DEF Fate
<1> HIDE DEF q, ties
<1>3. q \in Int
  BY DEF q
<1> QED BY <1>1, <1>2, <1>3 DEF q, ties

LEMMA PredicateFacts ==
  ASSUME NEW i \in Instructions, i.op \in {"guard", "branch"}
  PROVE  i.pred.pred \in {"skill", "spent", "destructible"}
  BY DEF Instructions, Predicates

(* What an outline allows of the instructions that set things.             *)
Settles(i) ==
    /\ i.op = "setq" =>
         (i.slot = "this" /\ i.to = 0) \/ i.slot \in Targets \ Destructible
    /\ i.op \in {"reladd", "reldel"} =>
         \/ i.op = "reldel" /\ i.x = "this" /\ i.y = "this"
         \/ i.x \in Targets \ Destructible

(* An instruction of a destructible leads on as the outline says.          *)
LEMMA ExecLeads ==
  ASSUME SeededWhole, canon \in DOMAIN Canons, NEW b \in Delta, NEW e \in Env,
         Placed(b.rite), b.run,
         e.r \in Rites, <<e.a, e.r>> \in DOMAIN b.rite, b.pc \in DOMAIN Code(e.r),
         e.a \in Destructible, Fate(b, e.a) \in Fates,
         Code(e.r)[b.pc].op \notin {"complete", "wait"},
         Code(e.r)[b.pc].op = "spend" => Code(e.r)[b.pc].amount >= 0,
         Settles(Code(e.r)[b.pc]), ~Exec(b, e).err
  PROVE  LET t == Exec(b, e) IN
         <<t.pc, Fate(t, e.a)>> \in Leads(Code(e.r)[b.pc], b.pc, Fate(b, e.a))
<1> DEFINE i == Code(e.r)[b.pc]
           t == Exec(b, e)
           v == e.a
           fate == Fate(b, v)
           new == Fate(t, v)
<1>1. /\ i \in Instructions /\ b.qty \in [Loci -> Int] /\ v \in Loci
      /\ i.op \in {"guard", "branch", "spend", "emit", "bind", "setq", "reladd",
                   "reldel", "spawn"}
  <2>1. i \in Instructions
    BY CodeFacts
  <2> QED BY <2>1, InstructionFacts DEF Delta, Env
<1>2. b.qty[v] \in Int
  BY <1>1
<1>3. /\ fate = "whole" <=> b.qty[v] > 0 /\ Ties(b, v) = {v}
      /\ fate = "dying" <=> b.qty[v] = 0 /\ Ties(b, v) = {v}
      /\ fate = "gone" <=> b.qty[v] = 0 /\ Ties(b, v) = {}
      /\ fate \in Fates
  BY <1>2, FateFacts
<1>3a. "this" \notin Targets
  BY WorldAssumption DEF Targets, None
<1>3b. Settles(i) /\ ~t.err
  OBVIOUS
<1> HIDE DEF fate
<1>4. ASSUME t.qty[v] = b.qty[v], Ties(t, v) = Ties(b, v) PROVE new = fate
  BY <1>4 DEF Fate, fate
<1>5. CASE i.op \in {"emit", "spawn", "bind"}
  <2>1. t.qty = b.qty /\ t.parts = b.parts /\ t.pc = b.pc + 1
    BY <1>5, ExecHurts
  <2> HIDE DEF t, i
  <2>2. new = fate
    BY <1>4, <2>1 DEF Ties
  <2>3. Leads(i, b.pc, fate) = {<<b.pc + 1, fate>>}
    BY <1>5 DEF Leads
  <2> HIDE DEF new
  <2> QED BY <2>1, <2>2, <2>3 DEF t, i, fate, new
<1>6. CASE i.op \in {"guard", "branch"}
  <2>1. t.qty = b.qty /\ t.parts = b.parts
    BY <1>6, ExecHurts
  <2>2. new = fate
    <3>1. Ties(t, v) = Ties(b, v)
      BY <2>1 DEF Ties
    <3> QED BY <1>4, <2>1, <3>1
  <2>3. i.pred.pred \in {"skill", "spent", "destructible"}
    BY <1>1, <1>6, PredicateFacts
  <2>4. PICK yes \in BOOLEAN : yes <=> Holds(b, e, i.pred)
    <3>1. TRUE \in BOOLEAN /\ FALSE \in BOOLEAN
      OBVIOUS
    <3>2. CASE Holds(b, e, i.pred)
      BY <3>1, <3>2
    <3>3. CASE ~Holds(b, e, i.pred)
      BY <3>1, <3>3
    <3> QED BY <3>2, <3>3
  <2>5. yes \in Answers(i.pred, fate)
    <3>1. CASE i.pred.pred = "skill"
      BY <2>4, <3>1 DEF Answers
    <3>2. CASE i.pred.pred = "spent"
      <4>1. yes <=> b.qty[v] <= 0
        BY <2>4, <3>2 DEF Holds
      <4>2. yes <=> fate # "whole"
        BY <1>2, <1>3, <4>1 DEF Fates
      <4>3. Answers(i.pred, fate) = {fate # "whole"}
        BY <3>2 DEF Answers
      <4> HIDE DEF i
      <4>4. yes = (fate # "whole")
        BY <4>2
      <4> QED BY <4>3, <4>4
    <3>3. CASE i.pred.pred = "destructible"
      <4>1. yes
        BY <2>4, <3>3 DEF Holds
      <4>2. Answers(i.pred, fate) = {TRUE}
        BY <3>3 DEF Answers
      <4> QED BY <4>1, <4>2
    <3> QED BY <2>3, <3>1, <3>2, <3>3
  <2>6. CASE i.op = "guard"
    <3>1. t.pc = IF yes THEN b.pc + 1 ELSE i.fail
      BY <2>4, <2>6, ExecHurts
    <3> HIDE DEF t, i, new
    <3>2. Leads(i, b.pc, fate) =
            {<<IF y THEN b.pc + 1 ELSE i.fail, fate>> : y \in Answers(i.pred, fate)}
      BY <2>6 DEF Leads
    <3>3. <<IF yes THEN b.pc + 1 ELSE i.fail, fate>> \in Leads(i, b.pc, fate)
      BY <2>5, <3>2
    <3> QED BY <2>2, <3>1, <3>3 DEF t, i, fate, new
  <2>7. CASE i.op = "branch"
    <3>1. t.pc = IF yes THEN i.yes ELSE i.no
      BY <2>4, <2>7, ExecHurts
    <3> HIDE DEF t, i, new
    <3>2. Leads(i, b.pc, fate) =
            {<<IF y THEN i.yes ELSE i.no, fate>> : y \in Answers(i.pred, fate)}
      BY <2>7 DEF Leads
    <3>3. <<IF yes THEN i.yes ELSE i.no, fate>> \in Leads(i, b.pc, fate)
      BY <2>5, <3>2
    <3> QED BY <2>2, <3>1, <3>3 DEF t, i, fate, new
  <2> QED BY <1>6, <2>6, <2>7
<1>7. CASE i.op = "spend"
  <2>1. \/ b.qty[v] < i.amount /\ t.qty = b.qty /\ t.parts = b.parts /\ t.pc = i.fail
        \/ /\ b.qty[v] >= i.amount /\ t.parts = b.parts /\ t.pc = b.pc + 1
           /\ t.qty = [b.qty EXCEPT ![v] = @ - i.amount]
    BY <1>7, ExecHurts
  <2>2. i.amount \in Int /\ i.amount >= 0
    BY <1>1, <1>7, InstructionFacts
  <2>3. Leads(i, b.pc, fate) =
          {<<i.fail, fate>>, <<b.pc + 1, fate>>,
           <<b.pc + 1, IF fate = "whole" THEN "dying" ELSE fate>>}
    BY <1>7 DEF Leads
  <2> HIDE DEF t, i
  <2>4. CASE b.qty[v] < i.amount /\ t.qty = b.qty /\ t.parts = b.parts /\ t.pc = i.fail
    <3>1. Ties(t, v) = Ties(b, v)
      BY <2>4 DEF Ties
    <3>2. new = fate
      BY <1>4, <2>4, <3>1
    <3> HIDE DEF new
    <3> QED BY <2>3, <2>4, <3>2 DEF t, i, fate, new
  <2>5. CASE /\ b.qty[v] >= i.amount /\ t.parts = b.parts /\ t.pc = b.pc + 1
             /\ t.qty = [b.qty EXCEPT ![v] = @ - i.amount]
    <3>1. t.qty[v] = b.qty[v] - i.amount /\ t.qty[v] \in Int /\ t.qty[v] >= 0
      BY <1>1, <1>2, <2>2, <2>5
    <3>2. Ties(t, v) = Ties(b, v)
      BY <2>5 DEF Ties
    <3>3. new = fate \/ (fate = "whole" /\ new = "dying")
      <4>1. CASE fate = "whole"
        <5>1. Ties(t, v) = {v}
          BY <1>3, <3>2, <4>1
        <5> HIDE DEF t
        <5> QED BY <3>1, <4>1, <5>1, FateFacts
      <4>2. CASE fate # "whole"
        <5>1. t.qty[v] = b.qty[v]
          BY <1>2, <1>3, <2>2, <2>5, <3>1, <4>2 DEF Fates
        <5> QED BY <1>4, <3>2, <5>1
      <4> QED BY <4>1, <4>2
    <3> HIDE DEF new
    <3> QED BY <2>3, <2>5, <3>3 DEF t, i, fate, new
  <2> QED BY <2>1, <2>4, <2>5
<1>8. CASE i.op = "setq" /\ i.slot = "this"
  <2>1. SetsOne(b, t, Resolve(b, e, i.slot), i.to) /\ i.slot \in Slots
    BY <1>1, <1>8, ExecHurts, InstructionFacts
  <2>2. Resolve(b, e, i.slot) = v
    BY <1>8, <2>1, ResolveFacts
  <2>3. i.to = 0
    BY <1>3a, <1>3b, <1>8 DEF Settles
  <2>4. Leads(i, b.pc, fate) = {<<b.pc + 1, IF fate = "whole" THEN "dying" ELSE fate>>}
    BY <1>8 DEF Leads
  <2> HIDE DEF t, i
  <2>5. t.parts = b.parts /\ t.qty = [b.qty EXCEPT ![v] = 0] /\ t.pc = b.pc + 1
    BY <1>3b, <2>1, <2>2, <2>3 DEF SetsOne
  <2>6. t.qty[v] = 0 /\ Ties(t, v) = Ties(b, v)
    BY <1>1, <2>5 DEF Ties
  <2>7. new = IF fate = "whole" THEN "dying" ELSE fate
    BY <1>3, <2>6, FateFacts DEF Fates
  <2> HIDE DEF new
  <2> QED BY <2>4, <2>5, <2>7 DEF t, i, fate, new
<1>9. CASE i.op = "reldel" /\ i.x = "this"
  <2>1. /\ TiesOne(b, t, Resolve(b, e, i.x), Resolve(b, e, i.y), i.op)
        /\ i.x \in Slots /\ i.y \in Slots
    BY <1>1, <1>9, ExecHurts, InstructionFacts
  <2>2. i.y = "this"
    BY <1>3a, <1>3b, <1>9 DEF Settles
  <2>3. Resolve(b, e, i.x) = v /\ Resolve(b, e, i.y) = v
    BY <1>9, <2>1, <2>2, ResolveFacts
  <2>4. Leads(i, b.pc, fate) = {<<b.pc + 1, IF fate = "whole" THEN "torn" ELSE "gone">>}
    BY <1>9 DEF Leads
  <2> HIDE DEF t, i
  <2>5. t.qty = b.qty /\ t.pc = b.pc + 1 /\ t.parts = b.parts \ {<<v, v>>}
    BY <1>3b, <1>9, <2>1, <2>3 DEF TiesOne
  <2>6. t.qty[v] = b.qty[v] /\ Ties(t, v) = Ties(b, v) \ {v}
    BY <2>5 DEF Ties
  <2>7. Ties(t, v) = {}
    BY <1>3, <2>6 DEF Fates
  <2>8. new = IF fate = "whole" THEN "torn" ELSE "gone"
    BY <1>2, <1>3, <2>6, <2>7, FateFacts DEF Fates
  <2> HIDE DEF new
  <2> QED BY <2>4, <2>5, <2>8 DEF t, i, fate, new
<1>10. CASE \/ i.op = "setq" /\ i.slot # "this"
            \/ i.op \in {"reladd", "reldel"} /\ ~(i.op = "reldel" /\ i.x = "this")
  <2>1. Leads(i, b.pc, fate) = {<<b.pc + 1, fate>>}
    BY <1>10 DEF Leads
  <2>2. t.pc = b.pc + 1
    BY <1>10, ExecHurts DEF SetsOne, TiesOne
  <2>3. v # Hand(i, b, e)
    <3>1. CASE i.op = "setq"
      <4>1. i.slot \in Slots /\ i.slot \in Targets \ Destructible
        BY <1>1, <1>3b, <1>10, <3>1, InstructionFacts DEF Settles
      <4>2. Hand(i, b, e) = Resolve(b, e, i.slot)
        BY <3>1 DEF Hand
      <4> QED BY <4>1, <4>2, ResolveFacts
    <3>2. CASE i.op \in {"reladd", "reldel"}
      <4>1. i.x \in Slots /\ i.x \in Targets \ Destructible
        BY <1>1, <1>3b, <1>10, <3>2, InstructionFacts DEF Settles
      <4>2. Hand(i, b, e) = Resolve(b, e, i.x)
        BY <3>2 DEF Hand
      <4> QED BY <4>1, <4>2, ResolveFacts
    <3> QED BY <1>10, <3>1, <3>2
  <2>4. t.qty[v] = b.qty[v] /\ Ties(t, v) = Ties(b, v)
    BY <1>1, <2>3, ExecSpares
  <2>5. new = fate
    BY <1>4, <2>4
  <2> HIDE DEF new, t, i
  <2> QED BY <2>1, <2>2, <2>5 DEF t, i, fate, new
<1>11. \/ i.op \in {"emit", "spawn", "bind", "guard", "branch", "spend"}
       \/ i.op = "setq" /\ i.slot = "this"
       \/ i.op = "reldel" /\ i.x = "this"
       \/ i.op = "setq" /\ i.slot # "this"
       \/ i.op \in {"reladd", "reldel"} /\ ~(i.op = "reldel" /\ i.x = "this")
  <2> HIDE DEF i
  <2> QED BY <1>1
<1> HIDE DEF i, t, new
<1> QED BY <1>5, <1>6, <1>7, <1>8, <1>9, <1>10, <1>11 DEF i, t, new, fate

(* A burst of apply_hit on v, which was as in s, by its outline.           *)
Treads(s, b, v, outline) ==
    ~b.err /\ v \notin b.deeds.cut =>
      /\ b.run => Fate(b, v) \in outline[b.pc]
      /\ ~b.run => Fate(b, v) \in {"whole", "gone"}
      /\ Fate(s, v) = "gone" => Fate(b, v) = "gone"

LEMMA TurnTreads ==
  ASSUME SeededWhole, WaitsAreReal, canon \in DOMAIN Canons, NEW s, NEW b, NEW e \in Env,
         e.r \in Rites, e.r = "apply_hit",
         Turning(b, <<e.a, e.r>>), NEW n \in Nat, NEW last \in Nat,
         n <= last => b.left > 0,
         e.a \in Destructible, NEW outline, Outlines(outline, Code(e.r)),
         Treads(s, b, e.a, outline)
  PROVE  Treads(s, Turn(b, e, n, last), e.a, outline)
<1> DEFINE k == <<e.a, e.r>>
           v == e.a
           t == Turn(b, e, n, last)
<1>1. b \in Delta /\ Placed(b.rite) /\ b.left \in Nat /\ k[2] = e.r
  BY DEF Turning, Delta
<1>2. e.r \in RiteNames
  BY CodeFacts
<1>3. CASE ~b.run \/ b.err
  <2>1. t = b
    BY <1>3 DEF Turn
  <2> QED BY <2>1
<1>4. CASE ~(~b.run \/ b.err) /\ n > last
  <2>1. t = OutOfSteps(b, e)
    BY <1>4 DEF Turn
  <2> HIDE DEF t
  <2>2. v \in t.deeds.cut
    BY <1>1, <1>2, <2>1, OutUnharmed
  <2> QED BY <2>2 DEF Treads, t
<1>5. CASE ~(~b.run \/ b.err) /\ ~(n > last)
  <2> DEFINE c == [b EXCEPT !.left = @ - 1]
             i == Code(e.r)[b.pc]
  <2>1. t = Exec(c, e)
    BY <1>5 DEF Turn
  <2> HIDE DEF t
  <2>2. b.left - 1 \in Nat
    BY <1>1, <1>5
  <2>3. /\ c \in Delta /\ c.rite = b.rite /\ c.target = b.target /\ c.run = b.run
        /\ c.pc = b.pc /\ Unhurt(b, c)
    BY <1>1, <2>2 DEF Delta, Unhurt
  <2> HIDE DEF c
  <2>4. k \in DOMAIN b.rite /\ b.pc \in DOMAIN Code(e.r) /\ b.run /\ ~b.err
    BY <1>1, <1>5 DEF Turning
  <2>5. Fate(c, v) = Fate(b, v) /\ c.deeds = b.deeds
    BY <2>3 DEF Unhurt, Fate, Ties
  <2>6. /\ t.deeds = c.deeds
        /\ i.op = "complete" => ~t.run /\ t.qty = c.qty /\ t.parts = c.parts
        /\ i.op # "complete" /\ i.op # "wait" => t.run
    <3>1. /\ k \in DOMAIN c.rite /\ c.pc \in DOMAIN Code(e.r) /\ c.run
          /\ Placed(c.rite) /\ c \in Delta
      BY <1>1, <2>3, <2>4
    <3>2. LET j == Code(e.r)[c.pc]
              u == Exec(c, e) IN
          /\ u.deeds = c.deeds
          /\ j.op = "complete" => ~u.run /\ u.qty = c.qty /\ u.parts = c.parts
          /\ j.op # "complete" /\ j.op # "wait" => u.run
      BY <3>1, ExecHurts
    <3> QED BY <2>1, <2>3, <3>2
  <2>7. SUFFICES ASSUME v \notin b.deeds.cut, ~t.err
                 PROVE  /\ t.run => Fate(t, v) \in outline[t.pc]
                        /\ ~t.run => Fate(t, v) \in {"whole", "gone"}
                        /\ Fate(s, v) = "gone" => Fate(t, v) = "gone"
    BY <2>4, <2>5, <2>6 DEF Treads, t
  <2>8. /\ Fate(c, v) \in outline[b.pc]
        /\ Fate(s, v) = "gone" => Fate(c, v) = "gone"
    BY <2>4, <2>5, <2>7 DEF Treads
  <2>9. /\ outline[b.pc] \subseteq Fates
        /\ i.op = "spend" => i.amount >= 0
        /\ Settles(i)
        /\ i.op = "complete" => "dying" \notin outline[b.pc]
        /\ i.op # "complete" => \A next \in Leads(i, b.pc, Fate(c, v)) :
                                   next[2] \in outline[next[1]]
    BY <2>4, <2>8 DEF Outlines, Settles
  <2>10. i.op # "wait"
    <3>1. Code(e.r) = Canons[canon].code[e.r] /\ e.r \in DOMAIN Canons[canon].code
      BY DEF Code, Rites
    <3> HIDE DEF i
    <3>2. i = Canons[canon].code[e.r][b.pc] /\ b.pc \in DOMAIN Canons[canon].code[e.r]
      BY <2>4, <3>1 DEF i
    <3> QED BY <3>1, <3>2 DEF WaitsAreReal
  <2>11. CASE i.op = "complete"
    <3>1. Fate(t, v) = Fate(c, v) /\ ~t.run
      BY <2>6, <2>11 DEF Fate, Ties
    <3> QED BY <2>8, <2>9, <2>11, <3>1 DEF Fates
  <2>12. CASE i.op # "complete"
    <3> DEFINE to == Fate(t, v)
               from == Fate(c, v)
    <3>1. <<t.pc, to>> \in Leads(i, b.pc, from)
      <4>1. from \in Fates
        BY <2>8, <2>9
      <4> QED BY <1>1, <2>1, <2>3, <2>4, <2>7, <2>9, <2>10, <2>12, <4>1, ExecLeads
    <3>2. \A next \in Leads(i, b.pc, from) : next[2] \in outline[next[1]]
      BY <2>9, <2>12
    <3>3. from = "gone" => \A next \in Leads(i, b.pc, from) : next[2] = "gone"
      <4> HIDE DEF from, i
      <4> SUFFICES ASSUME from = "gone", NEW next \in Leads(i, b.pc, from)
                   PROVE  next[2] = "gone"
        OBVIOUS
      <4> QED BY DEF Leads
    <3> HIDE DEF to, from, i
    <3>4. to \in outline[t.pc] /\ (from = "gone" => to = "gone")
      BY <3>1, <3>2, <3>3
    <3>5. t.run
      BY <2>6, <2>10, <2>12
    <3> QED BY <2>8, <3>4, <3>5 DEF to, from
  <2> QED BY <2>11, <2>12
<1> QED BY <1>3, <1>4, <1>5

(* apply_hit leaves its victim whole or gone, unless it runs out of steps. *)
LEMMA BurstSettles ==
  ASSUME SeededWhole, WaitsAreReal, canon \in DOMAIN Canons, NEW s \in Delta, NEW e \in Env,
         NEW target \in Targets, Placed(s.rite),
         e.r \in Rites, e.r = "apply_hit", <<e.a, e.r>> \in DOMAIN s.rite,
         e.a \in Destructible, NEW outline, Outlines(outline, Code(e.r)),
         Fate(s, e.a) \in {"whole", "gone"}
  PROVE  LET t == Burst(s, e, 1, target) IN
         ~t.err /\ e.a \notin t.deeds.cut =>
           /\ Fate(t, e.a) \in {"whole", "gone"}
           /\ Fate(s, e.a) = "gone" => Fate(t, e.a) = "gone"
<1> DEFINE k == <<e.a, e.r>>
           v == e.a
<1>2. 1 \in DOMAIN Code(e.r)
  <2>1. Code(e.r) \in Seq(Instructions) /\ Len(Code(e.r)) \in DOMAIN Code(e.r)
    BY CodeFacts
  <2> QED BY <2>1
<1>3. PICK last \in Nat : \E f : Burster(s, e, 1, target, last, f)
  BY <1>2, BurstTurns
<1>4. PICK f : Burster(s, e, 1, target, last, f)
  BY <1>3
<1> DEFINE Ok(n) == Treads(s, f[n], v, outline)
<1>5. Ok(0)
  <2> DEFINE x == Loaded(s, 1, target)
  <2>1. Unhurt(s, x) /\ x.pc = 1 /\ x.run
    BY DEF Loaded, Delta, Unhurt
  <2> HIDE DEF x
  <2>2. f[0] = x
    BY <1>4 DEF Burster, x
  <2>3. Fate(x, v) = Fate(s, v)
    BY <2>1 DEF Unhurt, Fate, Ties
  <2>4. {"whole", "gone"} \subseteq outline[1]
    BY DEF Outlines
  <2> QED BY <2>1, <2>2, <2>3, <2>4 DEF Treads
<1>6. ASSUME NEW n \in 1 .. last + 1, Ok(n - 1) PROVE Ok(n)
  <2> DEFINE b == f[n - 1]
  <2>1. n \in Nat /\ n - 1 \in 0 .. last + 1
    OBVIOUS
  <2>2. /\ f[n] = Turn(b, e, n, last) /\ (n <= last => b.left > 0)
        /\ Turning(b, k)
    BY <1>4, <2>1 DEF Burster
  <2>3. Treads(s, b, v, outline)
    BY <1>6
  <2> HIDE DEF b
  <2> QED BY <2>1, <2>2, <2>3, TurnTreads
<1>7. \A n \in 0 .. last + 1 : Ok(n)
  <2> HIDE DEF Ok
  <2> DEFINE bad == {n \in 0 .. last + 1 : ~Ok(n)}
  <2>1. SUFFICES ASSUME bad # {} PROVE FALSE
    OBVIOUS
  <2>2. bad \subseteq Nat
    OBVIOUS
  <2>3. PICK m \in bad : \A n \in bad : m <= n
    BY <2>1, <2>2, LeastOf
  <2>4. m \in 1 .. last + 1 /\ m - 1 \in 0 .. last + 1
    BY <1>5, <2>3
  <2>5. Ok(m - 1)
    BY <2>3, <2>4
  <2> QED BY <1>6, <2>3, <2>4, <2>5
<1> DEFINE t == Burst(s, e, 1, target)
<1>8. Treads(s, t, v, outline) /\ (~t.run \/ t.err)
  <2>1. last + 1 \in 0 .. last + 1
    OBVIOUS
  <2> QED BY <1>4, <1>7, <2>1 DEF Burster
<1> HIDE DEF t
<1> QED BY <1>8 DEF Treads, t

(* What a transaction may be left with: a destructible is whole, or it is  *)
(* gone and has collapsed, unless its own rites ran out of steps.          *)
Intact(s) ==
    \A v \in Destructible \ s.deeds.cut :
        /\ Fate(s, v) \in {"whole", "gone"}
        /\ s.deeds.falls[v] = (IF s.qty[v] = 0 THEN 1 ELSE 0)

LEMMA UnharmedIntact ==
  ASSUME NEW s, NEW t, Intact(s), Unharmed(s, t, {})
  PROVE  Intact(t)
<1> SUFFICES ASSUME NEW v \in Destructible \ t.deeds.cut
             PROVE  /\ Fate(t, v) \in {"whole", "gone"}
                    /\ t.deeds.falls[v] = (IF t.qty[v] = 0 THEN 1 ELSE 0)
  BY DEF Intact
<1>1. v \notin s.deeds.cut
  BY DEF Unharmed
<1>2. t.qty[v] = s.qty[v] /\ Ties(t, v) = Ties(s, v)
      /\ t.deeds.falls[v] = s.deeds.falls[v]
  BY DEF Unharmed
<1>3. Fate(t, v) = Fate(s, v)
  BY <1>2 DEF Fate
<1> QED BY <1>1, <1>2, <1>3 DEF Intact

LEMMA BeganUnharmed ==
  ASSUME NEW s \in Delta, NEW v \in Loci, NEW r \in RiteNames, NEW target \in Targets
  PROVE  Unharmed(s, Began(s, v, r, target), {})
<1> DEFINE t == Began(s, v, r, target)
<1>1. Rewrites(s, t, <<v, r>>) /\ t.deeds = s.deeds
  BY BeganWrites
<1> HIDE DEF t
<1>2. Unhurt(s, t)
  BY <1>1, RewritesUnhurt
<1>3. Unharmed(s, t, {})
  BY <1>2, UnhurtUnharmed
<1> QED BY <1>3 DEF t

LEMMA OpenedUnharmed ==
  ASSUME NEW s \in Delta, NEW e \in Env, e.a \in Actors, NEW verb
  PROVE  Unharmed(s, Opened(s, e, verb), {})
<1> DEFINE bound == Bound(e.a, e.r) /\ verb # "fire"
           t == Opened(s, e, verb)
<1>1. t.qty = s.qty /\ t.parts = s.parts /\ t.deeds = OpenedDeeds(s.deeds, e.a, bound)
  BY OpenedWrites
<1> HIDE DEF t
<1>2. bound \in BOOLEAN /\ s.deeds \in Deeds
  BY DEF Bound, Delta
<1> HIDE DEF bound
<1>3. t.deeds.falls = s.deeds.falls /\ t.deeds.cut = s.deeds.cut
  BY <1>1, <1>2, OpenedDeedsFacts
<1> QED BY <1>1, <1>3 DEF Unharmed, Ties, t

(* A rite that begins in a sound delta.                                    *)
LEMMA BeganPlaced ==
  ASSUME canon \in DOMAIN Canons, NEW s, Sound(s), ~s.err,
         NEW v \in Loci, NEW r \in Rites, NEW target \in Targets
  PROVE  LET u == Began(s, v, r, target) IN
         /\ u \in Delta /\ Placed(u.rite) /\ <<v, r>> \in DOMAIN u.rite /\ ~u.err
         /\ Unharmed(s, u, {}) /\ r \in RiteNames /\ 1 \in DOMAIN Code(r)
<1> DEFINE u == Began(s, v, r, target)
           k == <<v, r>>
<1>1. r \in RiteNames /\ 1 \in DOMAIN Code(r)
  <2>1. r \in RiteNames /\ Code(r) \in Seq(Instructions) /\ Len(Code(r)) \in DOMAIN Code(r)
    BY CodeFacts
  <2> QED BY <2>1
<1>2. s \in Delta /\ Placed(s.rite)
  BY DEF Sound
<1>3. /\ Rewrites(s, u, k) /\ DOMAIN u.rite = DOMAIN s.rite \cup {k}
      /\ u.rite[k] = Fresh(target)
  BY <1>1, <1>2, BeganWrites
<1>4. Unharmed(s, u, {})
  BY <1>1, <1>2, BeganUnharmed
<1> HIDE DEF u
<1>5. Placed(u.rite)
  <2>1. u.rite[k].pc = 1
    BY <1>3 DEF Fresh
  <2>2. \A j \in DOMAIN s.rite : j \in Keys
    BY <1>2, RowFacts
  <2> QED BY <1>1, <1>2, <1>3, <2>1, <2>2 DEF Placed, Rewrites
<1> QED BY <1>1, <1>3, <1>4, <1>5 DEF Rewrites, u

(* What a rite driven on v does to v, and to nobody else.                  *)
LEMMA DrivenHarms ==
  ASSUME SeededWhole, WaitsAreReal, NEW outline, HitsSettle(outline),
         canon \in DOMAIN Canons, NEW s, Sound(s), ~s.err, NEW e \in Env,
         NEW v \in Loci, NEW r \in Rites
  PROVE  LET t == Driven(s, e, v, r) IN
         /\ r = "apply_hit" => Unharmed(s, t, {v})
         /\ Quiet([a |-> v, r |-> r]) => Unharmed(s, t, {})
         /\ /\ r = "apply_hit" /\ v \in Destructible /\ Fate(s, v) \in {"whole", "gone"}
            /\ ~t.err /\ v \notin t.deeds.cut
            => /\ Fate(t, v) \in {"whole", "gone"}
               /\ Fate(s, v) = "gone" => Fate(t, v) = "gone"
<1> DEFINE d == [e EXCEPT !.a = v, !.r = r]
           u == Began(s, v, r, v)
           t == Burst(u, d, 1, v)
<1>1. v \in Targets
  BY DEF Targets
<1>2. /\ u \in Delta /\ Placed(u.rite) /\ <<v, r>> \in DOMAIN u.rite
      /\ Unharmed(s, u, {}) /\ r \in RiteNames /\ 1 \in DOMAIN Code(r)
  BY <1>1, BeganPlaced
<1>3. d \in Env /\ d.a = v /\ d.r = r
  BY <1>2 DEF Env
<1>4. Driven(s, e, v, r) = t
  BY DEF Driven
<1> HIDE DEF u, d
<1>5. /\ r = "apply_hit" => Unharmed(u, t, {v})
      /\ Quiet([a |-> v, r |-> r]) => Unharmed(u, t, {})
  <2>1. d.a \in {v}
    BY <1>3
  <2>2. r = "apply_hit" => Selfish(d.r)
    <3>1. r = "apply_hit" => Outlines(outline[canon], Code(d.r))
      BY <1>3 DEF HitsSettle, Rites, Code
    <3> QED BY <3>1 DEF Outlines, Selfish
  <2>3. r = "apply_hit" => Unharmed(u, t, {v})
    BY <1>1, <1>2, <1>3, <2>1, <2>2, BurstUnharmed
  <2>4. Quiet([a |-> v, r |-> r]) => Quiet(d)
    BY <1>3 DEF Quiet
  <2>5. Quiet(d) => Unharmed(u, t, {})
    BY <1>1, <1>2, <1>3, BurstUnharmed
  <2> QED BY <2>3, <2>4, <2>5
<1>6. ASSUME r = "apply_hit", v \in Destructible, Fate(s, v) \in {"whole", "gone"},
             ~t.err, v \notin t.deeds.cut
      PROVE  /\ Fate(t, v) \in {"whole", "gone"}
             /\ Fate(s, v) = "gone" => Fate(t, v) = "gone"
  <2>1. Fate(u, v) = Fate(s, v)
    BY <1>2, <1>6 DEF Unharmed, Fate
  <2>2. Outlines(outline[canon], Code(d.r))
    BY <1>3, <1>6 DEF HitsSettle, Rites, Code
  <2> QED BY <1>1, <1>2, <1>3, <1>6, <2>1, <2>2, BurstSettles
<1> HIDE DEF t
<1>7. /\ r = "apply_hit" => Unharmed(s, t, {} \cup {v})
      /\ Quiet([a |-> v, r |-> r]) => Unharmed(s, t, {} \cup {})
  BY <1>2, <1>5, UnharmedTrans
<1>8. {} \cup {v} = {v} /\ {} \cup {} = {}
  OBVIOUS
<1> QED BY <1>4, <1>6, <1>7, <1>8

LEMMA StruckHarms ==
  ASSUME SeededWhole, WaitsAreReal, NEW outline, HitsSettle(outline),
         canon \in DOMAIN Canons, NEW s, Sound(s), ~s.err, NEW e \in Env,
         e.a \in Actors, NEW target \in Loci, NEW v \in Loci
  PROVE  LET t == Struck(s, e, target, v) IN
         /\ Unharmed(s, t, {v})
         /\ "apply_hit" \notin Rites => Unharmed(s, t, {})
         /\ /\ v \in Destructible /\ Fate(s, v) \in {"whole", "gone"}
            /\ ~t.err /\ v \notin t.deeds.cut
            => /\ Fate(t, v) \in {"whole", "gone"}
               /\ Fate(s, v) = "gone" => Fate(t, v) = "gone"
<1> DEFINE a == e.a
           hits == [s.deeds.hits EXCEPT ![a] = @ + 1]
           struck == [s.deeds.struck EXCEPT ![a] = target]
           d == [s.deeds EXCEPT !.hits = hits, !.struck = struck]
           u == [s EXCEPT !.deeds = d]
           w == [s EXCEPT !.deeds.hits[e.a] = @ + 1, !.deeds.struck[e.a] = target]
           t == Struck(s, e, target, v)
<1>1. t = IF "apply_hit" \in Rites THEN Driven(w, e, v, "apply_hit") ELSE w
  BY DEF Struck
<1>2. s \in Delta /\ s.deeds \in Deeds
  BY DEF Sound, Delta
<1>3. w = u
  BY <1>2 DEF Delta, Deeds
<1> HIDE DEF w
<1>4. s.deeds.hits \in [Actors -> Nat] /\ s.deeds.struck \in [Actors -> Targets]
  BY <1>2 DEF Deeds
<1>5. hits \in [Actors -> Nat] /\ struck \in [Actors -> Targets]
  BY <1>4 DEF Targets
<1> HIDE DEF hits, struck
<1>6. d \in Deeds /\ d.falls = s.deeds.falls /\ d.cut = s.deeds.cut
  BY <1>2, <1>5 DEF Deeds
<1> HIDE DEF d
<1>7. /\ u \in Delta /\ u.rite = s.rite /\ u.err = s.err
      /\ u.qty = s.qty /\ u.parts = s.parts /\ u.deeds = d
  BY <1>2, <1>6 DEF Delta
<1> HIDE DEF u
<1>8. Sound(u) /\ ~u.err
  BY <1>7, SoundByRows
<1>9. Unharmed(s, u, {}) /\ Fate(u, v) = Fate(s, v)
  BY <1>6, <1>7 DEF Unharmed, Fate, Ties
<1> HIDE DEF t
<1>10. CASE "apply_hit" \notin Rites
  <2>1. t = u
    BY <1>1, <1>3, <1>10
  <2>2. Unharmed(s, t, {v})
    BY <1>9, <2>1 DEF Unharmed
  <2> QED BY <1>9, <1>10, <2>1, <2>2 DEF t
<1>11. CASE "apply_hit" \in Rites
  <2>1. t = Driven(u, e, v, "apply_hit")
    BY <1>1, <1>3, <1>11
  <2>2. /\ Unharmed(u, t, {v})
        /\ /\ v \in Destructible /\ Fate(u, v) \in {"whole", "gone"}
           /\ ~t.err /\ v \notin t.deeds.cut
           => /\ Fate(t, v) \in {"whole", "gone"}
              /\ Fate(u, v) = "gone" => Fate(t, v) = "gone"
    BY <1>8, <1>11, <2>1, DrivenHarms
  <2>3. Unharmed(s, t, {} \cup {v})
    BY <1>9, <2>2, UnharmedTrans
  <2>4. {} \cup {v} = {v}
    OBVIOUS
  <2> QED BY <1>9, <1>11, <2>2, <2>3, <2>4 DEF t
<1> QED BY <1>10, <1>11

(* The collapse is counted, and harms nobody.                              *)
LEMMA CollapseCounts ==
  ASSUME SeededWhole, OnlyHitsHarm, WaitsAreReal, NEW outline, HitsSettle(outline),
         canon \in DOMAIN Canons, NEW s, Sound(s), ~s.err, NEW e \in Env, NEW v \in Loci
  PROVE  LET t == Collapse(s, e, v) IN
         /\ s.deeds.cut \subseteq t.deeds.cut
         /\ \A x \in Destructible : t.qty[x] = s.qty[x] /\ Ties(t, x) = Ties(s, x)
         /\ \A x \in Destructible \ {v} : t.deeds.falls[x] = s.deeds.falls[x]
         /\ v \in Destructible =>
              t.deeds.falls[v] =
                IF s.qty[v] > 0 \/ "collapse" \notin Rites THEN s.deeds.falls[v]
                ELSE IF s.deeds.falls[v] < 2 THEN s.deeds.falls[v] + 1 ELSE 2
<1> DEFINE falls == IF s.deeds.falls[v] < 2 THEN s.deeds.falls[v] + 1 ELSE 2
           d == [s.deeds EXCEPT !.falls[v] = falls]
           u == [s EXCEPT !.deeds = d]
           t == Collapse(s, e, v)
<1>1. t = IF v \notin Destructible \/ s.qty[v] > 0 \/ "collapse" \notin Rites THEN s
          ELSE Driven(u, e, v, "collapse")
  BY DEF Collapse
<1>2. s \in Delta /\ s.deeds \in Deeds
  BY DEF Sound, Delta
<1>3. s.deeds.falls \in [Loci -> 0 .. 2]
  BY <1>2 DEF Deeds
<1>4. falls \in 0 .. 2
  BY <1>3
<1>5. falls = IF s.deeds.falls[v] < 2 THEN s.deeds.falls[v] + 1 ELSE 2
  OBVIOUS
<1> HIDE DEF falls
<1>6. d \in Deeds /\ d.falls = [s.deeds.falls EXCEPT ![v] = falls] /\ d.cut = s.deeds.cut
  <2>1. [s.deeds.falls EXCEPT ![v] = falls] \in [Loci -> 0 .. 2]
    BY <1>3, <1>4
  <2> QED BY <1>2, <2>1 DEF Deeds
<1> HIDE DEF d
<1>7. /\ u \in Delta /\ u.rite = s.rite /\ u.err = s.err
      /\ u.qty = s.qty /\ u.parts = s.parts /\ u.deeds = d
  BY <1>2, <1>6 DEF Delta
<1> HIDE DEF u
<1>8. Sound(u) /\ ~u.err
  BY <1>7, SoundByRows
<1> HIDE DEF t
<1>9. CASE v \notin Destructible \/ s.qty[v] > 0 \/ "collapse" \notin Rites
  <2>1. t = s
    BY <1>1, <1>9
  <2> QED BY <1>9, <2>1 DEF t
<1>10. CASE ~(v \notin Destructible \/ s.qty[v] > 0 \/ "collapse" \notin Rites)
  <2>1. t = Driven(u, e, v, "collapse") /\ "collapse" \in Rites
    BY <1>1, <1>10
  <2>2. Quiet([a |-> v, r |-> "collapse"])
    <3>1. "collapse" \in DOMAIN Canons[canon].code \ {"apply_hit"}
      BY <2>1 DEF Rites
    <3> QED BY <3>1 DEF OnlyHitsHarm, Quiet, Code, Runners
  <2>3. Unharmed(u, t, {})
    BY <1>8, <2>1, <2>2, DrivenHarms
  <2>4. /\ s.deeds.cut \subseteq t.deeds.cut
        /\ \A x \in Destructible : /\ t.qty[x] = s.qty[x] /\ Ties(t, x) = Ties(s, x)
                                   /\ t.deeds.falls[x] = d.falls[x]
    BY <1>6, <1>7, <2>3 DEF Unharmed, Ties
  <2>5. Destructible \subseteq Loci
    BY DEF SeededWhole
  <2>6. \A x \in Destructible \ {v} : t.deeds.falls[x] = s.deeds.falls[x]
    BY <1>3, <1>6, <2>4, <2>5
  <2>7. t.deeds.falls[v] = falls
    BY <1>3, <1>6, <1>10, <2>4
  <2> QED BY <1>5, <1>10, <2>4, <2>6, <2>7 DEF t
<1> QED BY <1>9, <1>10

TameHits(outline) == SeededWhole /\ OnlyHitsHarm /\ WaitsAreReal /\ HitsSettle(outline)

(* A transaction that goes through has left the destructibles so.          *)
Upright(s) == ~s.err => Intact(s)

LEMMA TiedCollapses ==
  ASSUME NEW s, NEW v \in Destructible
  PROVE  MayCollapse(s, v) <=> Ties(s, v) # {}
  BY DEF MayCollapse, Ties

LEMMA ApplyHitUpright ==
  ASSUME NEW outline, TameHits(outline), canon \in DOMAIN Canons,
         NEW s, Sound(s), Upright(s), NEW e \in Env, e.a \in Actors, NEW target \in Targets
  PROVE  Upright(ApplyHit(s, e, target))
<1> DEFINE v == Parent(s, target)
           may == MayCollapse(s, v)
           u == Struck(s, e, target, v)
           t == ApplyHit(s, e, target)
<1>1. s \in Delta
  BY DEF Sound
<1>2. SeededWhole /\ OnlyHitsHarm /\ WaitsAreReal /\ HitsSettle(outline)
  BY DEF TameHits
<1>3. CASE s.err \/ target = None \/ s.emits = 0
  <2>1. t = s
    BY <1>3 DEF ApplyHit
  <2> QED BY <2>1
<1>4. CASE ~(s.err \/ target = None \/ s.emits = 0)
  <2>1. target \in Loci
    BY <1>4 DEF Targets
  <2>2. v \in Loci
    BY <1>1, <2>1, ParentFacts
  <2>3. t = IF may /\ ~u.err THEN Collapse(u, e, v) ELSE u
    BY <1>4 DEF ApplyHit, HitOn, AndFalls
  <2>4. v \in Destructible => (may <=> Ties(s, v) # {})
    BY TiedCollapses
  <2> HIDE DEF v, may, t
  <2>5. Sound(u)
    BY <1>2, <1>4, <2>1, <2>2, StruckKeeps
  <2>6. /\ Unharmed(s, u, {v})
        /\ "apply_hit" \notin Rites => Unharmed(s, u, {})
        /\ /\ v \in Destructible /\ Fate(s, v) \in {"whole", "gone"}
           /\ ~u.err /\ v \notin u.deeds.cut
           => /\ Fate(u, v) \in {"whole", "gone"}
              /\ Fate(s, v) = "gone" => Fate(u, v) = "gone"
    BY <1>2, <1>4, <2>1, <2>2, StruckHarms
  <2> HIDE DEF u
  <2>7. SUFFICES ASSUME ~t.err, NEW x \in Destructible, x \notin t.deeds.cut
                 PROVE  /\ Fate(t, x) \in {"whole", "gone"}
                        /\ t.deeds.falls[x] = (IF t.qty[x] = 0 THEN 1 ELSE 0)
    BY DEF Upright, Intact, t
  <2> DEFINE falls == IF u.qty[v] > 0 \/ "collapse" \notin Rites THEN u.deeds.falls[v]
                      ELSE IF u.deeds.falls[v] < 2 THEN u.deeds.falls[v] + 1 ELSE 2
  <2>8. /\ u.deeds.cut \subseteq t.deeds.cut
        /\ \A y \in Destructible : t.qty[y] = u.qty[y] /\ Ties(t, y) = Ties(u, y)
        /\ \A y \in Destructible \ {v} : t.deeds.falls[y] = u.deeds.falls[y]
        /\ v \in Destructible =>
             t.deeds.falls[v] = IF may THEN falls ELSE u.deeds.falls[v]
    <3>1. ~u.err
      BY <2>3, <2>7
    <3>2. CASE may
      <4>1. t = Collapse(u, e, v)
        BY <2>3, <3>1, <3>2
      <4> QED BY <1>2, <2>2, <2>5, <3>1, <3>2, <4>1, CollapseCounts
    <3>3. CASE ~may
      <4>1. t = u
        BY <2>3, <3>3
      <4> QED BY <3>3, <4>1
    <3> QED BY <3>2, <3>3
  <2>9. ~u.err /\ x \notin u.deeds.cut /\ x \notin s.deeds.cut /\ ~s.err
    BY <1>4, <2>3, <2>6, <2>7, <2>8 DEF Unharmed
  <2>10. /\ Fate(s, x) \in {"whole", "gone"}
         /\ s.deeds.falls[x] = (IF s.qty[x] = 0 THEN 1 ELSE 0)
    BY <2>9 DEF Upright, Intact
  <2>11. Fate(t, x) = Fate(u, x) /\ t.qty[x] = u.qty[x]
    BY <2>8 DEF Fate
  <2>12. u.deeds.falls[x] = s.deeds.falls[x]
    BY <2>6 DEF Unharmed
  <2>13. CASE x # v
    <3>1. u.qty[x] = s.qty[x] /\ Ties(u, x) = Ties(s, x)
      BY <2>6, <2>13 DEF Unharmed
    <3>2. Fate(u, x) = Fate(s, x) /\ t.deeds.falls[x] = s.deeds.falls[x]
      BY <2>8, <2>12, <2>13, <3>1 DEF Fate
    <3> QED BY <2>10, <2>11, <3>1, <3>2
  <2>14. CASE x = v
    <3>1. u.qty[v] \in Int /\ s.qty[v] \in Int
      BY <1>1, <2>2, <2>5 DEF Sound, Delta
    <3>2. /\ Fate(u, v) \in {"whole", "gone"}
          /\ Fate(s, v) = "gone" => Fate(u, v) = "gone"
      BY <2>6, <2>9, <2>10, <2>14
    <3>3. t.deeds.falls[v] = IF may THEN falls ELSE u.deeds.falls[v]
      BY <2>8, <2>14
    <3>4. u.deeds.falls[v] = (IF s.qty[v] = 0 THEN 1 ELSE 0)
      BY <2>10, <2>12, <2>14
    <3>5. may <=> Fate(s, v) = "whole"
      <4>1. may <=> Ties(s, v) # {}
        BY <2>4, <2>14
      <4>2. {v} # {}
        OBVIOUS
      <4> QED BY <2>10, <2>14, <3>1, <4>1, <4>2, FateFacts
    <3>6. CASE Fate(u, v) = "whole"
      <4>1. u.qty[v] > 0 /\ Fate(s, v) = "whole"
        BY <2>10, <2>14, <3>1, <3>2, <3>6, FateFacts
      <4>2. s.qty[v] > 0
        BY <3>1, <4>1, FateFacts
      <4>3. t.deeds.falls[v] = 0
        BY <3>1, <3>3, <3>4, <4>1, <4>2
      <4> QED BY <2>11, <2>14, <3>1, <3>6, <4>1, <4>3
    <3>7. CASE Fate(u, v) = "gone"
      <4>1. u.qty[v] = 0
        BY <3>1, <3>7, FateFacts
      <4>2. t.deeds.falls[v] = 1
        <5>1. CASE may
          <6>1. s.qty[v] > 0
            BY <3>1, <3>5, <5>1, FateFacts
          <6>2. "collapse" \in Rites
            <7>1. "apply_hit" \in Rites
              <8>1. SUFFICES ASSUME "apply_hit" \notin Rites PROVE FALSE
                OBVIOUS
              <8>2. u.qty[v] = s.qty[v]
                BY <2>6, <2>14, <8>1 DEF Unharmed
              <8> QED BY <3>1, <4>1, <6>1, <8>2
            <7> QED BY <1>2, <7>1 DEF OnlyHitsHarm, Rites
          <6>3. u.deeds.falls[v] = 0
            BY <3>1, <3>4, <6>1
          <6>4. falls = 1
            BY <4>1, <6>2, <6>3
          <6> HIDE DEF falls
          <6> QED BY <3>3, <5>1, <6>4
        <5>2. CASE ~may
          <6>1. s.qty[v] = 0
            BY <2>10, <2>14, <3>1, <3>5, <5>2, FateFacts
          <6> QED BY <3>3, <3>4, <5>2, <6>1
        <5> QED BY <5>1, <5>2
      <4> QED BY <2>11, <2>14, <3>7, <4>1, <4>2
    <3> QED BY <3>2, <3>6, <3>7
  <2> QED BY <2>13, <2>14
<1> QED BY <1>3, <1>4

(* A rite an actor runs harms nobody.                                      *)
LEMMA ActorBurst ==
  ASSUME NEW outline, TameHits(outline), canon \in DOMAIN Canons,
         NEW s \in Delta, Placed(s.rite), NEW e \in Env, e.a \in Actors,
         e.r \in Rites \ {"apply_hit"}, <<e.a, e.r>> \in DOMAIN s.rite,
         NEW target \in Targets, NEW pc \in DOMAIN Code(e.r)
  PROVE  Unharmed(s, Burst(s, e, pc, target), {})
<1>1. SeededWhole /\ OnlyHitsHarm
  BY DEF TameHits
<1>2. e.a \in Runners(e.r)
  BY DEF Runners, Loci
<1>3. e.r \in DOMAIN Canons[canon].code \ {"apply_hit"}
  BY DEF Rites
<1>4. Quiet(e)
  BY <1>1, <1>2, <1>3 DEF OnlyHitsHarm, Quiet, Code
<1> QED BY <1>1, <1>4, BurstUnharmed

LEMMA FailUpright ==
  ASSUME NEW s \in Delta
  PROVE  Upright(Fail(s))
  BY FailWrites DEF Upright

LEMMA UnharmedUpright ==
  ASSUME NEW s, NEW t, Intact(s), Unharmed(s, t, {})
  PROVE  Upright(t)
  BY UnharmedIntact DEF Upright

LEMMA MeleeHitUpright ==
  ASSUME NEW outline, TameHits(outline), canon \in DOMAIN Canons,
         NEW b, Sound(b), Upright(b), NEW e \in Env, e.a \in Actors, NEW target \in Targets,
         NEW may
  PROVE  Upright(MeleeHit(b, e, target, may))
  BY ApplyHitUpright DEF MeleeHit

LEMMA ResumeUpright ==
  ASSUME NEW outline, TameHits(outline), canon \in DOMAIN Canons,
         NEW s, Sound(s), ~s.err, Intact(s), NEW e \in Env, e.a \in Actors,
         e.r \in Rites, <<e.a, e.r>> \in DOMAIN s.rite, NEW target \in Targets
  PROVE  Upright(Resume(s, e, s.rite[<<e.a, e.r>>], target))
<1> DEFINE m == s.rite[<<e.a, e.r>>]
           b == Burst(s, e, m.pc, target)
           t == Resume(s, e, m, target)
<1>1. t \in {Fail(s), MeleeHit(b, e, target, e.r = "melee")}
  BY DEF Resume
<1>2. s \in Delta /\ Placed(s.rite) /\ Gone(s.rite)
  BY DEF Sound
<1>3. CASE t = Fail(s)
  BY <1>2, <1>3, FailUpright
<1>4. CASE t = MeleeHit(b, e, target, e.r = "melee")
  <2>1. m.pc \in DOMAIN Code(e.r) /\ e.r \in Rites \ Blows
    BY <1>2 DEF Placed, Gone
  <2> HIDE DEF m
  <2>2. Sound(b) /\ Unharmed(s, b, {})
    BY <1>2, <2>1, BurstKeeps, ActorBurst DEF Blows
  <2> HIDE DEF b, t
  <2>3. Upright(b)
    BY <2>2, UnharmedUpright
  <2>4. Upright(t)
    BY <1>4, <2>2, <2>3, MeleeHitUpright
  <2> QED BY <2>4 DEF t, m
<1> QED BY <1>1, <1>3, <1>4

(* No intent begins apply_hit: another rite is before it in the Canon.     *)
LEMMA NoBlowStarts ==
  ASSUME OnlyHitsHarm, canon \in DOMAIN Canons, NEW s, NEW verb, NEW target,
         NEW r \in StartRite(s, verb, target)
  PROVE  r \in Rites \ {"apply_hit"}
<1>1. r \in Rites /\ (r \in {"melee", "fire"} \/ r \in Fallback)
  BY DEF StartRite, Fallback
<1>2. ASSUME r = "apply_hit", r \in Fallback PROVE FALSE
  <2>1. PICK q \in Rites : RiteOrder[q] < RiteOrder[r]
    BY <1>1, <1>2 DEF OnlyHitsHarm, Rites
  <2>2. RiteOrder[r] <= RiteOrder[q]
    BY <1>2 DEF Fallback
  <2>3. q \in RiteNames /\ r \in RiteNames
    BY <1>1, CodeFacts
  <2>4. RiteOrder[q] \in Nat /\ RiteOrder[r] \in Nat
    BY <2>3, RiteAssumption
  <2> QED BY <2>1, <2>2, <2>4
<1> QED BY <1>1, <1>2

LEMMA StartUpright ==
  ASSUME NEW outline, TameHits(outline), canon \in DOMAIN Canons,
         NEW s, Sound(s), ~s.err, Intact(s), NEW e \in Env, e.a \in Actors,
         NEW verb, NEW target \in Targets, e.r \in StartRite(s, verb, target)
  PROVE  Upright(Start(s, e, verb, target))
<1> DEFINE k == <<e.a, e.r>>
           o == Began(s, e.a, e.r, target)
           u == Opened(o, e, verb)
           b == Burst(u, e, 1, target)
           may == verb = "fire" \/ (e.r = "melee" /\ e.a \notin Tracked)
           t == Start(s, e, verb, target)
<1>1. e.r \in Rites \ {"apply_hit"} /\ e.a \in Loci /\ WaitsAreReal
  BY NoBlowStarts DEF Env, TameHits
<1>2. /\ o \in Delta /\ Placed(o.rite) /\ k \in DOMAIN o.rite /\ ~o.err
      /\ Unharmed(s, o, {}) /\ 1 \in DOMAIN Code(e.r)
  BY <1>1, BeganPlaced
<1>3. \A j \in Keys \ {k} : /\ j \in DOMAIN o.rite <=> j \in DOMAIN s.rite
                            /\ j \in DOMAIN s.rite => o.rite[j] = s.rite[j]
  <2>1. s \in Delta /\ Placed(s.rite)
    BY DEF Sound
  <2>2. /\ o \in Delta /\ o.err = s.err /\ Placed(o.rite) /\ k \in DOMAIN o.rite
        /\ \A j \in Keys \ {k} : /\ j \in DOMAIN o.rite <=> j \in DOMAIN s.rite
                                 /\ j \in DOMAIN s.rite => o.rite[j] = s.rite[j]
    BY <1>1, <2>1, BegunRows
  <2> HIDE DEF o
  <2> QED BY <2>2
<1>4. t = MeleeHit(b, e, target, may)
  BY DEF Start
<1> HIDE DEF o, may
<1>5. /\ u \in Delta /\ u.rite = o.rite /\ ~u.err /\ Placed(u.rite) /\ k \in DOMAIN u.rite
      /\ Unharmed(o, u, {})
  BY <1>2, OpenedWrites, OpenedUnharmed
<1> HIDE DEF u
<1>6. Sound(b)
  <2>1. CASE e.r \notin Blows
    <3>1. Gone(u.rite)
      <4>1. \A j \in Keys \ {k} : j \in DOMAIN u.rite => j \in DOMAIN s.rite
        BY <1>3, <1>5
      <4>2. k[2] \notin Blows /\ s \in Delta /\ Gone(s.rite)
        BY <2>1 DEF Sound
      <4> QED BY <1>5, <4>1, <4>2, GoneByKey
    <3>2. Sound(u)
      BY <1>5, <3>1 DEF Sound
    <3> QED BY <1>1, <1>2, <1>5, <2>1, <3>2, BurstKeeps
  <2>2. CASE e.r \in Blows
    BY <1>1, <1>3, <1>5, <2>2, BlowKeeps
  <2> QED BY <2>1, <2>2
<1>7. Unharmed(u, b, {})
  BY <1>1, <1>2, <1>5, ActorBurst
<1> HIDE DEF b, t
<1>8. Intact(o)
  BY <1>2, UnharmedIntact
<1>9. Intact(u)
  BY <1>5, <1>8, UnharmedIntact
<1>10. Upright(b)
  BY <1>7, <1>9, UnharmedUpright
<1>11. Upright(t)
  BY <1>4, <1>6, <1>10, MeleeHitUpright
<1> QED BY <1>11 DEF t

LEMMA DriveRiteUpright ==
  ASSUME NEW outline, TameHits(outline), canon \in DOMAIN Canons,
         NEW s, Sound(s), ~s.err, Intact(s), NEW e \in Env, e.a \in Actors,
         NEW verb, NEW target \in Targets
  PROVE  Upright(DriveRite(s, e, verb, target))
<1>1. s \in Delta
  BY DEF Sound
<1>2. CASE \E r \in Rites : Has(s, e.a, r)
  <2> DEFINE r == FirstRite(s, e.a)
             d == [e EXCEPT !.r = r]
             m == s.rite[<<e.a, r>>]
             aim == IF m.target = None THEN target ELSE m.target
  <2>1. r \in Rites /\ <<e.a, r>> \in DOMAIN s.rite /\ r \in RiteNames
    BY <1>2, CodeFacts, FirstRiteFacts DEF Has
  <2>2. DriveRite(s, e, verb, target) = Resume(s, d, m, aim)
    BY <1>2 DEF DriveRite
  <2> HIDE DEF r
  <2>3. d \in Env /\ d.a = e.a /\ d.r = r
    BY <2>1 DEF Env
  <2>4. m \in Row
    BY <1>1, <2>1, RowFacts
  <2>5. aim \in Targets
    BY <2>4 DEF Row
  <2> HIDE DEF d, aim
  <2>6. Upright(Resume(s, d, s.rite[<<d.a, d.r>>], aim))
    BY <2>1, <2>3, <2>5, ResumeUpright
  <2> QED BY <2>2, <2>3, <2>6
<1>3. CASE ~(\E r \in Rites : Has(s, e.a, r)) /\ StartRite(s, verb, target) = {}
  <2>1. DriveRite(s, e, verb, target) = s
    BY <1>3 DEF DriveRite
  <2> QED BY <2>1 DEF Upright
<1>4. CASE ~(\E r \in Rites : Has(s, e.a, r)) /\ StartRite(s, verb, target) # {}
  <2> DEFINE r == CHOOSE r \in StartRite(s, verb, target) : TRUE
             d == [e EXCEPT !.r = r]
  <2>1. r \in StartRite(s, verb, target)
    BY <1>4
  <2>2. DriveRite(s, e, verb, target) = Start(s, d, verb, target)
    BY <1>4 DEF DriveRite
  <2> HIDE DEF r
  <2>3. r \in RiteNames
    <3>1. r \in Rites
      BY <2>1 DEF StartRite, Fallback
    <3> QED BY <3>1, CodeFacts
  <2>4. d \in Env /\ d.a = e.a /\ d.r = r
    BY <2>3 DEF Env
  <2> HIDE DEF d
  <2>5. Upright(Start(s, d, verb, target))
    BY <2>1, <2>4, StartUpright
  <2> QED BY <2>2, <2>5
<1> QED BY <1>2, <1>3, <1>4

(* An island.                                                              *)
LEMMA EndedUpright ==
  ASSUME NEW s \in Delta, Upright(s), NEW a \in Loci, NEW r \in RiteNames
  PROVE  Upright(Ended(s, a, r))
<1> DEFINE t == Ended(s, a, r)
<1>1. Rewrites(s, t, <<a, r>>) /\ t.deeds = s.deeds
  BY EndedWrites
<1>2. Unhurt(s, t)
  BY <1>1, RewritesUnhurt
<1> HIDE DEF t
<1>3. t.err = s.err
  BY <1>1 DEF Rewrites
<1>4. Unharmed(s, t, {})
  BY <1>2, UnhurtUnharmed
<1>5. Upright(t)
  BY <1>3, <1>4, UnharmedIntact DEF Upright
<1> QED BY <1>5 DEF t

LEMMA AdvancedUpright ==
  ASSUME NEW s \in Delta, Intact(s), NEW a \in Loci, NEW r \in RiteNames,
         <<a, r>> \in DOMAIN s.rite, NEW pc \in Nat, NEW wait \in Nat
  PROVE  Upright(Advanced(s, a, r, pc, wait))
<1> DEFINE t == Advanced(s, a, r, pc, wait)
<1>1. Rewrites(s, t, <<a, r>>) /\ t.deeds = s.deeds
  BY AdvancedWrites
<1>2. Unhurt(s, t)
  BY <1>1, RewritesUnhurt
<1> HIDE DEF t
<1>3. Unharmed(s, t, {})
  BY <1>2, UnhurtUnharmed
<1>4. Upright(t)
  BY <1>3, UnharmedUpright
<1> QED BY <1>4 DEF t

LEMMA AdmittedUnharmed ==
  ASSUME NEW s \in Delta, NEW a \in Actors, NEW r \in RiteNames, NEW target \in Loci,
         <<a, r>> \in DOMAIN s.rite
  PROVE  Unharmed(s, Admitted(s, a, r, target), {})
<1> DEFINE k == <<a, r>>
           m == s.rite[k]
           n == [m EXCEPT !.hit = @ \/ m.target = target]
           u == Wrote(Put(s, k, n), a)
           t == Admitted(s, a, r, target)
<1>1. m \in Row /\ a \in Loci
  BY RowFacts DEF Loci
<1>2. n \in Row
  <2> HIDE DEF m
  <2> QED BY <1>1 DEF Row
<1>3. t = [u EXCEPT !.deeds.met[a] = @ \cup {m.age}, !.deeds.touched[a] = target]
  BY DEF Admitted
<1> HIDE DEF n, m
<1>4. Rewrites(s, u, k) /\ u.deeds = s.deeds
  BY <1>1, <1>2, PutWrote
<1> HIDE DEF u, t
<1>5. u \in Delta /\ u.qty = s.qty /\ u.parts = s.parts
  BY <1>4 DEF Rewrites
<1>6. /\ t.qty = u.qty /\ t.parts = u.parts
      /\ t.deeds.falls = u.deeds.falls /\ t.deeds.cut = u.deeds.cut
  BY <1>3, <1>5 DEF Delta, Deeds
<1> QED BY <1>4, <1>5, <1>6 DEF Unharmed, Ties, t

LEMMA IslandBurstUpright ==
  ASSUME NEW outline, TameHits(outline), canon \in DOMAIN Canons,
         NEW s, Sound(s), ~s.err, Intact(s), NEW a \in Tracked,
         <<a, Track[a].rite>> \in DOMAIN s.rite, NEW target \in Targets, NEW may
  PROVE  Upright(IslandBurst(s, OnBehalf(a), target, may))
<1> DEFINE e == OnBehalf(a)
           k == <<a, Track[a].rite>>
           b == Burst(s, e, s.rite[<<e.a, e.r>>].pc, target)
           hits == may /\ b.emits > s.emits
           t == IslandBurst(s, e, target, may)
<1>1. s \in Delta /\ Placed(s.rite) /\ Gone(s.rite)
  BY DEF Sound
<1>2. /\ e \in Env /\ e.a = a /\ e.r = Track[a].rite /\ e.r \in Rites
      /\ e.r \in RiteNames /\ a \in Actors /\ a \in Loci
  BY OnBehalfFacts
<1>3. t = HitIf(b, e, target, hits)
  BY OnceHit
<1> HIDE DEF e
<1>4. s.rite[k].pc \in DOMAIN Code(e.r) /\ e.r \in Rites \ Blows
  BY <1>1, <1>2 DEF Placed, Gone
<1>5. Sound(b) /\ Unharmed(s, b, {})
  BY <1>1, <1>2, <1>4, BurstKeeps, ActorBurst DEF Blows
<1> HIDE DEF b, t
<1>6. Upright(b)
  BY <1>5, UnharmedUpright
<1>7. CASE hits /\ ~b.err
  <2> DEFINE h == ApplyHit(b, e, target)
  <2>1. t = Finished(h, a, e.r)
    BY <1>2, <1>3, <1>7 DEF HitIf
  <2>2. Sound(h) /\ Upright(h)
    BY <1>2, <1>5, <1>6, ApplyHitKeeps, ApplyHitUpright DEF TameHits
  <2> HIDE DEF h
  <2>3. t \in {h, Ended(h, a, e.r)}
    BY <2>1 DEF Finished
  <2>4. Upright(Ended(h, a, e.r))
    BY <1>2, <2>2, EndedUpright DEF Sound
  <2>5. Upright(t)
    BY <2>2, <2>3, <2>4
  <2> QED BY <2>5 DEF t, e
<1>8. CASE ~(hits /\ ~b.err)
  <2>1. t = b
    BY <1>3, <1>8 DEF HitIf
  <2> QED BY <1>6, <2>1 DEF t, e
<1> QED BY <1>7, <1>8

LEMMA ClockUpright ==
  ASSUME NEW outline, TameHits(outline), canon \in DOMAIN Canons,
         NEW s, Sound(s), ~s.err, Intact(s), NEW a \in Tracked,
         <<a, Track[a].rite>> \in DOMAIN s.rite
  PROVE  Upright(Clock(s, a, s.rite[<<a, Track[a].rite>>]))
<1> DEFINE r == Track[a].rite
           k == <<a, r>>
           m == s.rite[k]
           i == Code(r)[m.pc - 1]
           t == Clock(s, a, m)
<1>1. s \in Delta /\ Placed(s.rite)
  BY DEF Sound
<1>2. m \in Row
  BY <1>1, RowFacts
<1>3. a \in Loci /\ r \in Rites /\ r \in RiteNames
  BY OnBehalfFacts
<1>4. CASE m.pc = 1 \/ i.op # "wait"
  <2>1. t = Fail(s)
    BY <1>4 DEF Clock
  <2> HIDE DEF t
  <2>2. Upright(t)
    BY <1>1, <2>1, FailUpright
  <2> QED BY <2>2 DEF t
<1>5. CASE ~(m.pc = 1 \/ i.op # "wait") /\ m.age < i.ticks
  <2> DEFINE wait == i.ticks - m.age
  <2>1. t = Advanced(s, a, r, m.pc, wait)
    BY <1>5 DEF Clock
  <2>2. m.pc \in DOMAIN Code(r) /\ m.pc \in Nat /\ m.pc - 1 \in DOMAIN Code(r)
    <3>1. m.pc \in DOMAIN Code(r)
      BY <1>1 DEF Placed
    <3>2. Code(r) \in Seq(Instructions)
      BY <1>3, CodeFacts
    <3> HIDE DEF m, r
    <3> QED BY <1>5, <3>1, <3>2
  <2>3. i.ticks \in Nat
    <3>1. i \in Instructions
      BY <1>3, <2>2, CodeFacts
    <3> QED BY <1>5, <3>1, InstructionFacts
  <2>4. m.age \in Nat
    BY <1>2, MaxAgeNat DEF Row
  <2>5. wait \in Nat
    BY <1>5, <2>3, <2>4
  <2> HIDE DEF wait
  <2>6. Upright(Advanced(s, a, r, m.pc, wait))
    BY <1>1, <1>3, <2>2, <2>5, AdvancedUpright
  <2> QED BY <2>1, <2>6
<1>6. CASE ~(m.pc = 1 \/ i.op # "wait") /\ ~(m.age < i.ticks)
  <2>1. t = IslandBurst(s, OnBehalf(a), m.target, m.hit)
    BY <1>6 DEF Clock
  <2>2. m.target \in Targets
    BY <1>2 DEF Row
  <2> HIDE DEF m, t, r
  <2>3. Upright(t)
    BY <2>1, <2>2, IslandBurstUpright DEF r
  <2> QED BY <2>3 DEF t, m, r
<1> QED BY <1>4, <1>5, <1>6

(* Whoever is claimed to be met is somebody.                               *)
Real(a, claims) == a \in DOMAIN claims => claims[a].target \in Loci

LEMMA InsideWindowUpright ==
  ASSUME NEW outline, TameHits(outline), canon \in DOMAIN Canons,
         NEW s, Sound(s), ~s.err, Intact(s), NEW a \in Tracked,
         <<a, Track[a].rite>> \in DOMAIN s.rite, NEW claims, Real(a, claims),
         s.rite[<<a, Track[a].rite>>].pc = Track[a].wait + 1
  PROVE  LET t == InsideWindow(s, a, s.rite[<<a, Track[a].rite>>], claims) IN
         Sound(t) /\ Upright(t)
<1> DEFINE r == Track[a].rite
           k == <<a, r>>
           m == s.rite[k]
           t == InsideWindow(s, a, m, claims)
<1>1. s \in Delta /\ Placed(s.rite)
  BY DEF Sound
<1>2. a \in Actors /\ a \in Loci /\ r \in Rites /\ r \in RiteNames /\ k \in Keys
  BY OnBehalfFacts DEF Keys
<1>3. CASE a \in DOMAIN claims
  <2> DEFINE target == claims[a].target
             u == Admitted(s, a, r, target)
             v == IslandBurst(u, OnBehalf(a), target, TRUE)
  <2>1. t \in {Fail(s), v}
    BY <1>3 DEF InsideWindow
  <2>2. CASE t = Fail(s)
    <3> HIDE DEF t
    <3>1. Sound(t)
      BY <2>2, FailKeeps
    <3>2. Upright(t)
      BY <1>1, <2>2, FailUpright
    <3> QED BY <3>1, <3>2 DEF t
  <2>3. CASE t = v
    <3>1. target \in Loci /\ target \in Targets
      BY <1>3 DEF Real, Targets
    <3> HIDE DEF target, t
    <3>2. Rewrites(s, u, k) /\ DOMAIN u.rite = DOMAIN s.rite /\ u.rite[k].pc = s.rite[k].pc
      BY SMTT(30), <1>1, <1>2, <3>1, AdmittedWrites
    <3>3. Unharmed(s, u, {})
      BY <1>1, <1>2, <3>1, AdmittedUnharmed
    <3> HIDE DEF u
    <3>4. Sound(u) /\ ~u.err
      BY <1>2, <3>2, PlacedByRewriting
    <3>5. Intact(u)
      BY <3>3, UnharmedIntact
    <3>6. WaitsAreReal
      BY DEF TameHits
    <3>7. k \in DOMAIN u.rite
      BY <3>2
    <3>8. Sound(v)
      BY <3>1, <3>4, <3>6, <3>7, IslandBurstKeeps
    <3>9. Upright(v)
      BY <3>1, <3>4, <3>5, <3>7, IslandBurstUpright
    <3> QED BY <2>3, <3>8, <3>9 DEF t
  <2> QED BY <2>1, <2>2, <2>3
<1>4. CASE a \notin DOMAIN claims
  <2>1. Unheld(s, a, claims) /\ WaitsAreReal
    BY <1>4 DEF Unheld, TameHits
  <2>2. Sound(t)
    BY <2>1, InsideWindowKeeps
  <2>3. Upright(Ended(s, a, r))
    <3>1. Upright(s)
      BY DEF Upright
    <3> QED BY <1>1, <1>2, <3>1, EndedUpright
  <2>4. CASE m.age < Track[a].ticks
    <3> DEFINE wait == Track[a].ticks - m.age
    <3>1. t = Advanced(s, a, r, m.pc, wait)
      BY <1>4, <2>4 DEF InsideWindow
    <3>2. m.age \in Nat /\ m.pc \in Nat
      <4>1. m \in Row
        BY <1>1, RowFacts
      <4> QED BY <4>1, MaxAgeNat DEF Row
    <3>3. Track[a].ticks \in Nat
      BY TrackFacts
    <3>4. wait \in Nat
      BY <2>4, <3>2, <3>3
    <3> HIDE DEF wait
    <3>5. Upright(Advanced(s, a, r, m.pc, wait))
      BY <1>1, <1>2, <3>2, <3>4, AdvancedUpright
    <3> QED BY <2>2, <3>1, <3>5
  <2>5. CASE ~(m.age < Track[a].ticks)
    <3>1. t = Ended(s, a, r)
      BY <1>4, <2>5 DEF InsideWindow
    <3> QED BY <2>2, <2>3, <3>1
  <2> QED BY <2>4, <2>5
<1> QED BY <1>3, <1>4

LEMMA AdmitWindowUpright ==
  ASSUME NEW outline, TameHits(outline), canon \in DOMAIN Canons,
         NEW s, Sound(s), Upright(s), NEW a, NEW claims, Real(a, claims)
  PROVE  LET t == AdmitWindow(s, a, claims) IN Sound(t) /\ Upright(t)
<1> DEFINE r == Track[a].rite
           k == <<a, r>>
           m == s.rite[k]
           t == AdmitWindow(s, a, claims)
<1>1. CASE s.err \/ a \notin Tracked \/ ~Has(s, a, r)
  <2>1. t = s
    BY <1>1 DEF AdmitWindow
  <2> QED BY <2>1
<1>2. CASE ~(s.err \/ a \notin Tracked \/ ~Has(s, a, r))
  <2>1. a \in Tracked /\ ~s.err /\ k \in DOMAIN s.rite /\ Intact(s) /\ s \in Delta
    BY <1>2 DEF Has, Upright, Sound
  <2>2. a \in Loci /\ r \in RiteNames /\ WaitsAreReal
    BY <2>1, OnBehalfFacts DEF TameHits
  <2>3. \/ t = Fail(s)
        \/ t = Ended(s, a, r)
        \/ t = Clock(s, a, m)
        \/ m.pc = Track[a].wait + 1 /\ t = InsideWindow(s, a, m, claims)
    BY <1>2 DEF AdmitWindow
  <2>4. CASE t = Fail(s)
    <3> HIDE DEF t
    <3>1. Sound(t)
      BY <2>4, FailKeeps
    <3>2. Upright(t)
      BY <2>1, <2>4, FailUpright
    <3> QED BY <3>1, <3>2 DEF t
  <2>5. CASE t = Ended(s, a, r)
    <3> HIDE DEF t
    <3>1. Sound(t)
      BY <2>1, <2>2, <2>5, EndedKeeps
    <3>2. Upright(t)
      BY <2>1, <2>2, <2>5, EndedUpright
    <3> QED BY <3>1, <3>2 DEF t
  <2>6. CASE t = Clock(s, a, m)
    <3> HIDE DEF t
    <3>1. Sound(t)
      BY <2>1, <2>2, <2>6, ClockKeeps
    <3>2. Upright(t)
      BY <2>1, <2>6, ClockUpright
    <3> QED BY <3>1, <3>2 DEF t
  <2>7. CASE m.pc = Track[a].wait + 1 /\ t = InsideWindow(s, a, m, claims)
    <3> HIDE DEF t
    <3>1. Sound(t) /\ Upright(t)
      BY <2>1, <2>7, InsideWindowUpright
    <3> QED BY <3>1 DEF t
  <2> QED BY <2>3, <2>4, <2>5, <2>6, <2>7
<1> QED BY <1>1, <1>2

LEMMA AdmitWindowsUpright ==
  ASSUME NEW outline, TameHits(outline), canon \in DOMAIN Canons, NEW i, NEW claims,
         Sound([BeginSpec EXCEPT !.writes = Bodies(i)]),
         Upright([BeginSpec EXCEPT !.writes = Bodies(i)]),
         \A a \in Loci : Real(a, claims)
  PROVE  LET t == AdmitWindows(i, claims) IN Sound(t) /\ Upright(t)
<1> DEFINE x == [BeginSpec EXCEPT !.writes = Bodies(i)]
           N == Len(SigilOrder)
<1>1. PICK f : WindowRun(i, claims, f)
  BY BodiesInOrder
<1>2. N \in Nat /\ \A n \in 1 .. N : SigilOrder[n] \in Loci
  BY BodiesInOrder
<1>3. /\ AdmitWindows(i, claims) = f[N] /\ f[0] = x
      /\ \A n \in 1 .. N : f[n] = AdmitBody(i, f[n - 1], SigilOrder[n], claims)
  BY <1>1 DEF WindowRun
<1> HIDE DEF x, N
<1> DEFINE Ok(n) == Sound(f[n]) /\ Upright(f[n])
<1>4. Ok(0)
  BY <1>3 DEF x
<1>5. ASSUME NEW n \in 1 .. N, Ok(n - 1) PROVE Ok(n)
  <2> DEFINE s == f[n - 1]
             l == SigilOrder[n]
             t == AdmitBody(i, s, l, claims)
  <2>1. f[n] = t /\ Real(l, claims)
    BY <1>2, <1>3
  <2>2. Sound(s) /\ Upright(s)
    BY <1>5
  <2>3. t \in {s, AdmitWindow(s, l, claims)}
    BY DEF AdmitBody
  <2> HIDE DEF s, l, t
  <2>4. Sound(AdmitWindow(s, l, claims)) /\ Upright(AdmitWindow(s, l, claims))
    BY <2>1, <2>2, AdmitWindowUpright
  <2> QED BY <2>1, <2>2, <2>3, <2>4
<1>6. \A n \in 0 .. N : Ok(n)
  <2> HIDE DEF Ok
  <2> DEFINE bad == {n \in 0 .. N : ~Ok(n)}
  <2>1. SUFFICES ASSUME bad # {} PROVE FALSE
    OBVIOUS
  <2>2. bad \subseteq Nat
    BY <1>2
  <2>3. PICK m \in bad : \A n \in bad : m <= n
    BY <2>1, <2>2, LeastOf
  <2>4. m \in 1 .. N /\ m - 1 \in 0 .. N
    BY <1>2, <1>4, <2>3
  <2>5. Ok(m - 1)
    BY <2>3, <2>4
  <2> QED BY <1>5, <2>3, <2>4, <2>5
<1>7. N \in 0 .. N
  BY <1>2
<1> QED BY <1>3, <1>6, <1>7

(* The world between two transactions.                                     *)
Standing == Intact([qty |-> qty, parts |-> parts, deeds |-> deeds])

LEMMA SameStanding ==
  ASSUME Standing, UNCHANGED <<qty, parts>>,
         deeds'.falls = deeds.falls, deeds'.cut = deeds.cut
  PROVE  Standing'
  BY DEF Standing, Intact, Fate, Ties

LEMMA SoStanding ==
  ASSUME NEW s, Intact(s), qty' = s.qty, parts' = s.parts, deeds' = s.deeds
  PROVE  Standing'
  BY DEF Standing, Intact, Fate, Ties

LEMMA FromStanding ==
  ASSUME Standing, NEW s, s.qty = qty, s.parts = parts, s.deeds = deeds
  PROVE  Intact(s)
  BY DEF Standing, Intact, Fate, Ties

LEMMA JudgeStands ==
  ASSUME Standing, NEW s, Upright(s), NEW cells, NEW veto, Judge(s, cells, veto)
  PROVE  Standing'
<1>1. CASE s.err \/ veto
  <2>1. UNCHANGED <<qty, parts, deeds>>
    BY <1>1 DEF Judge, world
  <2> QED BY <2>1, SameStanding
<1>2. CASE ~(s.err \/ veto)
  <2>1. qty' = s.qty /\ parts' = s.parts /\ deeds' = s.deeds
    BY <1>2 DEF Judge
  <2> QED BY <1>2, <2>1, SoStanding DEF Upright
<1> QED BY <1>1, <1>2

LEMMA StartStands ==
  ASSUME SeededWhole, Init
  PROVE  Standing
<1> DEFINE s == [qty |-> qty, parts |-> parts, deeds |-> deeds]
<1>1. SUFFICES ASSUME NEW v \in Destructible
               PROVE  /\ Fate(s, v) \in {"whole", "gone"}
                      /\ s.deeds.falls[v] = (IF s.qty[v] = 0 THEN 1 ELSE 0)
  BY DEF Standing, Intact
<1>2. v \in Loci /\ Health[v] > 0 /\ \A p \in Loci : <<v, p>> \in PartOf <=> p = v
  BY DEF SeededWhole
<1>3. s.qty = Health /\ s.parts = PartOf /\ s.deeds.falls = [l \in Loci |-> 0]
  BY DEF Init
<1> HIDE DEF s
<1>4. /\ s.deeds.falls[v] = 0 /\ s.qty[v] \in Int /\ s.qty[v] # 0 /\ s.qty[v] > 0
      /\ Ties(s, v) = {v}
  <2>1. Health[v] \in Int
    BY <1>2, WorldAssumption
  <2> QED BY <1>2, <1>3, <2>1 DEF Ties
<1> QED BY <1>4, FateFacts

LEMMA IntentStands ==
  ASSUME NEW outline, TameHits(outline), IInv, Yields, Standing,
         NEW source \in Sources, NEW a \in Actors, NEW o \in Orders,
         NEW claimed \in SUBSET Channels, NEW veto,
         Intent(source, a, o.verb, o.target, claimed, veto)
  PROVE  Standing'
<1> DEFINE e == [a |-> a, r |-> None, source |-> source, claimed |-> claimed]
           s == DriveRite(BeginSpec, e, o.verb, o.target)
<1>1. e \in Env /\ e.a = a
  BY DEF Env, Loci
<1>2. o.target \in Targets /\ canon \in DOMAIN Canons
  BY InputAssumption DEF IInv, Types
<1>3. Sound(BeginSpec) /\ ~BeginSpec.err /\ Intact(BeginSpec)
  <2>1. BeginSpec \in Delta
    BY DEF IInv, Types, BeginSpec, Delta, Targets
  <2>2. /\ ~BeginSpec.err /\ BeginSpec.rite = rite
        /\ BeginSpec.qty = qty /\ BeginSpec.parts = parts /\ BeginSpec.deeds = deeds
    BY DEF BeginSpec
  <2>3. Intact(BeginSpec)
    BY <2>2, FromStanding
  <2> QED BY <2>1, <2>2, <2>3 DEF IInv, Yields, Sound
<1>4. Judge(s, WriteCells(a), veto)
  BY DEF Intent
<1> HIDE DEF e
<1>5. Upright(s)
  BY <1>1, <1>2, <1>3, DriveRiteUpright
<1> HIDE DEF s
<1> QED BY <1>4, <1>5, JudgeStands

LEMMA IslandStands ==
  ASSUME NEW outline, TameHits(outline), IInv, Yields, Standing,
         NEW i, NEW claims \in Claims(i), NEW veto, AdmitIsland(i, claims, veto)
  PROVE  Standing'
<1> DEFINE x == [BeginSpec EXCEPT !.writes = Bodies(i)]
           s == AdmitWindows(i, claims)
           cells == IslandCells(i, s)
           t == [s EXCEPT !.err = @ \/ cells \cap written # {}]
<1>1. UNCHANGED world \/ Judge(t, cells, veto)
  BY DEF AdmitIsland, JudgeIsland
<1>2. CASE UNCHANGED world
  <2>1. UNCHANGED <<qty, parts, deeds>>
    BY <1>2 DEF world
  <2> QED BY <2>1, SameStanding
<1>3. CASE Judge(t, cells, veto)
  <2>1. canon \in DOMAIN Canons /\ Bodies(i) \in SUBSET Loci
    BY DEF IInv, Types, Bodies
  <2>2. \A a \in Loci : Real(a, claims)
    <3>1. PICK who \in SUBSET (Bodies(i) \cap Tracked) : claims \in [who -> Claimable]
      BY DEF Claims
    <3> QED BY <3>1, InputAssumption DEF Real, Claim
  <2>3. Sound(x)
    BY <2>1, BeginSound DEF Yields
  <2>4. Upright(x)
    <3>1. x.qty = qty /\ x.parts = parts /\ x.deeds = deeds
      BY DEF BeginSpec
    <3> QED BY <3>1, FromStanding DEF Upright
  <2>5. Sound(s) /\ Upright(s)
    BY <2>1, <2>2, <2>3, <2>4, AdmitWindowsUpright
  <2> HIDE DEF s
  <2>6. s \in Delta
    BY <2>5 DEF Sound
  <2> HIDE DEF cells
  <2>7. /\ t.qty = s.qty /\ t.parts = s.parts /\ t.deeds = s.deeds /\ (~t.err => ~s.err)
    BY <2>6 DEF Delta
  <2> HIDE DEF t
  <2>8. Upright(t)
    BY <2>5, <2>7 DEF Upright, Intact, Fate, Ties
  <2> QED BY <1>3, <2>8, JudgeStands
<1> QED BY <1>1, <1>2, <1>3

LEMMA StepStands ==
  ASSUME IInv, Standing, NEW dt, NEW steps, Step(dt, steps)
  PROVE  Standing'
<1>1. deeds \in Deeds
  BY DEF IInv, Types
<1>2. UNCHANGED <<qty, parts>> /\ deeds'.falls = deeds.falls /\ deeds'.cut = deeds.cut
  BY <1>1 DEF Step, Deeds
<1> QED BY <1>2, SameStanding

LEMMA NextStands ==
  ASSUME NEW outline, TameHits(outline), IInv, Yields, Standing, [Next]_vars
  PROVE  Standing'
<1>1. ASSUME NEW veto, PlayerIntent(veto) PROVE Standing'
  <2>1. PICK a \in Actors, o \in Orders :
          Intent("player", a, o.verb, o.target, o.claimed, veto)
    BY <1>1 DEF PlayerIntent
  <2>2. o.claimed \in SUBSET Channels /\ "player" \in Sources
    BY InputAssumption DEF Sources
  <2> QED BY <2>1, <2>2, IntentStands
<1>2. ASSUME NEW veto, MindIntent(veto) PROVE Standing'
  <2>1. PICK a \in Actors, o \in Orders : Intent("mind", a, o.verb, o.target, {}, veto)
    BY <1>2 DEF MindIntent
  <2>2. {} \in SUBSET Channels /\ "mind" \in Sources
    BY DEF Sources
  <2> QED BY <2>1, <2>2, IntentStands
<1>3. ASSUME NEW i, NEW veto, IslandProposal(i, veto) PROVE Standing'
  <2>1. PICK claims \in Claims(i) : AdmitIsland(i, claims, veto)
    BY <1>3 DEF IslandProposal
  <2> QED BY <2>1, IslandStands
<1>4. ASSUME NEW dt \in Ticks, NEW steps \in RiteSteps, Step(dt, steps) PROVE Standing'
  BY <1>4, StepStands
<1>5. ASSUME NEW c \in DOMAIN Canons, ApplyEpoch(c) PROVE Standing'
  <2>1. UNCHANGED <<qty, parts, deeds>>
    BY <1>5 DEF ApplyEpoch
  <2> QED BY <2>1, SameStanding
<1>6. CASE UNCHANGED vars
  <2>1. UNCHANGED <<qty, parts, deeds>>
    BY <1>6 DEF vars, world
  <2> QED BY <2>1, SameStanding
<1> QED BY <1>1, <1>2, <1>3, <1>4, <1>5, <1>6 DEF Next

(* Whatever hits a destructible and whenever, it collapses in the          *)
(* transaction that takes its last health, and never again: apply_hit is   *)
(* driven to its end on it in one burst, collapse is driven only while the *)
(* victim was still somebody's part before the hit and is spent after it   *)
(* (drive_apply_hit, drive_collapse), and a transaction that fails in      *)
(* between, or is vetoed, drops both.  Loci whose own apply_hit or collapse *)
(* ran out of steps are excepted; what is asked of the Canons is that no   *)
(* slot of another rite reaches a destructible's health or ties            *)
(* (OnlyHitsHarm) and that apply_hit leaves its victim whole or spent and  *)
(* torn from its host (HitsSettle).                                        *)
THEOREM SpecCollapsedOnce ==
  ASSUME NEW CONSTANT outline, SeededWhole, OnlyHitsHarm, WaitsAreReal, HitsSettle(outline)
  PROVE  Spec => []CollapsedOnce
<1>1. TameHits(outline)
  BY DEF TameHits
<1>2. Init => Standing
  BY StartStands
<1>3. IInv /\ Yields /\ Standing /\ [Next]_vars => Standing'
  BY <1>1, NextStands
<1>4. Standing => CollapsedOnce
  BY DEF Standing, Intact, CollapsedOnce
<1> QED BY <1>2, <1>3, <1>4, SpecInv, SpecYields, PTL DEF Spec
=============================================================================
