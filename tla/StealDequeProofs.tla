-------------------------- MODULE StealDequeProofs --------------------------
(***************************************************************************)
(* Proofs about StealDeque for every number of workers and every dealing   *)
(* of the islands: under store buffering no island is lost and the top     *)
(* side hands each slot to at most one thief; without store buffering each *)
(* island is claimed at most once.                                         *)
(***************************************************************************)
EXTENDS StealDeque, TLAPS

Popping == {"popTop", "popCas"}
PastOwn == {"scan", "stealBottom", "stealCas", "done"}

Claimed(i) == \E w \in Workers : chunks[w][i] > 0

(* Locals are consistent with the program point they are alive at.         *)
LocalsOK ==
    \A w \in Workers :
        /\ pc[w] \in Popping => bb[w] = OwnBottom(w) /\ bb[w] < Count[w]
        /\ pc[w] = "popCas" => tt[w] = bb[w] /\ tt[w] <= top[w]
        /\ pc[w] \in {"stealBottom", "stealCas"} =>
               victim[w] \in Workers \ {w} /\ tt[w] <= top[victim[w]]
        /\ pc[w] = "stealCas" => tt[w] < Count[victim[w]]

(* Neither end of a deque, in memory or buffered, passes what was dealt.   *)
EndsOK ==
    \A d \in Workers :
        /\ top[d] <= Count[d]
        /\ bottom[d] <= Count[d]
        /\ \A j \in 1 .. Len(sb[d]) : sb[d][j] <= Count[d]
        /\ ~StoreBuffering => sb[d] = <<>>

(* What thieves passed is claimed, what the owner passed is claimed, and   *)
(* an owner past its own pop leaves nothing unclaimed.                     *)
Covered ==
    \A d \in Workers : \A k \in 0 .. Count[d] - 1 :
        /\ k < top[d] => Claimed(<<d, k>>)
        /\ k >= OwnBottom(d) =>
               Claimed(<<d, k>>) \/ (pc[d] \in Popping /\ k = bb[d])
        /\ pc[d] \in PastOwn => Claimed(<<d, k>>)

(* Who may have claimed which slot.                                        *)
Exclusive ==
    \A d \in Workers : \A k \in 0 .. Count[d] - 1 :
        /\ \A w \in Workers : chunks[w][<<d, k>>] <= 1
        /\ \A w \in Workers \ {d} : chunks[w][<<d, k>>] > 0 => k < top[d]
        /\ chunks[d][<<d, k>>] > 0 /\ k >= top[d] =>
               k >= OwnBottom(d) /\ ~(pc[d] \in Popping /\ k = bb[d])
        /\ \A v, w \in Workers \ {d} :
               chunks[v][<<d, k>>] > 0 /\ chunks[w][<<d, k>>] > 0 => v = w

IInv == TypeOK /\ LocalsOK /\ EndsOK /\ Covered /\ Exclusive

(* A slot of a deque is an island and every island is such a slot.         *)
LEMMA IslandSlots ==
    /\ \A d \in Workers : \A k \in 0 .. Count[d] - 1 : <<d, k>> \in Islands
    /\ \A i \in Islands : \E d \in Workers : \E k \in 0 .. Count[d] - 1 :
           i = <<d, k>>
  BY DEF Islands

(* What the owner reads as bottom never exceeds the slots it was dealt.    *)
LEMMA OwnBottomRange ==
  ASSUME TypeOK, EndsOK, NEW w \in Workers
  PROVE  OwnBottom(w) \in Nat /\ OwnBottom(w) <= Count[w]
<1>1. CASE sb[w] = <<>>
  BY <1>1 DEF TypeOK, EndsOK, OwnBottom
<1>2. CASE sb[w] # <<>>
  <2>1. sb[w] \in Seq(Nat) /\ Len(sb[w]) \in 1 .. Len(sb[w])
    BY <1>2 DEF TypeOK
  <2>2. sb[w][Len(sb[w])] \in Nat
    BY <2>1
  <2> QED BY <1>2, <2>1, <2>2 DEF EndsOK, OwnBottom
<1> QED BY <1>1, <1>2

(* What a store to bottom does to the owner's view and to the buffers.     *)
LEMMA StoreBottomEffect ==
  ASSUME TypeOK, EndsOK, NEW w \in Workers, NEW v \in Nat, v <= Count[w],
         StoreBottom(w, v)
  PROVE  /\ OwnBottom(w)' = v
         /\ \A d \in Workers \ {w} : OwnBottom(d)' = OwnBottom(d)
         /\ bottom' \in [Workers -> Nat]
         /\ sb' \in [Workers -> Seq(Nat)]
         /\ \A d \in Workers :
               /\ bottom'[d] <= Count[d]
               /\ \A j \in 1 .. Len(sb'[d]) : sb'[d][j] <= Count[d]
               /\ ~StoreBuffering => sb'[d] = <<>>
<1> USE BufferingAssumption, CountAssumption
<1>1. CASE StoreBuffering
  <2>1. sb' = [sb EXCEPT ![w] = Append(@, v)] /\ bottom' = bottom
    BY <1>1 DEF StoreBottom
  <2>2. sb' \in [Workers -> Seq(Nat)] /\ bottom' \in [Workers -> Nat]
    BY <2>1 DEF TypeOK
  <2>3. sb'[w] = Append(sb[w], v) /\ \A d \in Workers \ {w} : sb'[d] = sb[d]
    BY <2>1 DEF TypeOK
  <2>4. Len(sb'[w]) = Len(sb[w]) + 1 /\ sb'[w][Len(sb'[w])] = v
    BY <2>3 DEF TypeOK
  <2>5. sb'[w] # <<>>
    BY <2>4 DEF TypeOK
  <2>6. OwnBottom(w)' = v
    BY <2>4, <2>5 DEF OwnBottom
  <2>7. \A d \in Workers \ {w} : OwnBottom(d)' = OwnBottom(d)
    BY <2>1, <2>3 DEF OwnBottom
  <2>8. \A j \in 1 .. Len(sb'[w]) : sb'[w][j] <= Count[w]
    BY <2>3, <2>4 DEF EndsOK, TypeOK
  <2> QED BY <1>1, <2>1, <2>2, <2>3, <2>6, <2>7, <2>8 DEF EndsOK
<1>2. CASE ~StoreBuffering
  <2>1. bottom' = [bottom EXCEPT ![w] = v] /\ sb' = sb
    BY <1>2 DEF StoreBottom
  <2>2. \A d \in Workers : sb[d] = <<>>
    BY <1>2 DEF EndsOK
  <2>3. bottom'[w] = v /\ \A d \in Workers \ {w} : bottom'[d] = bottom[d]
    BY <2>1 DEF TypeOK
  <2> QED BY <2>1, <2>2, <2>3 DEF OwnBottom, TypeOK, EndsOK
<1> QED BY <1>1, <1>2

(* What a claim does to the buffers and to the claiming worker.            *)
LEMMA ClaimEffect ==
  ASSUME TypeOK, NEW w \in Workers, NEW d \in Workers,
         NEW k \in 0 .. Count[d] - 1, Claim(w, d, k)
  PROVE  /\ chunks' \in [Workers -> [Islands -> Nat]]
         /\ chunks'[w][<<d, k>>] = chunks[w][<<d, k>>] + 1
         /\ \A v \in Workers : \A j \in Islands :
                v # w \/ j # <<d, k>> => chunks'[v][j] = chunks[v][j]
         /\ \A i \in Islands :
                Claimed(i) => \E v \in Workers : chunks'[v][i] > 0
         /\ \E v \in Workers : chunks'[v][<<d, k>>] > 0
         /\ pc' = [pc EXCEPT ![w] = "popBottom"]
         /\ bb' = [bb EXCEPT ![w] = 0]
<1> DEFINE i == <<d, k>>
<1>1. i \in Islands
  BY IslandSlots
<1> HIDE DEF i
<1>2. chunks' = [chunks EXCEPT ![w] = [chunks[w] EXCEPT ![i] = @ + 1]]
  BY DEF Claim, i
<1>3. chunks' \in [Workers -> [Islands -> Nat]]
  BY <1>1, <1>2 DEF TypeOK
<1>4. chunks'[w][i] = chunks[w][i] + 1 /\ chunks[w][i] \in Nat
  BY <1>1, <1>2 DEF TypeOK
<1>5. \A v \in Workers : \A j \in Islands :
          v # w \/ j # i => chunks'[v][j] = chunks[v][j]
  BY <1>2 DEF TypeOK
<1>7. \A j \in Islands : Claimed(j) => \E v \in Workers : chunks'[v][j] > 0
  <2> SUFFICES ASSUME NEW j \in Islands, NEW v \in Workers, chunks[v][j] > 0
               PROVE  chunks'[v][j] > 0
    BY DEF Claimed
  <2>1. chunks[v][j] \in Nat
    BY DEF TypeOK
  <2> QED BY <1>4, <1>5, <2>1
<1>8. \E v \in Workers : chunks'[v][i] > 0
  BY <1>4
<1> QED
  BY <1>3, <1>4, <1>5, <1>7, <1>8 DEF i, Claim, ReturnLocals

(* A step of w that claims nothing and leaves top alone has only to answer *)
(* for w's own deque.                                                      *)
LEMMA QuietStep ==
  ASSUME Covered, Exclusive, NEW w \in Workers,
         chunks' = chunks, top' = top,
         \A d \in Workers \ {w} : /\ OwnBottom(d)' = OwnBottom(d)
                                  /\ pc'[d] = pc[d]
                                  /\ bb'[d] = bb[d],
         \A k \in 0 .. Count[w] - 1 :
             /\ k >= OwnBottom(w)' =>
                    Claimed(<<w, k>>) \/ (pc'[w] \in Popping /\ k = bb'[w])
             /\ pc'[w] \in PastOwn => Claimed(<<w, k>>)
             /\ chunks[w][<<w, k>>] > 0 /\ k >= top[w] =>
                    k >= OwnBottom(w)' /\ ~(pc'[w] \in Popping /\ k = bb'[w])
  PROVE  Covered' /\ Exclusive'
<1>1. \A i : Claimed(i)' <=> Claimed(i)
  BY DEF Claimed
<1>2. Covered'
  <2> SUFFICES ASSUME NEW d \in Workers, NEW k \in 0 .. Count[d] - 1
               PROVE  /\ k < top[d] => Claimed(<<d, k>>)
                      /\ k >= OwnBottom(d)' =>
                             Claimed(<<d, k>>) \/ (pc'[d] \in Popping /\ k = bb'[d])
                      /\ pc'[d] \in PastOwn => Claimed(<<d, k>>)
    BY <1>1 DEF Covered
  <2> QED BY DEF Covered
<1>3. Exclusive'
  <2> SUFFICES ASSUME NEW d \in Workers, NEW k \in 0 .. Count[d] - 1
               PROVE  /\ \A v \in Workers : chunks[v][<<d, k>>] <= 1
                      /\ \A v \in Workers \ {d} :
                             chunks[v][<<d, k>>] > 0 => k < top[d]
                      /\ chunks[d][<<d, k>>] > 0 /\ k >= top[d] =>
                             /\ k >= OwnBottom(d)'
                             /\ ~(pc'[d] \in Popping /\ k = bb'[d])
                      /\ \A u, v \in Workers \ {d} :
                             chunks[u][<<d, k>>] > 0 /\ chunks[v][<<d, k>>] > 0
                                 => u = v
    BY DEF Exclusive
  <2>1. CASE d = w
    BY <2>1 DEF Exclusive
  <2>2. CASE d # w
    BY <2>2 DEF Exclusive
  <2> QED BY <2>1, <2>2
<1> QED BY <1>2, <1>3

(* The invariant read at one worker, and at one slot of its own deque.     *)
LEMMA AtWorker ==
  ASSUME IInv, NEW w \in Workers
  PROVE  /\ top[w] \in Nat /\ top[w] <= Count[w] /\ Count[w] \in Nat
         /\ bb[w] \in Nat /\ tt[w] \in Nat /\ victim[w] \in Nat
         /\ OwnBottom(w) \in Nat /\ OwnBottom(w) <= Count[w]
         /\ pc[w] \in Popping => bb[w] = OwnBottom(w) /\ bb[w] < Count[w]
         /\ pc[w] = "popCas" => tt[w] = bb[w] /\ tt[w] <= top[w]
         /\ pc[w] \in {"stealBottom", "stealCas"} =>
                victim[w] \in Workers \ {w} /\ tt[w] <= top[victim[w]]
         /\ pc[w] = "stealCas" => tt[w] < Count[victim[w]]
  BY OwnBottomRange, CountAssumption DEF IInv, TypeOK, LocalsOK, EndsOK

(* The invariant read at one slot of one deque.                            *)
LEMMA AtSlot ==
  ASSUME IInv, NEW d \in Workers, NEW k \in 0 .. Count[d] - 1
  PROVE  /\ k \in Nat
         /\ \A w \in Workers : chunks[w][<<d, k>>] \in Nat
         /\ k < top[d] => Claimed(<<d, k>>)
         /\ k >= OwnBottom(d) =>
                Claimed(<<d, k>>) \/ (pc[d] \in Popping /\ k = bb[d])
         /\ pc[d] \in PastOwn => Claimed(<<d, k>>)
         /\ \A w \in Workers : chunks[w][<<d, k>>] <= 1
         /\ \A w \in Workers \ {d} : chunks[w][<<d, k>>] > 0 => k < top[d]
         /\ chunks[d][<<d, k>>] > 0 /\ k >= top[d] =>
                k >= OwnBottom(d) /\ ~(pc[d] \in Popping /\ k = bb[d])
<1>1. <<d, k>> \in Islands
  BY IslandSlots
<1> QED BY <1>1, CountAssumption DEF IInv, TypeOK, Covered, Exclusive

(* A step of w that claims slot k of d, unclaimed so far, has to answer    *)
(* for that slot and for w's own deque.                                    *)
TopMoves(d, k) ==
    /\ top' \in [Workers -> Nat]
    /\ \A e \in Workers : top'[e] = top[e] \/ (e = d /\ top'[e] = k + 1)
    /\ \A e \in Workers : top[e] <= top'[e]
    /\ k <= top[d] \/ top' = top

OwnDequeAfter(w, d, k) ==
    /\ \A e \in Workers \ {w} : OwnBottom(e)' = OwnBottom(e)
    /\ \A j \in 0 .. Count[w] - 1 : j >= OwnBottom(w)' =>
           Claimed(<<w, j>>) \/ (d = w /\ j = k)
    /\ \A j \in 0 .. Count[w] - 1 :
           /\ chunks[w][<<w, j>>] > 0 \/ (d = w /\ j = k)
           /\ j >= top'[w]
           => j >= OwnBottom(w)'

(* A step that claims one slot, by a pop or by a steal, keeps IInv.        *)
LEMMA ClaimStep ==
  ASSUME IInv, NEW w \in Workers, NEW d \in Workers,
         NEW k \in 0 .. Count[d] - 1, Claim(w, d, k),
         TopMoves(d, k), OwnDequeAfter(w, d, k),
         \A v \in Workers : v # d \/ w = d => chunks[v][<<d, k>>] = 0,
         w # d => k < top'[d]
  PROVE  Covered' /\ Exclusive'
<1>i. TypeOK /\ LocalsOK /\ EndsOK /\ Covered /\ Exclusive
  BY DEF IInv
<1>t. /\ top' \in [Workers -> Nat]
      /\ \A e \in Workers : top'[e] = top[e] \/ (e = d /\ top'[e] = k + 1)
      /\ \A e \in Workers : top[e] <= top'[e]
      /\ k <= top[d] \/ top' = top
  BY DEF TopMoves
<1>e. /\ chunks'[w][<<d, k>>] = chunks[w][<<d, k>>] + 1
      /\ \A v, e \in Workers : \A j \in 0 .. Count[e] - 1 :
             v # w \/ e # d \/ j # k =>
                 chunks'[v][<<e, j>>] = chunks[v][<<e, j>>]
      /\ \A i \in Islands :
             Claimed(i) => \E v \in Workers : chunks'[v][i] > 0
      /\ \E v \in Workers : chunks'[v][<<d, k>>] > 0
      /\ pc' = [pc EXCEPT ![w] = "popBottom"]
      /\ bb' = [bb EXCEPT ![w] = 0]
  <2>1. /\ chunks'[w][<<d, k>>] = chunks[w][<<d, k>>] + 1
        /\ pc' = [pc EXCEPT ![w] = "popBottom"]
        /\ bb' = [bb EXCEPT ![w] = 0]
    BY <1>i, ClaimEffect, Zenon
  <2>2. \A v, e \in Workers : \A j \in 0 .. Count[e] - 1 :
            v # w \/ e # d \/ j # k =>
                chunks'[v][<<e, j>>] = chunks[v][<<e, j>>]
    <3>1. \A v \in Workers : \A j \in Islands :
              v # w \/ j # <<d, k>> => chunks'[v][j] = chunks[v][j]
      BY <1>i, ClaimEffect
    <3> QED BY <3>1, IslandSlots
  <2>3. \A i \in Islands :
            Claimed(i) => \E v \in Workers : chunks'[v][i] > 0
    BY <1>i, ClaimEffect
  <2>4. \E v \in Workers : chunks'[v][<<d, k>>] > 0
    BY <1>i, ClaimEffect
  <2> QED BY <2>1, <2>2, <2>3, <2>4
<1>p. /\ pc'[w] = "popBottom"
      /\ \A e \in Workers \ {w} : pc'[e] = pc[e] /\ bb'[e] = bb[e]
  BY <1>e, <1>i DEF TypeOK
<1>1. Covered'
  <2> SUFFICES ASSUME NEW e \in Workers, NEW j \in 0 .. Count[e] - 1
               PROVE  /\ j < top'[e] => (\E v \in Workers : chunks'[v][<<e, j>>] > 0)
                      /\ j >= OwnBottom(e)' =>
                             \/ (\E v \in Workers : chunks'[v][<<e, j>>] > 0)
                             \/ pc'[e] \in Popping /\ j = bb'[e]
                      /\ pc'[e] \in PastOwn => (\E v \in Workers : chunks'[v][<<e, j>>] > 0)
    BY DEF Covered, Claimed
  <2>1. Claimed(<<e, j>>) => (\E v \in Workers : chunks'[v][<<e, j>>] > 0)
    BY <1>e, IslandSlots
  <2>2. CASE e = d /\ j = k
    BY <2>2, <1>e
  <2>3. CASE e # d \/ j # k
    <3>1. /\ j < top[e] => Claimed(<<e, j>>)
          /\ j >= OwnBottom(e) =>
                 Claimed(<<e, j>>) \/ (pc[e] \in Popping /\ j = bb[e])
          /\ pc[e] \in PastOwn => Claimed(<<e, j>>)
      BY <1>i DEF Covered
    <3>2. j < top'[e] => Claimed(<<e, j>>)
      <4>1. top[e] \in Nat /\ j \in Nat /\ k \in Nat
        BY <1>i, CountAssumption DEF TypeOK
      <4>2. CASE top'[e] = top[e]
        BY <4>2, <3>1
      <4>3. CASE top'[e] # top[e]
        <5>1. e = d /\ top'[e] = k + 1 /\ k <= top[e]
          BY <4>3, <1>t
        <5> QED BY <5>1, <4>1, <3>1, <2>3
      <4> QED BY <4>2, <4>3
    <3>3. CASE e = w
      BY <3>2, <3>3, <2>1, <2>3, <1>p DEF OwnDequeAfter, Popping, PastOwn
    <3>4. CASE e # w
      BY <3>1, <3>2, <3>4, <2>1, <1>p DEF OwnDequeAfter
    <3> QED BY <3>3, <3>4
  <2> QED BY <2>2, <2>3
<1>2. Exclusive'
  <2> SUFFICES ASSUME NEW e \in Workers, NEW j \in 0 .. Count[e] - 1
               PROVE  /\ \A v \in Workers : chunks'[v][<<e, j>>] <= 1
                      /\ \A v \in Workers \ {e} :
                             chunks'[v][<<e, j>>] > 0 => j < top'[e]
                      /\ chunks'[e][<<e, j>>] > 0 /\ j >= top'[e] =>
                             /\ j >= OwnBottom(e)'
                             /\ ~(pc'[e] \in Popping /\ j = bb'[e])
                      /\ \A u, v \in Workers \ {e} :
                             chunks'[u][<<e, j>>] > 0 /\ chunks'[v][<<e, j>>] > 0
                                 => u = v
    BY DEF Exclusive
  <2>0. /\ \A v \in Workers : chunks[v][<<e, j>>] \in Nat
        /\ \A v \in Workers : chunks[v][<<e, j>>] <= 1
        /\ \A v \in Workers \ {e} : chunks[v][<<e, j>>] > 0 => j < top[e]
        /\ chunks[e][<<e, j>>] > 0 /\ j >= top[e] =>
               j >= OwnBottom(e) /\ ~(pc[e] \in Popping /\ j = bb[e])
        /\ \A u, v \in Workers \ {e} :
               chunks[u][<<e, j>>] > 0 /\ chunks[v][<<e, j>>] > 0 => u = v
        /\ top[e] \in Nat /\ top'[e] \in Nat /\ top[e] <= top'[e] /\ j \in Nat
    <3>1. <<e, j>> \in Islands
      BY IslandSlots
    <3>2. \A v \in Workers : chunks[v][<<e, j>>] \in Nat
      BY <3>1, <1>i DEF TypeOK
    <3>3. top[e] \in Nat /\ top'[e] \in Nat /\ top[e] <= top'[e] /\ j \in Nat
      BY <1>i, <1>t, CountAssumption DEF TypeOK
    <3> QED BY <3>2, <3>3, <1>i DEF Exclusive
  <2>2. CASE e = d /\ j = k
    <3>1. chunks'[w][<<e, j>>] = 1
      BY <2>2, <1>e
    <3>2. \A v \in Workers \ {w} : /\ chunks'[v][<<e, j>>] = chunks[v][<<e, j>>]
                                   /\ v # d \/ w = d => chunks'[v][<<e, j>>] = 0
      BY <2>2, <1>e
    <3>3. CASE e = w
      BY <2>0, <3>1, <3>2, <3>3, <2>2, <1>p DEF OwnDequeAfter, Popping
    <3>4. CASE e # w
      <4>1. \A v \in Workers : chunks'[v][<<e, j>>] <= 1
        <5> SUFFICES ASSUME NEW v \in Workers PROVE chunks'[v][<<e, j>>] <= 1
          OBVIOUS
        <5>1. CASE v = w
          BY <5>1, <3>1
        <5>2. CASE v # w
          BY <5>2, <2>0, <3>2
        <5> QED BY <5>1, <5>2
      <4>2. j < top'[e]
        BY <3>4, <2>2
      <4>3. \A v \in Workers \ {e} : chunks'[v][<<e, j>>] > 0 => v = w
        <5> SUFFICES ASSUME NEW v \in Workers \ {e}, v # w
                     PROVE  chunks'[v][<<e, j>>] = 0
          OBVIOUS
        <5> QED BY <3>2, <2>2
      <4> QED BY <4>1, <4>2, <4>3, <2>0
    <3> QED BY <3>3, <3>4
  <2>3. CASE e # d \/ j # k
    <3>1. \A v \in Workers : chunks'[v][<<e, j>>] = chunks[v][<<e, j>>]
      BY <2>3, <1>e
    <3>2. j >= top'[e] => j >= top[e]
      BY <2>0
    <3>3. \A v \in Workers \ {e} : chunks'[v][<<e, j>>] > 0 => j < top'[e]
      BY <2>0, <3>1
    <3>4. CASE e = w
      BY <2>0, <3>1, <3>2, <3>3, <3>4, <1>p DEF OwnDequeAfter, Popping
    <3>5. CASE e # w
      BY <2>0, <3>1, <3>2, <3>3, <3>5, <1>p DEF OwnDequeAfter
    <3> QED BY <3>4, <3>5
  <2> QED BY <2>2, <2>3
<1> QED BY <1>1, <1>2

(* The deques as propose_parallel deals them satisfy IInv.                 *)
THEOREM Initial == Init => IInv
<1> SUFFICES ASSUME Init PROVE IInv
  OBVIOUS
<1> USE CountAssumption
<1>1. TypeOK
  BY DEF Init, TypeOK, Labels
<1>2. LocalsOK /\ EndsOK
  BY DEF Init, LocalsOK, EndsOK, Popping
<1>3. Covered
  BY DEF Init, Covered, OwnBottom, Popping, PastOwn
<1>4. Exclusive
  <2> SUFFICES ASSUME NEW d \in Workers, NEW k \in 0 .. Count[d] - 1
               PROVE  \A w \in Workers : chunks[w][<<d, k>>] = 0
    BY DEF Exclusive
  <2>1. <<d, k>> \in Islands
    BY IslandSlots
  <2> QED BY <2>1 DEF Init
<1> QED BY <1>1, <1>2, <1>3, <1>4 DEF IInv

(* Every access of pop_bottom, steal and next_island, and every store that *)
(* reaches memory, keeps IInv.                                             *)
THEOREM Preserved == IInv /\ [Next]_vars => IInv'
<1> SUFFICES ASSUME IInv, [Next]_vars PROVE IInv'
  OBVIOUS
<1>i. TypeOK /\ LocalsOK /\ EndsOK /\ Covered /\ Exclusive
  BY DEF IInv
<1>u. CASE UNCHANGED vars
  BY <1>u DEF vars, IInv, TypeOK, LocalsOK, EndsOK, Covered, Exclusive,
     Claimed, OwnBottom
<1>1. ASSUME NEW w \in Workers, PopBottomEmpty(w) PROVE IInv'
  <2>s. \A d \in Workers : OwnBottom(d)' = OwnBottom(d)
    BY <1>1 DEF PopBottomEmpty, OwnBottom
  <2>p. /\ pc'[w] = "scan" /\ bb'[w] = 0
        /\ \A d \in Workers \ {w} : /\ pc'[d] = pc[d] /\ bb'[d] = bb[d]
                                    /\ tt'[d] = tt[d] /\ victim'[d] = victim[d]
    BY <1>1, <1>i DEF PopBottomEmpty, Scan, Claim, ReturnLocals, TypeOK
  <2>q. chunks' = chunks /\ top' = top
    BY <1>1 DEF PopBottomEmpty, Scan, Claim, ReturnLocals
  <2>1. TypeOK'
    BY <2>s, <1>1, <1>i, AtWorker DEF PopBottomEmpty, Scan, Claim, ReturnLocals, TypeOK, Labels
  <2>2. LocalsOK'
    <3>1. \A v \in Workers \ {w} :
              /\ OwnBottom(v)' = OwnBottom(v) /\ pc'[v] = pc[v] /\ bb'[v] = bb[v]
              /\ tt'[v] = tt[v] /\ victim'[v] = victim[v]
      BY <2>s, <2>p
    <3>2. /\ pc'[w] \in Popping => bb'[w] = OwnBottom(w)' /\ bb'[w] < Count[w]
          /\ pc'[w] = "popCas" => tt'[w] = bb'[w] /\ tt'[w] <= top'[w]
          /\ pc'[w] \in {"stealBottom", "stealCas"} =>
                 victim'[w] \in Workers \ {w} /\ tt'[w] <= top'[victim'[w]]
          /\ pc'[w] = "stealCas" => tt'[w] < Count[victim'[w]]
      BY <2>s, <2>p, <2>q, <1>1, <1>i, AtWorker DEF PopBottomEmpty, TypeOK, Popping
    <3> QED BY <3>1, <3>2, <2>q, <1>i DEF LocalsOK
  <2>3. EndsOK'
    BY <2>s, <2>q, <1>1, <1>i DEF PopBottomEmpty, EndsOK
  <2>5. ASSUME NEW k \in 0 .. Count[w] - 1
        PROVE  /\ k >= OwnBottom(w)' =>
                      Claimed(<<w, k>>) \/ (pc'[w] \in Popping /\ k = bb'[w])
               /\ pc'[w] \in PastOwn => Claimed(<<w, k>>)
               /\ chunks[w][<<w, k>>] > 0 /\ k >= top[w] =>
                      k >= OwnBottom(w)' /\ ~(pc'[w] \in Popping /\ k = bb'[w])
    BY <2>s, <2>p, <1>1, AtSlot, AtWorker DEF PopBottomEmpty, Popping, PastOwn
  <2>6. Covered' /\ Exclusive'
    BY <2>s, <2>p, <2>q, <2>5, <1>i, QuietStep
  <2> QED BY <2>1, <2>2, <2>3, <2>6 DEF IInv
<1>2. ASSUME NEW w \in Workers, PopBottom(w) PROVE IInv'
  <2>0. OwnBottom(w) - 1 \in Nat /\ OwnBottom(w) - 1 <= Count[w] /\ StoreBottom(w, OwnBottom(w) - 1)
    BY <1>2, AtWorker DEF PopBottom, Popping
  <2>s. /\ OwnBottom(w)' = OwnBottom(w) - 1
        /\ \A d \in Workers \ {w} : OwnBottom(d)' = OwnBottom(d)
        /\ bottom' \in [Workers -> Nat]
        /\ sb' \in [Workers -> Seq(Nat)]
        /\ \A d \in Workers :
              /\ bottom'[d] <= Count[d]
              /\ \A j \in 1 .. Len(sb'[d]) : sb'[d][j] <= Count[d]
              /\ ~StoreBuffering => sb'[d] = <<>>
    BY <2>0, <1>i, StoreBottomEffect
  <2>p. /\ pc'[w] = "popTop" /\ bb'[w] = OwnBottom(w) - 1
        /\ \A d \in Workers \ {w} : /\ pc'[d] = pc[d] /\ bb'[d] = bb[d]
                                    /\ tt'[d] = tt[d] /\ victim'[d] = victim[d]
    BY <1>2, <1>i DEF PopBottom, Scan, Claim, ReturnLocals, TypeOK
  <2>q. chunks' = chunks /\ top' = top
    BY <1>2 DEF PopBottom, Scan, Claim, ReturnLocals
  <2>1. TypeOK'
    BY <2>s, <1>2, <1>i, AtWorker DEF PopBottom, Scan, Claim, ReturnLocals, TypeOK, Labels
  <2>2. LocalsOK'
    <3>1. \A v \in Workers \ {w} :
              /\ OwnBottom(v)' = OwnBottom(v) /\ pc'[v] = pc[v] /\ bb'[v] = bb[v]
              /\ tt'[v] = tt[v] /\ victim'[v] = victim[v]
      BY <2>s, <2>p
    <3>2. /\ pc'[w] \in Popping => bb'[w] = OwnBottom(w)' /\ bb'[w] < Count[w]
          /\ pc'[w] = "popCas" => tt'[w] = bb'[w] /\ tt'[w] <= top'[w]
          /\ pc'[w] \in {"stealBottom", "stealCas"} =>
                 victim'[w] \in Workers \ {w} /\ tt'[w] <= top'[victim'[w]]
          /\ pc'[w] = "stealCas" => tt'[w] < Count[victim'[w]]
      BY <2>s, <2>p, <2>q, <1>2, AtWorker DEF PopBottom, Popping
    <3> QED BY <3>1, <3>2, <2>q, <1>i DEF LocalsOK
  <2>3. EndsOK'
    BY <2>s, <2>q, <1>2, <1>i DEF PopBottom, EndsOK
  <2>5. ASSUME NEW k \in 0 .. Count[w] - 1
        PROVE  /\ k >= OwnBottom(w)' =>
                      Claimed(<<w, k>>) \/ (pc'[w] \in Popping /\ k = bb'[w])
               /\ pc'[w] \in PastOwn => Claimed(<<w, k>>)
               /\ chunks[w][<<w, k>>] > 0 /\ k >= top[w] =>
                      k >= OwnBottom(w)' /\ ~(pc'[w] \in Popping /\ k = bb'[w])
    BY <2>s, <2>p, <1>2, AtSlot, AtWorker DEF PopBottom, Popping, PastOwn
  <2>6. Covered' /\ Exclusive'
    BY <2>s, <2>p, <2>q, <2>5, <1>i, QuietStep
  <2> QED BY <2>1, <2>2, <2>3, <2>6 DEF IInv
<1>3. ASSUME NEW w \in Workers, PopOvertaken(w) PROVE IInv'
  <2>0. bb[w] + 1 \in Nat /\ bb[w] + 1 <= Count[w] /\ StoreBottom(w, bb[w] + 1)
    BY <1>3, AtWorker DEF PopOvertaken, Popping
  <2>s. /\ OwnBottom(w)' = bb[w] + 1
        /\ \A d \in Workers \ {w} : OwnBottom(d)' = OwnBottom(d)
        /\ bottom' \in [Workers -> Nat]
        /\ sb' \in [Workers -> Seq(Nat)]
        /\ \A d \in Workers :
              /\ bottom'[d] <= Count[d]
              /\ \A j \in 1 .. Len(sb'[d]) : sb'[d][j] <= Count[d]
              /\ ~StoreBuffering => sb'[d] = <<>>
    BY <2>0, <1>i, StoreBottomEffect
  <2>p. /\ pc'[w] = "scan" /\ bb'[w] = 0
        /\ \A d \in Workers \ {w} : /\ pc'[d] = pc[d] /\ bb'[d] = bb[d]
                                    /\ tt'[d] = tt[d] /\ victim'[d] = victim[d]
    BY <1>3, <1>i DEF PopOvertaken, Scan, Claim, ReturnLocals, TypeOK
  <2>q. chunks' = chunks /\ top' = top
    BY <1>3 DEF PopOvertaken, Scan, Claim, ReturnLocals
  <2>1. TypeOK'
    BY <2>s, <1>3, <1>i, AtWorker DEF PopOvertaken, Scan, Claim, ReturnLocals, TypeOK, Labels
  <2>2. LocalsOK'
    <3>1. \A v \in Workers \ {w} :
              /\ OwnBottom(v)' = OwnBottom(v) /\ pc'[v] = pc[v] /\ bb'[v] = bb[v]
              /\ tt'[v] = tt[v] /\ victim'[v] = victim[v]
      BY <2>s, <2>p
    <3>2. /\ pc'[w] \in Popping => bb'[w] = OwnBottom(w)' /\ bb'[w] < Count[w]
          /\ pc'[w] = "popCas" => tt'[w] = bb'[w] /\ tt'[w] <= top'[w]
          /\ pc'[w] \in {"stealBottom", "stealCas"} =>
                 victim'[w] \in Workers \ {w} /\ tt'[w] <= top'[victim'[w]]
          /\ pc'[w] = "stealCas" => tt'[w] < Count[victim'[w]]
      BY <2>s, <2>p, <2>q, <1>3, <1>i, AtWorker DEF PopOvertaken, TypeOK, Popping
    <3> QED BY <3>1, <3>2, <2>q, <1>i DEF LocalsOK
  <2>3. EndsOK'
    BY <2>s, <2>q, <1>3, <1>i DEF PopOvertaken, EndsOK
  <2>5. ASSUME NEW k \in 0 .. Count[w] - 1
        PROVE  /\ k >= OwnBottom(w)' =>
                      Claimed(<<w, k>>) \/ (pc'[w] \in Popping /\ k = bb'[w])
               /\ pc'[w] \in PastOwn => Claimed(<<w, k>>)
               /\ chunks[w][<<w, k>>] > 0 /\ k >= top[w] =>
                      k >= OwnBottom(w)' /\ ~(pc'[w] \in Popping /\ k = bb'[w])
    BY <2>s, <2>p, <1>3, AtSlot, AtWorker DEF PopOvertaken, Popping, PastOwn
  <2>6. Covered' /\ Exclusive'
    BY <2>s, <2>p, <2>q, <2>5, <1>i, QuietStep
  <2> QED BY <2>1, <2>2, <2>3, <2>6 DEF IInv
<1>4. ASSUME NEW w \in Workers, PopTake(w) PROVE IInv'
  <2>s. \A d \in Workers : OwnBottom(d)' = OwnBottom(d)
    BY <1>4 DEF PopTake, OwnBottom
  <2>p. /\ pc'[w] = "popBottom" /\ bb'[w] = 0
        /\ \A d \in Workers \ {w} : /\ pc'[d] = pc[d] /\ bb'[d] = bb[d]
                                    /\ tt'[d] = tt[d] /\ victim'[d] = victim[d]
    BY <1>4, <1>i DEF PopTake, Scan, Claim, ReturnLocals, TypeOK
  <2>d. PICK d \in Workers, k \in Nat : d = w /\ k = bb[w]
    BY <1>4, AtWorker DEF PopTake
  <2>c. k \in 0 .. Count[d] - 1 /\ Claim(w, d, k)
    BY <2>d, <1>4, AtWorker DEF PopTake, Claim, Popping
  <2>e. chunks' \in [Workers -> [Islands -> Nat]]
    BY <2>c, <1>i, ClaimEffect
  <2>f. top[d] \in Nat /\ tt' = [tt EXCEPT ![w] = 0] /\ bb' = [bb EXCEPT ![w] = 0]
    BY <1>4, <1>i DEF PopTake, Claim, ReturnLocals, TypeOK
  <2>t. top' = top /\ k > top[d]
    BY <1>4, <2>d DEF PopTake
  <2>v. top' \in [Workers -> Nat] /\ \A e \in Workers : top'[e] = top[e]
    BY <2>t, <1>i DEF TypeOK
  <2>1. TypeOK'
    BY <2>s, <2>e, <2>v, <1>4, <1>i DEF PopTake, Claim, ReturnLocals, TypeOK, Labels
  <2>2. LocalsOK'
    <3>1. \A e \in Workers : top[e] \in Nat /\ top'[e] \in Nat /\ top[e] <= top'[e]
      <4> SUFFICES ASSUME NEW e \in Workers
                   PROVE  top[e] \in Nat /\ top'[e] \in Nat /\ top[e] <= top'[e]
        OBVIOUS
      <4>1. top[e] \in Nat
        BY <1>i DEF TypeOK
      <4>2. CASE e = d
        BY <4>1, <4>2, <2>v
      <4>3. CASE e # d
        BY <4>1, <4>3, <2>v
      <4> QED BY <4>2, <4>3
    <3> SUFFICES ASSUME NEW v \in Workers \ {w}
                 PROVE  /\ pc'[v] \in Popping =>
                               bb'[v] = OwnBottom(v)' /\ bb'[v] < Count[v]
                        /\ pc'[v] = "popCas" =>
                               tt'[v] = bb'[v] /\ tt'[v] <= top'[v]
                        /\ pc'[v] \in {"stealBottom", "stealCas"} =>
                               /\ victim'[v] \in Workers \ {v}
                               /\ tt'[v] <= top'[victim'[v]]
                        /\ pc'[v] = "stealCas" => tt'[v] < Count[victim'[v]]
      BY <2>p DEF LocalsOK, Popping
    <3>2. /\ OwnBottom(v)' = OwnBottom(v) /\ pc'[v] = pc[v] /\ bb'[v] = bb[v]
          /\ tt'[v] = tt[v] /\ victim'[v] = victim[v] /\ tt[v] \in Nat
      BY <2>s, <2>p, <1>i DEF TypeOK
    <3>3. /\ pc[v] \in Popping => bb[v] = OwnBottom(v) /\ bb[v] < Count[v]
          /\ pc[v] = "popCas" => tt[v] = bb[v] /\ tt[v] <= top[v]
          /\ pc[v] \in {"stealBottom", "stealCas"} =>
                 victim[v] \in Workers \ {v} /\ tt[v] <= top[victim[v]]
          /\ pc[v] = "stealCas" => tt[v] < Count[victim[v]]
      BY AtWorker
    <3> QED BY <3>1, <3>2, <3>3
  <2>3. EndsOK'
    <3>1. k + 1 <= Count[d] /\ Count[d] \in Nat
      BY <2>c, CountAssumption
    <3>2. \A e \in Workers : top'[e] <= Count[e]
      BY <3>1, <2>v, <2>t, <2>f, <1>i DEF EndsOK
    <3> QED BY <3>2, <2>s, <1>4, <1>i DEF PopTake, EndsOK
  <2>4. \A v \in Workers : v # d \/ w = d => chunks[v][<<d, k>>] = 0
    <3>1. /\ \A v \in Workers : chunks[v][<<d, k>>] \in Nat
          /\ \A v \in Workers \ {d} : chunks[v][<<d, k>>] > 0 => k < top[d]
          /\ chunks[d][<<d, k>>] > 0 /\ k >= top[d] =>
                 k >= OwnBottom(d) /\ ~(pc[d] \in Popping /\ k = bb[d])
      BY <2>c, AtSlot
    <3>2. pc[d] \in Popping /\ k = bb[d]
      BY <2>d, <1>4 DEF PopTake, Popping
    <3> QED BY <3>1, <3>2, <2>t, <2>f
  <2>5. \A j \in 0 .. Count[w] - 1 : j >= OwnBottom(w)' =>
            Claimed(<<w, j>>) \/ (d = w /\ j = k)
    BY <2>s, <2>d, <2>t, <2>f, <1>4, AtSlot, AtWorker DEF PopTake, Popping
  <2>6. \A j \in 0 .. Count[w] - 1 :
            /\ chunks[w][<<w, j>>] > 0 \/ (d = w /\ j = k)
            /\ j >= top'[w]
            => j >= OwnBottom(w)'
    BY <2>s, <2>d, <2>t, <2>v, <2>f, <1>4, AtSlot, AtWorker DEF PopTake, Popping
  <2>7. /\ \A e \in Workers : top'[e] = top[e] \/ (e = d /\ top'[e] = k + 1)
        /\ \A e \in Workers : top[e] <= top'[e]
        /\ k <= top[d] \/ top' = top
        /\ w # d => k < top'[d]
    BY <2>d, <2>t, <2>v, <2>f, <1>4, <1>i DEF PopTake, TypeOK
  <2>8. Covered' /\ Exclusive'
    <3>1. TopMoves(d, k) /\ OwnDequeAfter(w, d, k)
      BY <2>s, <2>v, <2>5, <2>6, <2>7 DEF TopMoves, OwnDequeAfter
    <3> QED BY <3>1, <2>c, <2>4, <2>7, ClaimStep
  <2> QED BY <2>1, <2>2, <2>3, <2>8 DEF IInv
<1>5. ASSUME NEW w \in Workers, PopLast(w) PROVE IInv'
  <2>s. \A d \in Workers : OwnBottom(d)' = OwnBottom(d)
    BY <1>5 DEF PopLast, OwnBottom
  <2>p. /\ pc'[w] = "popCas" /\ bb'[w] = bb[w]
        /\ \A d \in Workers \ {w} : /\ pc'[d] = pc[d] /\ bb'[d] = bb[d]
                                    /\ tt'[d] = tt[d] /\ victim'[d] = victim[d]
    BY <1>5, <1>i DEF PopLast, Scan, Claim, ReturnLocals, TypeOK
  <2>q. chunks' = chunks /\ top' = top
    BY <1>5 DEF PopLast, Scan, Claim, ReturnLocals
  <2>1. TypeOK'
    BY <2>s, <1>5, <1>i, AtWorker DEF PopLast, Scan, Claim, ReturnLocals, TypeOK, Labels
  <2>2. LocalsOK'
    <3>1. \A v \in Workers \ {w} :
              /\ OwnBottom(v)' = OwnBottom(v) /\ pc'[v] = pc[v] /\ bb'[v] = bb[v]
              /\ tt'[v] = tt[v] /\ victim'[v] = victim[v]
      BY <2>s, <2>p
    <3>2. /\ pc'[w] \in Popping => bb'[w] = OwnBottom(w)' /\ bb'[w] < Count[w]
          /\ pc'[w] = "popCas" => tt'[w] = bb'[w] /\ tt'[w] <= top'[w]
          /\ pc'[w] \in {"stealBottom", "stealCas"} =>
                 victim'[w] \in Workers \ {w} /\ tt'[w] <= top'[victim'[w]]
          /\ pc'[w] = "stealCas" => tt'[w] < Count[victim'[w]]
      BY <2>s, <2>p, <2>q, <1>5, <1>i, AtWorker DEF PopLast, TypeOK, Popping
    <3> QED BY <3>1, <3>2, <2>q, <1>i DEF LocalsOK
  <2>3. EndsOK'
    BY <2>s, <2>q, <1>5, <1>i DEF PopLast, EndsOK
  <2>5. ASSUME NEW k \in 0 .. Count[w] - 1
        PROVE  /\ k >= OwnBottom(w)' =>
                      Claimed(<<w, k>>) \/ (pc'[w] \in Popping /\ k = bb'[w])
               /\ pc'[w] \in PastOwn => Claimed(<<w, k>>)
               /\ chunks[w][<<w, k>>] > 0 /\ k >= top[w] =>
                      k >= OwnBottom(w)' /\ ~(pc'[w] \in Popping /\ k = bb'[w])
    BY <2>s, <2>p, <1>5, AtSlot, AtWorker DEF PopLast, Popping, PastOwn
  <2>6. Covered' /\ Exclusive'
    BY <2>s, <2>p, <2>q, <2>5, <1>i, QuietStep
  <2> QED BY <2>1, <2>2, <2>3, <2>6 DEF IInv
<1>6. ASSUME NEW w \in Workers, PopCasWon(w) PROVE IInv'
  <2>0. bb[w] + 1 \in Nat /\ bb[w] + 1 <= Count[w] /\ StoreBottom(w, bb[w] + 1)
    BY <1>6, AtWorker DEF PopCasWon, Popping
  <2>s. /\ OwnBottom(w)' = bb[w] + 1
        /\ \A d \in Workers \ {w} : OwnBottom(d)' = OwnBottom(d)
        /\ bottom' \in [Workers -> Nat]
        /\ sb' \in [Workers -> Seq(Nat)]
        /\ \A d \in Workers :
              /\ bottom'[d] <= Count[d]
              /\ \A j \in 1 .. Len(sb'[d]) : sb'[d][j] <= Count[d]
              /\ ~StoreBuffering => sb'[d] = <<>>
    BY <2>0, <1>i, StoreBottomEffect
  <2>p. /\ pc'[w] = "popBottom" /\ bb'[w] = 0
        /\ \A d \in Workers \ {w} : /\ pc'[d] = pc[d] /\ bb'[d] = bb[d]
                                    /\ tt'[d] = tt[d] /\ victim'[d] = victim[d]
    BY <1>6, <1>i DEF PopCasWon, Scan, Claim, ReturnLocals, TypeOK
  <2>d. PICK d \in Workers, k \in Nat : d = w /\ k = bb[w]
    BY <1>6, AtWorker DEF PopCasWon
  <2>c. k \in 0 .. Count[d] - 1 /\ Claim(w, d, k)
    BY <2>d, <1>6, AtWorker DEF PopCasWon, Claim, Popping
  <2>e. chunks' \in [Workers -> [Islands -> Nat]]
    BY <2>c, <1>i, ClaimEffect
  <2>f. top[d] \in Nat /\ tt' = [tt EXCEPT ![w] = 0] /\ bb' = [bb EXCEPT ![w] = 0]
    BY <1>6, <1>i DEF PopCasWon, Claim, ReturnLocals, TypeOK
  <2>t. top' = [top EXCEPT ![d] = k + 1] /\ k = top[d]
    BY <1>6, <2>d, AtWorker DEF PopCasWon
  <2>v. /\ top' \in [Workers -> Nat] /\ top'[d] = top[d] + 1
        /\ \A e \in Workers \ {d} : top'[e] = top[e]
    BY <2>t, <2>f, <1>i DEF TypeOK
  <2>1. TypeOK'
    BY <2>s, <2>e, <2>v, <1>6, <1>i DEF PopCasWon, Claim, ReturnLocals, TypeOK, Labels
  <2>2. LocalsOK'
    <3>1. \A e \in Workers : top[e] \in Nat /\ top'[e] \in Nat /\ top[e] <= top'[e]
      <4> SUFFICES ASSUME NEW e \in Workers
                   PROVE  top[e] \in Nat /\ top'[e] \in Nat /\ top[e] <= top'[e]
        OBVIOUS
      <4>1. top[e] \in Nat
        BY <1>i DEF TypeOK
      <4>2. CASE e = d
        BY <4>1, <4>2, <2>v
      <4>3. CASE e # d
        BY <4>1, <4>3, <2>v
      <4> QED BY <4>2, <4>3
    <3> SUFFICES ASSUME NEW v \in Workers \ {w}
                 PROVE  /\ pc'[v] \in Popping =>
                               bb'[v] = OwnBottom(v)' /\ bb'[v] < Count[v]
                        /\ pc'[v] = "popCas" =>
                               tt'[v] = bb'[v] /\ tt'[v] <= top'[v]
                        /\ pc'[v] \in {"stealBottom", "stealCas"} =>
                               /\ victim'[v] \in Workers \ {v}
                               /\ tt'[v] <= top'[victim'[v]]
                        /\ pc'[v] = "stealCas" => tt'[v] < Count[victim'[v]]
      BY <2>p DEF LocalsOK, Popping
    <3>2. /\ OwnBottom(v)' = OwnBottom(v) /\ pc'[v] = pc[v] /\ bb'[v] = bb[v]
          /\ tt'[v] = tt[v] /\ victim'[v] = victim[v] /\ tt[v] \in Nat
      BY <2>s, <2>p, <1>i DEF TypeOK
    <3>3. /\ pc[v] \in Popping => bb[v] = OwnBottom(v) /\ bb[v] < Count[v]
          /\ pc[v] = "popCas" => tt[v] = bb[v] /\ tt[v] <= top[v]
          /\ pc[v] \in {"stealBottom", "stealCas"} =>
                 victim[v] \in Workers \ {v} /\ tt[v] <= top[victim[v]]
          /\ pc[v] = "stealCas" => tt[v] < Count[victim[v]]
      BY AtWorker
    <3> QED BY <3>1, <3>2, <3>3
  <2>3. EndsOK'
    <3>1. k + 1 <= Count[d] /\ Count[d] \in Nat
      BY <2>c, CountAssumption
    <3>2. \A e \in Workers : top'[e] <= Count[e]
      BY <3>1, <2>v, <2>t, <2>f, <1>i DEF EndsOK
    <3> QED BY <3>2, <2>s, <1>6, <1>i DEF PopCasWon, EndsOK
  <2>4. \A v \in Workers : v # d \/ w = d => chunks[v][<<d, k>>] = 0
    <3>1. /\ \A v \in Workers : chunks[v][<<d, k>>] \in Nat
          /\ \A v \in Workers \ {d} : chunks[v][<<d, k>>] > 0 => k < top[d]
          /\ chunks[d][<<d, k>>] > 0 /\ k >= top[d] =>
                 k >= OwnBottom(d) /\ ~(pc[d] \in Popping /\ k = bb[d])
      BY <2>c, AtSlot
    <3>2. pc[d] \in Popping /\ k = bb[d]
      BY <2>d, <1>6 DEF PopCasWon, Popping
    <3> QED BY <3>1, <3>2, <2>t, <2>f
  <2>5. \A j \in 0 .. Count[w] - 1 : j >= OwnBottom(w)' =>
            Claimed(<<w, j>>) \/ (d = w /\ j = k)
    BY <2>s, <2>d, <2>t, <2>f, <1>6, AtSlot, AtWorker DEF PopCasWon, Popping
  <2>6. \A j \in 0 .. Count[w] - 1 :
            /\ chunks[w][<<w, j>>] > 0 \/ (d = w /\ j = k)
            /\ j >= top'[w]
            => j >= OwnBottom(w)'
    BY <2>s, <2>d, <2>t, <2>v, <2>f, <1>6, AtSlot, AtWorker DEF PopCasWon, Popping
  <2>7. /\ \A e \in Workers : top'[e] = top[e] \/ (e = d /\ top'[e] = k + 1)
        /\ \A e \in Workers : top[e] <= top'[e]
        /\ k <= top[d] \/ top' = top
        /\ w # d => k < top'[d]
    <3>1. \A e \in Workers : top[e] \in Nat
      BY <1>i DEF TypeOK
    <3>2. \A e \in Workers \ {d} : top[e] <= top'[e]
      BY <3>1, <2>v
    <3>3. top[d] <= top'[d] /\ k < top'[d] /\ k <= top[d] /\ top'[d] = k + 1
      BY <3>1, <2>t, <2>v
    <3> QED BY <3>2, <3>3, <2>v
  <2>8. Covered' /\ Exclusive'
    <3>1. TopMoves(d, k) /\ OwnDequeAfter(w, d, k)
      BY <2>s, <2>v, <2>5, <2>6, <2>7 DEF TopMoves, OwnDequeAfter
    <3> QED BY <3>1, <2>c, <2>4, <2>7, ClaimStep
  <2> QED BY <2>1, <2>2, <2>3, <2>8 DEF IInv
<1>7. ASSUME NEW w \in Workers, PopCasLost(w) PROVE IInv'
  <2>0. bb[w] + 1 \in Nat /\ bb[w] + 1 <= Count[w] /\ StoreBottom(w, bb[w] + 1)
    BY <1>7, AtWorker DEF PopCasLost, Popping
  <2>s. /\ OwnBottom(w)' = bb[w] + 1
        /\ \A d \in Workers \ {w} : OwnBottom(d)' = OwnBottom(d)
        /\ bottom' \in [Workers -> Nat]
        /\ sb' \in [Workers -> Seq(Nat)]
        /\ \A d \in Workers :
              /\ bottom'[d] <= Count[d]
              /\ \A j \in 1 .. Len(sb'[d]) : sb'[d][j] <= Count[d]
              /\ ~StoreBuffering => sb'[d] = <<>>
    BY <2>0, <1>i, StoreBottomEffect
  <2>p. /\ pc'[w] = "scan" /\ bb'[w] = 0
        /\ \A d \in Workers \ {w} : /\ pc'[d] = pc[d] /\ bb'[d] = bb[d]
                                    /\ tt'[d] = tt[d] /\ victim'[d] = victim[d]
    BY <1>7, <1>i DEF PopCasLost, Scan, Claim, ReturnLocals, TypeOK
  <2>q. chunks' = chunks /\ top' = top
    BY <1>7 DEF PopCasLost, Scan, Claim, ReturnLocals
  <2>1. TypeOK'
    BY <2>s, <1>7, <1>i, AtWorker DEF PopCasLost, Scan, Claim, ReturnLocals, TypeOK, Labels
  <2>2. LocalsOK'
    <3>1. \A v \in Workers \ {w} :
              /\ OwnBottom(v)' = OwnBottom(v) /\ pc'[v] = pc[v] /\ bb'[v] = bb[v]
              /\ tt'[v] = tt[v] /\ victim'[v] = victim[v]
      BY <2>s, <2>p
    <3>2. /\ pc'[w] \in Popping => bb'[w] = OwnBottom(w)' /\ bb'[w] < Count[w]
          /\ pc'[w] = "popCas" => tt'[w] = bb'[w] /\ tt'[w] <= top'[w]
          /\ pc'[w] \in {"stealBottom", "stealCas"} =>
                 victim'[w] \in Workers \ {w} /\ tt'[w] <= top'[victim'[w]]
          /\ pc'[w] = "stealCas" => tt'[w] < Count[victim'[w]]
      BY <2>s, <2>p, <2>q, <1>7, <1>i, AtWorker DEF PopCasLost, TypeOK, Popping
    <3> QED BY <3>1, <3>2, <2>q, <1>i DEF LocalsOK
  <2>3. EndsOK'
    BY <2>s, <2>q, <1>7, <1>i DEF PopCasLost, EndsOK
  <2>5. ASSUME NEW k \in 0 .. Count[w] - 1
        PROVE  /\ k >= OwnBottom(w)' =>
                      Claimed(<<w, k>>) \/ (pc'[w] \in Popping /\ k = bb'[w])
               /\ pc'[w] \in PastOwn => Claimed(<<w, k>>)
               /\ chunks[w][<<w, k>>] > 0 /\ k >= top[w] =>
                      k >= OwnBottom(w)' /\ ~(pc'[w] \in Popping /\ k = bb'[w])
    BY <2>s, <2>p, <1>7, AtSlot, AtWorker DEF PopCasLost, Popping, PastOwn
  <2>6. Covered' /\ Exclusive'
    BY <2>s, <2>p, <2>q, <2>5, <1>i, QuietStep
  <2> QED BY <2>1, <2>2, <2>3, <2>6 DEF IInv
<1>8. ASSUME NEW w \in Workers, ScanSelf(w) PROVE IInv'
  <2>s. \A d \in Workers : OwnBottom(d)' = OwnBottom(d)
    BY <1>8 DEF ScanSelf, OwnBottom
  <2>p. /\ pc'[w] = "scan" /\ bb'[w] = 0
        /\ \A d \in Workers \ {w} : /\ pc'[d] = pc[d] /\ bb'[d] = bb[d]
                                    /\ tt'[d] = tt[d] /\ victim'[d] = victim[d]
    BY <1>8, <1>i DEF ScanSelf, Scan, Claim, ReturnLocals, TypeOK
  <2>q. chunks' = chunks /\ top' = top
    BY <1>8 DEF ScanSelf, Scan, Claim, ReturnLocals
  <2>1. TypeOK'
    BY <2>s, <1>8, <1>i, AtWorker DEF ScanSelf, Scan, Claim, ReturnLocals, TypeOK, Labels
  <2>2. LocalsOK'
    <3>1. \A v \in Workers \ {w} :
              /\ OwnBottom(v)' = OwnBottom(v) /\ pc'[v] = pc[v] /\ bb'[v] = bb[v]
              /\ tt'[v] = tt[v] /\ victim'[v] = victim[v]
      BY <2>s, <2>p
    <3>2. /\ pc'[w] \in Popping => bb'[w] = OwnBottom(w)' /\ bb'[w] < Count[w]
          /\ pc'[w] = "popCas" => tt'[w] = bb'[w] /\ tt'[w] <= top'[w]
          /\ pc'[w] \in {"stealBottom", "stealCas"} =>
                 victim'[w] \in Workers \ {w} /\ tt'[w] <= top'[victim'[w]]
          /\ pc'[w] = "stealCas" => tt'[w] < Count[victim'[w]]
      BY <2>s, <2>p, <2>q, <1>8, <1>i, AtWorker DEF ScanSelf, TypeOK, Popping
    <3> QED BY <3>1, <3>2, <2>q, <1>i DEF LocalsOK
  <2>3. EndsOK'
    BY <2>s, <2>q, <1>8, <1>i DEF ScanSelf, EndsOK
  <2>5. ASSUME NEW k \in 0 .. Count[w] - 1
        PROVE  /\ k >= OwnBottom(w)' =>
                      Claimed(<<w, k>>) \/ (pc'[w] \in Popping /\ k = bb'[w])
               /\ pc'[w] \in PastOwn => Claimed(<<w, k>>)
               /\ chunks[w][<<w, k>>] > 0 /\ k >= top[w] =>
                      k >= OwnBottom(w)' /\ ~(pc'[w] \in Popping /\ k = bb'[w])
    BY <2>s, <2>p, <1>8, AtSlot, AtWorker DEF ScanSelf, Popping, PastOwn
  <2>6. Covered' /\ Exclusive'
    BY <2>s, <2>p, <2>q, <2>5, <1>i, QuietStep
  <2> QED BY <2>1, <2>2, <2>3, <2>6 DEF IInv
<1>9. ASSUME NEW w \in Workers, ScanEnd(w) PROVE IInv'
  <2>s. \A d \in Workers : OwnBottom(d)' = OwnBottom(d)
    BY <1>9 DEF ScanEnd, OwnBottom
  <2>p. /\ pc'[w] = "done" /\ bb'[w] = bb[w]
        /\ \A d \in Workers \ {w} : /\ pc'[d] = pc[d] /\ bb'[d] = bb[d]
                                    /\ tt'[d] = tt[d] /\ victim'[d] = victim[d]
    BY <1>9, <1>i DEF ScanEnd, Scan, Claim, ReturnLocals, TypeOK
  <2>q. chunks' = chunks /\ top' = top
    BY <1>9 DEF ScanEnd, Scan, Claim, ReturnLocals
  <2>1. TypeOK'
    BY <2>s, <1>9, <1>i, AtWorker DEF ScanEnd, Scan, Claim, ReturnLocals, TypeOK, Labels
  <2>2. LocalsOK'
    <3>1. \A v \in Workers \ {w} :
              /\ OwnBottom(v)' = OwnBottom(v) /\ pc'[v] = pc[v] /\ bb'[v] = bb[v]
              /\ tt'[v] = tt[v] /\ victim'[v] = victim[v]
      BY <2>s, <2>p
    <3>2. /\ pc'[w] \in Popping => bb'[w] = OwnBottom(w)' /\ bb'[w] < Count[w]
          /\ pc'[w] = "popCas" => tt'[w] = bb'[w] /\ tt'[w] <= top'[w]
          /\ pc'[w] \in {"stealBottom", "stealCas"} =>
                 victim'[w] \in Workers \ {w} /\ tt'[w] <= top'[victim'[w]]
          /\ pc'[w] = "stealCas" => tt'[w] < Count[victim'[w]]
      BY <2>s, <2>p, <2>q, <1>9, <1>i, AtWorker DEF ScanEnd, TypeOK, Popping
    <3> QED BY <3>1, <3>2, <2>q, <1>i DEF LocalsOK
  <2>3. EndsOK'
    BY <2>s, <2>q, <1>9, <1>i DEF ScanEnd, EndsOK
  <2>5. ASSUME NEW k \in 0 .. Count[w] - 1
        PROVE  /\ k >= OwnBottom(w)' =>
                      Claimed(<<w, k>>) \/ (pc'[w] \in Popping /\ k = bb'[w])
               /\ pc'[w] \in PastOwn => Claimed(<<w, k>>)
               /\ chunks[w][<<w, k>>] > 0 /\ k >= top[w] =>
                      k >= OwnBottom(w)' /\ ~(pc'[w] \in Popping /\ k = bb'[w])
    BY <2>s, <2>p, <1>9, AtSlot, AtWorker DEF ScanEnd, Popping, PastOwn
  <2>6. Covered' /\ Exclusive'
    BY <2>s, <2>p, <2>q, <2>5, <1>i, QuietStep
  <2> QED BY <2>1, <2>2, <2>3, <2>6 DEF IInv
<1>10. ASSUME NEW w \in Workers, StealTop(w) PROVE IInv'
  <2>s. \A d \in Workers : OwnBottom(d)' = OwnBottom(d)
    BY <1>10 DEF StealTop, OwnBottom
  <2>p. /\ pc'[w] = "stealBottom" /\ bb'[w] = bb[w]
        /\ \A d \in Workers \ {w} : /\ pc'[d] = pc[d] /\ bb'[d] = bb[d]
                                    /\ tt'[d] = tt[d] /\ victim'[d] = victim[d]
    BY <1>10, <1>i DEF StealTop, Scan, Claim, ReturnLocals, TypeOK
  <2>q. chunks' = chunks /\ top' = top
    BY <1>10 DEF StealTop, Scan, Claim, ReturnLocals
  <2>1. TypeOK'
    BY <2>s, <1>10, <1>i, AtWorker DEF StealTop, Scan, Claim, ReturnLocals, TypeOK, Labels
  <2>2. LocalsOK'
    <3>1. \A v \in Workers \ {w} :
              /\ OwnBottom(v)' = OwnBottom(v) /\ pc'[v] = pc[v] /\ bb'[v] = bb[v]
              /\ tt'[v] = tt[v] /\ victim'[v] = victim[v]
      BY <2>s, <2>p
    <3>2. /\ pc'[w] \in Popping => bb'[w] = OwnBottom(w)' /\ bb'[w] < Count[w]
          /\ pc'[w] = "popCas" => tt'[w] = bb'[w] /\ tt'[w] <= top'[w]
          /\ pc'[w] \in {"stealBottom", "stealCas"} =>
                 victim'[w] \in Workers \ {w} /\ tt'[w] <= top'[victim'[w]]
          /\ pc'[w] = "stealCas" => tt'[w] < Count[victim'[w]]
      BY <2>s, <2>p, <2>q, <1>10, <1>i, AtWorker DEF StealTop, TypeOK, Popping
    <3> QED BY <3>1, <3>2, <2>q, <1>i DEF LocalsOK
  <2>3. EndsOK'
    BY <2>s, <2>q, <1>10, <1>i DEF StealTop, EndsOK
  <2>5. ASSUME NEW k \in 0 .. Count[w] - 1
        PROVE  /\ k >= OwnBottom(w)' =>
                      Claimed(<<w, k>>) \/ (pc'[w] \in Popping /\ k = bb'[w])
               /\ pc'[w] \in PastOwn => Claimed(<<w, k>>)
               /\ chunks[w][<<w, k>>] > 0 /\ k >= top[w] =>
                      k >= OwnBottom(w)' /\ ~(pc'[w] \in Popping /\ k = bb'[w])
    BY <2>s, <2>p, <1>10, AtSlot, AtWorker DEF StealTop, Popping, PastOwn
  <2>6. Covered' /\ Exclusive'
    BY <2>s, <2>p, <2>q, <2>5, <1>i, QuietStep
  <2> QED BY <2>1, <2>2, <2>3, <2>6 DEF IInv
<1>11. ASSUME NEW w \in Workers, StealEmpty(w) PROVE IInv'
  <2>s. \A d \in Workers : OwnBottom(d)' = OwnBottom(d)
    BY <1>11 DEF StealEmpty, OwnBottom
  <2>p. /\ pc'[w] = "scan" /\ bb'[w] = 0
        /\ \A d \in Workers \ {w} : /\ pc'[d] = pc[d] /\ bb'[d] = bb[d]
                                    /\ tt'[d] = tt[d] /\ victim'[d] = victim[d]
    BY <1>11, <1>i DEF StealEmpty, Scan, Claim, ReturnLocals, TypeOK
  <2>q. chunks' = chunks /\ top' = top
    BY <1>11 DEF StealEmpty, Scan, Claim, ReturnLocals
  <2>1. TypeOK'
    BY <2>s, <1>11, <1>i, AtWorker DEF StealEmpty, Scan, Claim, ReturnLocals, TypeOK, Labels
  <2>2. LocalsOK'
    <3>1. \A v \in Workers \ {w} :
              /\ OwnBottom(v)' = OwnBottom(v) /\ pc'[v] = pc[v] /\ bb'[v] = bb[v]
              /\ tt'[v] = tt[v] /\ victim'[v] = victim[v]
      BY <2>s, <2>p
    <3>2. /\ pc'[w] \in Popping => bb'[w] = OwnBottom(w)' /\ bb'[w] < Count[w]
          /\ pc'[w] = "popCas" => tt'[w] = bb'[w] /\ tt'[w] <= top'[w]
          /\ pc'[w] \in {"stealBottom", "stealCas"} =>
                 victim'[w] \in Workers \ {w} /\ tt'[w] <= top'[victim'[w]]
          /\ pc'[w] = "stealCas" => tt'[w] < Count[victim'[w]]
      BY <2>s, <2>p, <2>q, <1>11, <1>i, AtWorker DEF StealEmpty, TypeOK, Popping
    <3> QED BY <3>1, <3>2, <2>q, <1>i DEF LocalsOK
  <2>3. EndsOK'
    BY <2>s, <2>q, <1>11, <1>i DEF StealEmpty, EndsOK
  <2>5. ASSUME NEW k \in 0 .. Count[w] - 1
        PROVE  /\ k >= OwnBottom(w)' =>
                      Claimed(<<w, k>>) \/ (pc'[w] \in Popping /\ k = bb'[w])
               /\ pc'[w] \in PastOwn => Claimed(<<w, k>>)
               /\ chunks[w][<<w, k>>] > 0 /\ k >= top[w] =>
                      k >= OwnBottom(w)' /\ ~(pc'[w] \in Popping /\ k = bb'[w])
    BY <2>s, <2>p, <1>11, AtSlot, AtWorker DEF StealEmpty, Popping, PastOwn
  <2>6. Covered' /\ Exclusive'
    BY <2>s, <2>p, <2>q, <2>5, <1>i, QuietStep
  <2> QED BY <2>1, <2>2, <2>3, <2>6 DEF IInv
<1>12. ASSUME NEW w \in Workers, StealBottom(w) PROVE IInv'
  <2>s. \A d \in Workers : OwnBottom(d)' = OwnBottom(d)
    BY <1>12 DEF StealBottom, OwnBottom
  <2>p. /\ pc'[w] = "stealCas" /\ bb'[w] = bb[w]
        /\ \A d \in Workers \ {w} : /\ pc'[d] = pc[d] /\ bb'[d] = bb[d]
                                    /\ tt'[d] = tt[d] /\ victim'[d] = victim[d]
    BY <1>12, <1>i DEF StealBottom, Scan, Claim, ReturnLocals, TypeOK
  <2>q. chunks' = chunks /\ top' = top
    BY <1>12 DEF StealBottom, Scan, Claim, ReturnLocals
  <2>1. TypeOK'
    BY <2>s, <1>12, <1>i, AtWorker DEF StealBottom, Scan, Claim, ReturnLocals, TypeOK, Labels
  <2>2. LocalsOK'
    <3>1. \A v \in Workers \ {w} :
              /\ OwnBottom(v)' = OwnBottom(v) /\ pc'[v] = pc[v] /\ bb'[v] = bb[v]
              /\ tt'[v] = tt[v] /\ victim'[v] = victim[v]
      BY <2>s, <2>p
    <3>2. /\ pc'[w] \in Popping => bb'[w] = OwnBottom(w)' /\ bb'[w] < Count[w]
          /\ pc'[w] = "popCas" => tt'[w] = bb'[w] /\ tt'[w] <= top'[w]
          /\ pc'[w] \in {"stealBottom", "stealCas"} =>
                 victim'[w] \in Workers \ {w} /\ tt'[w] <= top'[victim'[w]]
          /\ pc'[w] = "stealCas" => tt'[w] < Count[victim'[w]]
      BY <2>s, <2>p, <2>q, <1>12, AtWorker, <1>i, CountAssumption DEF EndsOK, TypeOK, StealBottom, Popping
    <3> QED BY <3>1, <3>2, <2>q, <1>i DEF LocalsOK
  <2>3. EndsOK'
    BY <2>s, <2>q, <1>12, <1>i DEF StealBottom, EndsOK
  <2>5. ASSUME NEW k \in 0 .. Count[w] - 1
        PROVE  /\ k >= OwnBottom(w)' =>
                      Claimed(<<w, k>>) \/ (pc'[w] \in Popping /\ k = bb'[w])
               /\ pc'[w] \in PastOwn => Claimed(<<w, k>>)
               /\ chunks[w][<<w, k>>] > 0 /\ k >= top[w] =>
                      k >= OwnBottom(w)' /\ ~(pc'[w] \in Popping /\ k = bb'[w])
    BY <2>s, <2>p, <1>12, AtSlot, AtWorker DEF StealBottom, Popping, PastOwn
  <2>6. Covered' /\ Exclusive'
    BY <2>s, <2>p, <2>q, <2>5, <1>i, QuietStep
  <2> QED BY <2>1, <2>2, <2>3, <2>6 DEF IInv
<1>13. ASSUME NEW w \in Workers, StealWon(w) PROVE IInv'
  <2>s. \A d \in Workers : OwnBottom(d)' = OwnBottom(d)
    BY <1>13 DEF StealWon, OwnBottom
  <2>p. /\ pc'[w] = "popBottom" /\ bb'[w] = 0
        /\ \A d \in Workers \ {w} : /\ pc'[d] = pc[d] /\ bb'[d] = bb[d]
                                    /\ tt'[d] = tt[d] /\ victim'[d] = victim[d]
    BY <1>13, <1>i DEF StealWon, Scan, Claim, ReturnLocals, TypeOK
  <2>d. PICK d \in Workers, k \in Nat : d = victim[w] /\ k = tt[w]
    BY <1>13, AtWorker DEF StealWon
  <2>c. k \in 0 .. Count[d] - 1 /\ Claim(w, d, k)
    BY <2>d, <1>13, AtWorker DEF StealWon, Claim, Popping
  <2>e. chunks' \in [Workers -> [Islands -> Nat]]
    BY <2>c, <1>i, ClaimEffect
  <2>f. top[d] \in Nat /\ tt' = [tt EXCEPT ![w] = 0] /\ bb' = [bb EXCEPT ![w] = 0]
    BY <1>13, <1>i DEF StealWon, Claim, ReturnLocals, TypeOK
  <2>t. top' = [top EXCEPT ![d] = k + 1] /\ k = top[d]
    BY <1>13, <2>d, AtWorker DEF StealWon
  <2>v. /\ top' \in [Workers -> Nat] /\ top'[d] = top[d] + 1
        /\ \A e \in Workers \ {d} : top'[e] = top[e]
    BY <2>t, <2>f, <1>i DEF TypeOK
  <2>1. TypeOK'
    BY <2>s, <2>e, <2>v, <1>13, <1>i DEF StealWon, Claim, ReturnLocals, TypeOK, Labels
  <2>2. LocalsOK'
    <3>1. \A e \in Workers : top[e] \in Nat /\ top'[e] \in Nat /\ top[e] <= top'[e]
      <4> SUFFICES ASSUME NEW e \in Workers
                   PROVE  top[e] \in Nat /\ top'[e] \in Nat /\ top[e] <= top'[e]
        OBVIOUS
      <4>1. top[e] \in Nat
        BY <1>i DEF TypeOK
      <4>2. CASE e = d
        BY <4>1, <4>2, <2>v
      <4>3. CASE e # d
        BY <4>1, <4>3, <2>v
      <4> QED BY <4>2, <4>3
    <3> SUFFICES ASSUME NEW v \in Workers \ {w}
                 PROVE  /\ pc'[v] \in Popping =>
                               bb'[v] = OwnBottom(v)' /\ bb'[v] < Count[v]
                        /\ pc'[v] = "popCas" =>
                               tt'[v] = bb'[v] /\ tt'[v] <= top'[v]
                        /\ pc'[v] \in {"stealBottom", "stealCas"} =>
                               /\ victim'[v] \in Workers \ {v}
                               /\ tt'[v] <= top'[victim'[v]]
                        /\ pc'[v] = "stealCas" => tt'[v] < Count[victim'[v]]
      BY <2>p DEF LocalsOK, Popping
    <3>2. /\ OwnBottom(v)' = OwnBottom(v) /\ pc'[v] = pc[v] /\ bb'[v] = bb[v]
          /\ tt'[v] = tt[v] /\ victim'[v] = victim[v] /\ tt[v] \in Nat
      BY <2>s, <2>p, <1>i DEF TypeOK
    <3>3. /\ pc[v] \in Popping => bb[v] = OwnBottom(v) /\ bb[v] < Count[v]
          /\ pc[v] = "popCas" => tt[v] = bb[v] /\ tt[v] <= top[v]
          /\ pc[v] \in {"stealBottom", "stealCas"} =>
                 victim[v] \in Workers \ {v} /\ tt[v] <= top[victim[v]]
          /\ pc[v] = "stealCas" => tt[v] < Count[victim[v]]
      BY AtWorker
    <3> QED BY <3>1, <3>2, <3>3
  <2>3. EndsOK'
    <3>1. k + 1 <= Count[d] /\ Count[d] \in Nat
      BY <2>c, CountAssumption
    <3>2. \A e \in Workers : top'[e] <= Count[e]
      BY <3>1, <2>v, <2>t, <2>f, <1>i DEF EndsOK
    <3> QED BY <3>2, <2>s, <1>13, <1>i DEF StealWon, EndsOK
  <2>4. \A v \in Workers : v # d \/ w = d => chunks[v][<<d, k>>] = 0
    <3>1. /\ \A v \in Workers : chunks[v][<<d, k>>] \in Nat
          /\ \A v \in Workers \ {d} : chunks[v][<<d, k>>] > 0 => k < top[d]
          /\ chunks[d][<<d, k>>] > 0 /\ k >= top[d] =>
                 k >= OwnBottom(d) /\ ~(pc[d] \in Popping /\ k = bb[d])
      BY <2>c, AtSlot
    <3>2. w # d
      BY <2>d, <1>13, AtWorker DEF StealWon
    <3> QED BY <3>1, <3>2, <2>t, <2>f
  <2>5. \A j \in 0 .. Count[w] - 1 : j >= OwnBottom(w)' =>
            Claimed(<<w, j>>) \/ (d = w /\ j = k)
    BY <2>s, <2>d, <2>t, <2>f, <1>13, AtSlot, AtWorker DEF StealWon, Popping
  <2>6. \A j \in 0 .. Count[w] - 1 :
            /\ chunks[w][<<w, j>>] > 0 \/ (d = w /\ j = k)
            /\ j >= top'[w]
            => j >= OwnBottom(w)'
    BY <2>s, <2>d, <2>t, <2>v, <2>f, <1>13, AtSlot, AtWorker DEF StealWon, Popping
  <2>7. /\ \A e \in Workers : top'[e] = top[e] \/ (e = d /\ top'[e] = k + 1)
        /\ \A e \in Workers : top[e] <= top'[e]
        /\ k <= top[d] \/ top' = top
        /\ w # d => k < top'[d]
    <3>1. \A e \in Workers : top[e] \in Nat
      BY <1>i DEF TypeOK
    <3>2. \A e \in Workers \ {d} : top[e] <= top'[e]
      BY <3>1, <2>v
    <3>3. top[d] <= top'[d] /\ k < top'[d] /\ k <= top[d] /\ top'[d] = k + 1
      BY <3>1, <2>t, <2>v
    <3> QED BY <3>2, <3>3, <2>v
  <2>8. Covered' /\ Exclusive'
    <3>1. TopMoves(d, k) /\ OwnDequeAfter(w, d, k)
      BY <2>s, <2>v, <2>5, <2>6, <2>7 DEF TopMoves, OwnDequeAfter
    <3> QED BY <3>1, <2>c, <2>4, <2>7, ClaimStep
  <2> QED BY <2>1, <2>2, <2>3, <2>8 DEF IInv
<1>14. ASSUME NEW w \in Workers, StealLost(w) PROVE IInv'
  <2>s. \A d \in Workers : OwnBottom(d)' = OwnBottom(d)
    BY <1>14 DEF StealLost, OwnBottom
  <2>p. /\ pc'[w] = "scan" /\ bb'[w] = 0
        /\ \A d \in Workers \ {w} : /\ pc'[d] = pc[d] /\ bb'[d] = bb[d]
                                    /\ tt'[d] = tt[d] /\ victim'[d] = victim[d]
    BY <1>14, <1>i DEF StealLost, Scan, Claim, ReturnLocals, TypeOK
  <2>q. chunks' = chunks /\ top' = top
    BY <1>14 DEF StealLost, Scan, Claim, ReturnLocals
  <2>1. TypeOK'
    BY <2>s, <1>14, <1>i, AtWorker DEF StealLost, Scan, Claim, ReturnLocals, TypeOK, Labels
  <2>2. LocalsOK'
    <3>1. \A v \in Workers \ {w} :
              /\ OwnBottom(v)' = OwnBottom(v) /\ pc'[v] = pc[v] /\ bb'[v] = bb[v]
              /\ tt'[v] = tt[v] /\ victim'[v] = victim[v]
      BY <2>s, <2>p
    <3>2. /\ pc'[w] \in Popping => bb'[w] = OwnBottom(w)' /\ bb'[w] < Count[w]
          /\ pc'[w] = "popCas" => tt'[w] = bb'[w] /\ tt'[w] <= top'[w]
          /\ pc'[w] \in {"stealBottom", "stealCas"} =>
                 victim'[w] \in Workers \ {w} /\ tt'[w] <= top'[victim'[w]]
          /\ pc'[w] = "stealCas" => tt'[w] < Count[victim'[w]]
      BY <2>s, <2>p, <2>q, <1>14, <1>i, AtWorker DEF StealLost, TypeOK, Popping
    <3> QED BY <3>1, <3>2, <2>q, <1>i DEF LocalsOK
  <2>3. EndsOK'
    BY <2>s, <2>q, <1>14, <1>i DEF StealLost, EndsOK
  <2>5. ASSUME NEW k \in 0 .. Count[w] - 1
        PROVE  /\ k >= OwnBottom(w)' =>
                      Claimed(<<w, k>>) \/ (pc'[w] \in Popping /\ k = bb'[w])
               /\ pc'[w] \in PastOwn => Claimed(<<w, k>>)
               /\ chunks[w][<<w, k>>] > 0 /\ k >= top[w] =>
                      k >= OwnBottom(w)' /\ ~(pc'[w] \in Popping /\ k = bb'[w])
    BY <2>s, <2>p, <1>14, AtSlot, AtWorker DEF StealLost, Popping, PastOwn
  <2>6. Covered' /\ Exclusive'
    BY <2>s, <2>p, <2>q, <2>5, <1>i, QuietStep
  <2> QED BY <2>1, <2>2, <2>3, <2>6 DEF IInv
<1>15. ASSUME NEW w \in Workers, Drain(w) PROVE IInv'
  <2>0. /\ Head(sb[w]) = sb[w][1] /\ sb[w] \in Seq(Nat) /\ Len(sb[w]) >= 1
        /\ sb'[w] = Tail(sb[w]) /\ bottom'[w] = sb[w][1]
        /\ \A d \in Workers \ {w} : sb'[d] = sb[d] /\ bottom'[d] = bottom[d]
    BY <1>15, <1>i DEF Drain, TypeOK
  <2>1. TypeOK'
    BY <2>0, <1>15, <1>i DEF Drain, TypeOK
  <2>2. \A d \in Workers : OwnBottom(d)' = OwnBottom(d)
    <3>1. OwnBottom(w)' = OwnBottom(w)
      <4>1. CASE Len(sb[w]) = 1
        BY <4>1, <2>0 DEF OwnBottom
      <4>2. CASE Len(sb[w]) > 1
        <5>1. Len(Tail(sb[w])) = Len(sb[w]) - 1
          BY <2>0
        <5>2. Tail(sb[w])[Len(sb[w]) - 1] = sb[w][Len(sb[w])]
          BY <2>0, <4>2
        <5>3. Len(sb'[w]) >= 1 /\ Len(<<>>) = 0
          BY <5>1, <4>2, <2>0
        <5>4. sb'[w] # <<>> /\ sb[w] # <<>>
          <6>1. ASSUME sb'[w] = <<>> PROVE FALSE
            <7>1. Len(sb'[w]) = Len(<<>>)
              BY <6>1
            <7> QED BY <7>1, <5>3
          <6> QED BY <6>1, <1>15 DEF Drain
        <5>5. sb'[w][Len(sb'[w])] = sb[w][Len(sb[w])]
          BY <5>1, <5>2, <2>0
        <5>6. OwnBottom(w)' = sb'[w][Len(sb'[w])]
          BY <5>4, Zenon DEF OwnBottom
        <5>7. OwnBottom(w) = sb[w][Len(sb[w])]
          BY <5>4, Zenon DEF OwnBottom
        <5> QED BY <5>5, <5>6, <5>7, Zenon
      <4>3. Len(sb[w]) \in Nat /\ Len(sb[w]) >= 1
        BY <2>0
      <4>4. \A n \in Nat : n >= 1 => n = 1 \/ n > 1
        OBVIOUS
      <4> QED BY <4>1, <4>2, <4>3, <4>4, Zenon
    <3> QED BY <3>1, <2>0 DEF OwnBottom
  <2>3. EndsOK'
    BY <2>0, <1>15, <1>i DEF Drain, EndsOK
  <2>4. LocalsOK' /\ Covered' /\ Exclusive'
    BY <1>15, <2>2, <1>i DEF Drain, LocalsOK, Covered, Exclusive, Claimed
  <2> QED BY <2>1, <2>2, <2>3, <2>4 DEF IInv
<1> QED
  BY <1>u, <1>1, <1>2, <1>3, <1>4, <1>5, <1>6, <1>7, <1>8, <1>9, <1>10, <1>11, <1>12, <1>13, <1>14, <1>15 DEF Next, Step


(* The inductive invariant holds in every reachable state.                 *)
THEOREM SpecIInv == Spec => []IInv
BY Initial, Preserved, PTL DEF Spec

(* The state of the deques and workers keeps its type.                     *)
THEOREM SpecTypeOK == Spec => []TypeOK
<1>1. IInv => TypeOK
  BY DEF IInv
<1> QED BY <1>1, SpecIInv, PTL

(* No island dealt by propose_parallel is dropped, whatever the memory     *)
(* order: all workers done means every owner is past its own pop.          *)
THEOREM SpecNoIslandLost == Spec => []NoIslandLost
<1>1. IInv => NoIslandLost
  <2> SUFFICES ASSUME IInv, AllDone, NEW i \in Islands
               PROVE  ChunksOf(i) # {}
    BY DEF NoIslandLost
  <2>1. PICK d \in Workers : \E k \in 0 .. Count[d] - 1 : i = <<d, k>>
    BY IslandSlots
  <2>k. PICK k \in 0 .. Count[d] - 1 : i = <<d, k>>
    BY <2>1
  <2>2. Claimed(i)
    BY <2>k DEF IInv, Covered, AllDone, PastOwn
  <2> QED BY <2>2 DEF Claimed, ChunksOf
<1> QED BY <1>1, SpecIInv, PTL

(* An island goes to at most one thief, and to every worker at most once.  *)
THEOREM SpecOneThiefAndOwnerOnce == Spec => []OneThiefAndOwnerOnce
<1>1. IInv => OneThiefAndOwnerOnce
  <2> SUFFICES ASSUME IInv, NEW i \in Islands
               PROVE  /\ \A w \in Workers : chunks[w][i] <= 1
                      /\ \A v, w \in ChunksOf(i) \ {i[1]} : v = w
    BY DEF OneThiefAndOwnerOnce
  <2>1. PICK d \in Workers : \E k \in 0 .. Count[d] - 1 : i = <<d, k>>
    BY IslandSlots
  <2>k. PICK k \in 0 .. Count[d] - 1 : i = <<d, k>>
    BY <2>1
  <2>2. i[1] = d
    BY <2>k
  <2> QED BY <2>k, <2>2 DEF IInv, Exclusive, ChunksOf
<1> QED BY <1>1, SpecIInv, PTL

(* A claim takes an island from the pool: after it the invariant bounds    *)
(* what the worker and the thieves hold, so nobody held too much before.   *)
LEMMA ClaimTakes ==
  ASSUME IInv, IInv', NEW w \in Workers, NEW d \in Workers,
         NEW k \in 0 .. Count[d] - 1, pc[w] # "done", Claim(w, d, k)
  PROVE  Pool!Take(w, <<d, k>>)
<1> DEFINE i == <<d, k>>
<1>1. i \in Islands /\ i[1] = d
  BY IslandSlots
<1>2. TypeOK
  BY DEF IInv
<1>3. /\ \A v \in Workers : chunks'[v][i] <= 1
      /\ \A u, v \in Workers \ {d} : chunks'[u][i] > 0 /\ chunks'[v][i] > 0 => u = v
  <2>1. Exclusive'
    BY DEF IInv
  <2> QED BY <2>1 DEF Exclusive
<1> HIDE DEF i
<1>4. /\ chunks' = [chunks EXCEPT ![w] = [chunks[w] EXCEPT ![i] = @ + 1]]
      /\ pc' = [pc EXCEPT ![w] = "popBottom"]
  BY DEF Claim, i
<1>5. /\ chunks'[w][i] = chunks[w][i] + 1
      /\ \A v \in Workers \ {w} : chunks'[v][i] = chunks[v][i]
      /\ \A v \in Workers : chunks[v][i] \in Nat
  BY <1>1, <1>2, <1>4 DEF TypeOK
<1>6. chunks[w][i] = 0
  BY <1>3, <1>5
<1>7. w # d => \A v \in Workers \ {d} : chunks[v][i] = 0
  BY <1>3, <1>5, <1>6
<1>8. {v \in Workers : pc'[v] = "done"} = {v \in Workers : pc[v] = "done"}
  BY <1>2, <1>4 DEF TypeOK
<1>9. [j \in Islands |-> j[1]][i] = d
  BY <1>1
<1>10. chunks' = [chunks EXCEPT ![w][i] = 1]
  BY <1>4, <1>6
<1>11. Pool!Take(w, i)
  BY <1>6, <1>7, <1>8, <1>9, <1>10 DEF Pool!Take
<1> QED BY <1>11 DEF i

(* Every step of the deques takes an island, lets a worker leave or is not *)
(* seen.                                                                   *)
LEMMA PoolStep == IInv /\ IInv' /\ [Next]_vars => [Pool!Next]_(Pool!vars)
<1> SUFFICES ASSUME IInv, IInv', [Next]_vars PROVE [Pool!Next]_(Pool!vars)
  OBVIOUS
<1>1. TypeOK
  BY DEF IInv
<1>2. ASSUME UNCHANGED chunks,
             \A w \in Workers : pc'[w] = "done" <=> pc[w] = "done"
      PROVE  UNCHANGED Pool!vars
  BY <1>2 DEF Pool!vars
<1>3. ASSUME NEW w \in Workers, PopTake(w) \/ PopCasWon(w) \/ StealWon(w)
      PROVE  Pool!Next
  <2>1. pc[w] # "done"
    BY <1>3 DEF PopTake, PopCasWon, StealWon
  <2>2. PICK d \in Workers, k \in Nat : k < Count[d] /\ Claim(w, d, k)
    <3>1. CASE PopTake(w) \/ PopCasWon(w)
      BY <1>1, <3>1 DEF PopTake, PopCasWon, TypeOK, IInv, LocalsOK, Popping
    <3>2. CASE StealWon(w)
      BY <1>1, <3>2 DEF StealWon, TypeOK, IInv, LocalsOK
    <3> QED BY <1>3, <3>1, <3>2
  <2>3. Pool!Take(w, <<d, k>>) /\ <<d, k>> \in Islands
    BY <2>1, <2>2, ClaimTakes, IslandSlots, CountAssumption
  <2> QED BY <2>3 DEF Pool!Next
<1>4. ASSUME NEW w \in Workers, ScanEnd(w) PROVE Pool!Next
  <2>1. pc[w] = "scan" /\ pc' = [pc EXCEPT ![w] = "done"] /\ chunks' = chunks
    BY <1>4 DEF ScanEnd
  <2>2. \A i \in Islands : i[1] = w => \E v \in Workers : chunks[v][i] > 0
    <3> SUFFICES ASSUME NEW i \in Islands, i[1] = w PROVE Claimed(i)
      BY DEF Claimed
    <3>1. PICK d \in Workers : \E k \in 0 .. Count[d] - 1 : i = <<d, k>>
      BY IslandSlots
    <3>2. PICK k \in 0 .. Count[d] - 1 : i = <<d, k>>
      BY <3>1
    <3> QED BY <2>1, <3>2 DEF IInv, Covered, PastOwn
  <2>3. {v \in Workers : pc'[v] = "done"} = {v \in Workers : pc[v] = "done"} \union {w}
    BY <1>1, <2>1 DEF TypeOK
  <2>4. Pool!Leave(w)
    BY <2>1, <2>2, <2>3 DEF Pool!Leave, Pool!Taken
  <2> QED BY <2>4 DEF Pool!Next
<1>5. ASSUME NEW w \in Workers,
             \/ PopBottomEmpty(w) \/ PopBottom(w) \/ PopOvertaken(w) \/ PopLast(w)
             \/ PopCasLost(w) \/ ScanSelf(w) \/ StealTop(w) \/ StealEmpty(w)
             \/ StealBottom(w) \/ StealLost(w) \/ Drain(w)
      PROVE  UNCHANGED Pool!vars
  <2>1. /\ chunks' = chunks
        /\ \/ pc' = pc
           \/ pc[w] # "done" /\ \E l \in Labels \ {"done"} : pc' = [pc EXCEPT ![w] = l]
    BY <1>5 DEF PopBottomEmpty, PopBottom, PopOvertaken, PopLast, PopCasLost, ScanSelf,
                StealTop, StealEmpty, StealBottom, StealLost, Drain, Scan, Labels
  <2>2. \A v \in Workers : pc'[v] = "done" <=> pc[v] = "done"
    BY <1>1, <2>1 DEF TypeOK
  <2> QED BY <1>2, <2>1, <2>2
<1>6. CASE UNCHANGED vars
  BY <1>2, <1>6 DEF vars
<1> QED BY <1>3, <1>4, <1>5, <1>6 DEF Next, Step

(* The deques implement the pool, under either memory order.               *)
THEOREM SpecImplementsPool == Spec => ImplementsPool
<1>1. Init => Pool!Init
  BY DEF Init, Pool!Init
<1> QED BY <1>1, SpecIInv, PoolStep, PTL DEF Spec, ImplementsPool, Pool!Spec


(***************************************************************************)
(* Without store buffering a thief about to CAS cannot hold the index of a *)
(* slot its owner took: it read bottom after the owner had lowered it.     *)
(***************************************************************************)
Apart ==
    \A d \in Workers : \A k \in 0 .. Count[d] - 1 :
        chunks[d][<<d, k>>] > 0 =>
            \A w \in Workers \ {d} :
                /\ chunks[w][<<d, k>>] = 0
                /\ pc[w] = "stealCas" /\ victim[w] = d /\ k >= top[d] =>
                       tt[w] # k

(* Without store buffering no step lets the owner and a thief both have a  *)
(* slot.                                                                   *)
LEMMA ApartStep ==
  ASSUME ~StoreBuffering, IInv, Apart, [Next]_vars
  PROVE  Apart'
<1>i. TypeOK /\ LocalsOK /\ EndsOK /\ Covered /\ Exclusive
  BY DEF IInv
<1> SUFFICES ASSUME NEW d \in Workers, NEW k \in 0 .. Count[d] - 1,
                    chunks'[d][<<d, k>>] > 0, NEW u \in Workers \ {d}
             PROVE  /\ chunks'[u][<<d, k>>] = 0
                    /\ pc'[u] = "stealCas" /\ victim'[u] = d /\ k >= top'[d] =>
                           tt'[u] # k
  BY DEF Apart
<1>1. /\ \A w \in Workers : chunks[w][<<d, k>>] \in Nat
      /\ \A w \in Workers \ {d} : chunks[w][<<d, k>>] > 0 => k < top[d]
      /\ chunks[d][<<d, k>>] > 0 /\ k >= top[d] =>
             k >= OwnBottom(d) /\ ~(pc[d] \in Popping /\ k = bb[d])
      /\ k \in Nat
  BY <1>i, AtSlot
<1>2. OwnBottom(d) = bottom[d]
  BY <1>i DEF EndsOK, OwnBottom
<1>3. chunks[d][<<d, k>>] > 0 =>
          /\ chunks[u][<<d, k>>] = 0
          /\ pc[u] = "stealCas" /\ victim[u] = d /\ k >= top[d] => tt[u] # k
  BY DEF Apart
<1>4. /\ top[d] \in Nat /\ tt[u] \in Nat /\ bb[d] \in Nat /\ bottom[d] \in Nat
      /\ pc[u] \in {"stealBottom", "stealCas"} =>
             victim[u] \in Workers \ {u} /\ tt[u] <= top[victim[u]]
  BY <1>i DEF TypeOK, LocalsOK
<1>c. CASE chunks' = chunks /\ top' = top
  <2>1. CASE pc'[u] # "stealCas"
    BY <2>1, <1>c, <1>3
  <2>2. CASE pc'[u] = pc[u] /\ victim'[u] = victim[u] /\ tt'[u] = tt[u]
    BY <2>2, <1>c, <1>3
  <2>3. CASE StealBottom(u)
    <3>1. victim'[u] = victim[u] /\ tt'[u] = tt[u] /\ tt[u] < bottom[victim[u]]
      BY <2>3 DEF StealBottom
    <3>2. CASE victim[u] = d
      BY <3>1, <3>2, <1>c, <1>1, <1>2, <1>3, <1>4
    <3>3. CASE victim[u] # d
      BY <3>1, <3>3, <1>c, <1>3
    <3> QED BY <3>2, <3>3
  <2>4. \/ pc'[u] # "stealCas" \/ StealBottom(u)
        \/ pc'[u] = pc[u] /\ victim'[u] = victim[u] /\ tt'[u] = tt[u]
    <3>1. CASE UNCHANGED vars
      BY <3>1 DEF vars
    <3>2. ASSUME NEW w \in Workers, Drain(w)
          PROVE  pc'[u] = pc[u] /\ victim'[u] = victim[u] /\ tt'[u] = tt[u]
      BY <3>2 DEF Drain
    <3>3. ASSUME NEW w \in Workers, Step(w), w # u
          PROVE  pc'[u] = pc[u] /\ victim'[u] = victim[u] /\ tt'[u] = tt[u]
      BY <3>3, <1>i DEF TypeOK, Step, PopBottomEmpty, PopBottom, PopOvertaken,
         PopTake, PopLast, PopCasWon, PopCasLost, ScanSelf, ScanEnd, StealTop,
         StealEmpty, StealBottom, StealWon, StealLost, Scan, Claim, ReturnLocals
    <3>4. ASSUME Step(u) PROVE pc'[u] # "stealCas" \/ StealBottom(u)
      BY <3>4, <1>i DEF TypeOK, Step, PopBottomEmpty, PopBottom, PopOvertaken,
         PopTake, PopLast, PopCasWon, PopCasLost, ScanSelf, ScanEnd, StealTop,
         StealEmpty, StealBottom, StealWon, StealLost, Scan, Claim, ReturnLocals
    <3> QED BY <3>1, <3>2, <3>3, <3>4 DEF Next
  <2> QED BY <2>1, <2>2, <2>3, <2>4
<1>5. ASSUME NEW w \in Workers, NEW e \in Workers, NEW j \in 0 .. Count[e] - 1,
             Claim(w, e, j),
             top[d] <= top'[d], top'[d] \in Nat,
             w = e => \A v \in Workers \ {e} : chunks[v][<<e, j>>] = 0,
             w # e => chunks[e][<<e, j>>] = 0,
             w = e => j < top'[e] \/ (j > top[e] /\ top' = top)
      PROVE  /\ chunks'[u][<<d, k>>] = 0
             /\ pc'[u] = "stealCas" /\ victim'[u] = d /\ k >= top'[d] =>
                    tt'[u] # k
  <2>1. /\ chunks'[w][<<e, j>>] = chunks[w][<<e, j>>] + 1
        /\ \A v \in Workers : \A i \in Islands :
               v # w \/ i # <<e, j>> => chunks'[v][i] = chunks[v][i]
    BY <1>5, <1>i, ClaimEffect
  <2>2. /\ pc'[w] = "popBottom"
        /\ \A v \in Workers \ {w} : /\ pc'[v] = pc[v] /\ tt'[v] = tt[v]
                                    /\ victim'[v] = victim[v]
    BY <1>5, <1>i DEF Claim, ReturnLocals, TypeOK
  <2>3. <<d, k>> \in Islands
    BY IslandSlots
  <2>4. CASE chunks[d][<<d, k>>] > 0
    <3>1. ~(w = u /\ e = d /\ j = k)
      BY <2>4, <1>5
    <3>2. chunks'[u][<<d, k>>] = chunks[u][<<d, k>>]
      BY <3>1, <2>1, <2>3
    <3>3. CASE u = w
      BY <3>2, <3>3, <2>2, <2>4, <1>3
    <3>4. CASE u # w
      BY <3>2, <3>4, <2>2, <2>4, <1>3, <1>4, <1>5, <1>1
    <3> QED BY <3>3, <3>4
  <2>5. CASE ~(chunks[d][<<d, k>>] > 0)
    <3>1. w = d /\ e = d /\ j = k
      BY <2>5, <2>1, <2>3
    <3>2. chunks'[u][<<d, k>>] = 0
      BY <3>1, <2>1, <2>3, <1>5
    <3>3. ASSUME pc'[u] = "stealCas", victim'[u] = d, k >= top'[d]
          PROVE  tt'[u] # k
      <4>1. tt'[u] = tt[u] /\ tt[u] <= top[d]
        BY <3>1, <3>3, <2>2, <1>4
      <4>2. k > top[d]
        BY <3>1, <3>3, <1>5, <1>1, <1>4
      <4> QED BY <4>1, <4>2, <1>1, <1>4
    <3> QED BY <3>2, <3>3
  <2> QED BY <2>4, <2>5
<1>6. ASSUME NEW w \in Workers, PopTake(w)
      PROVE  /\ chunks'[u][<<d, k>>] = 0
             /\ pc'[u] = "stealCas" /\ victim'[u] = d /\ k >= top'[d] =>
                    tt'[u] # k
  <2>1. PICK j \in Nat : j = bb[w]
    BY <1>6, AtWorker
  <2>2. /\ j \in 0 .. Count[w] - 1 /\ Claim(w, w, j)
        /\ top' = top /\ j > top[w] /\ top[w] \in Nat
    BY <2>1, <1>6, AtWorker DEF PopTake, Popping
  <2>3. \A v \in Workers \ {w} : chunks[v][<<w, j>>] = 0
    <3>1. \A v \in Workers \ {w} : /\ chunks[v][<<w, j>>] \in Nat
                                   /\ chunks[v][<<w, j>>] > 0 => j < top[w]
      BY <2>2, AtSlot
    <3> QED BY <3>1, <2>2
  <2> QED BY <2>2, <2>3, <1>4, <1>5
<1>7. ASSUME NEW w \in Workers, PopCasWon(w)
      PROVE  /\ chunks'[u][<<d, k>>] = 0
             /\ pc'[u] = "stealCas" /\ victim'[u] = d /\ k >= top'[d] =>
                    tt'[u] # k
  <2>1. PICK j \in Nat : j = bb[w]
    BY <1>7, AtWorker
  <2>2. /\ j \in 0 .. Count[w] - 1 /\ Claim(w, w, j)
        /\ top' = [top EXCEPT ![w] = @ + 1] /\ j = top[w] /\ top[w] \in Nat
    BY <2>1, <1>7, AtWorker DEF PopCasWon, Popping
  <2>3. \A v \in Workers \ {w} : chunks[v][<<w, j>>] = 0
    <3>1. \A v \in Workers \ {w} : /\ chunks[v][<<w, j>>] \in Nat
                                   /\ chunks[v][<<w, j>>] > 0 => j < top[w]
      BY <2>2, AtSlot
    <3> QED BY <3>1, <2>2
  <2>4. j < top'[w] /\ top[d] <= top'[d] /\ top'[d] \in Nat
    <3>1. top'[w] = top[w] + 1 /\ \A v \in Workers \ {w} : top'[v] = top[v]
      BY <2>2, <1>i DEF TypeOK
    <3>2. CASE d = w
      BY <3>1, <3>2, <2>2
    <3>3. CASE d # w
      BY <3>1, <3>3, <2>2, <1>4
    <3> QED BY <3>2, <3>3
  <2> QED BY <2>2, <2>3, <2>4, <1>5
<1>8. ASSUME NEW w \in Workers, StealWon(w)
      PROVE  /\ chunks'[u][<<d, k>>] = 0
             /\ pc'[u] = "stealCas" /\ victim'[u] = d /\ k >= top'[d] =>
                    tt'[u] # k
  <2>1. PICK e \in Workers \ {w}, j \in Nat : e = victim[w] /\ j = tt[w]
    BY <1>8, AtWorker DEF StealWon
  <2>2. /\ j \in 0 .. Count[e] - 1 /\ Claim(w, e, j)
        /\ top' = [top EXCEPT ![e] = @ + 1] /\ j = top[e] /\ top[e] \in Nat
    BY <2>1, <1>8, AtWorker DEF StealWon
  <2>3. chunks[e][<<e, j>>] = 0
    <3>1. chunks[e][<<e, j>>] \in Nat
      BY <2>2, AtSlot
    <3>2. chunks[e][<<e, j>>] > 0 => tt[w] # j
      <4>1. pc[w] = "stealCas" /\ victim[w] = e /\ j >= top[e]
        BY <2>1, <2>2, <1>8 DEF StealWon
      <4>2. w \in Workers \ {e}
        BY <2>1
      <4> QED BY <4>1, <4>2, <2>2 DEF Apart
    <3> QED BY <3>1, <3>2, <2>1
  <2>4. top[d] <= top'[d] /\ top'[d] \in Nat
    <3>1. top'[e] = top[e] + 1 /\ \A v \in Workers \ {e} : top'[v] = top[v]
      BY <2>2, <1>i DEF TypeOK
    <3>2. CASE d = e
      BY <3>1, <3>2, <2>2
    <3>3. CASE d # e
      BY <3>1, <3>3, <2>2, <1>4
    <3> QED BY <3>2, <3>3
  <2> QED BY <2>1, <2>2, <2>3, <2>4, <1>5
<1>9. \/ chunks' = chunks /\ top' = top
      \/ \E w \in Workers : PopTake(w) \/ PopCasWon(w) \/ StealWon(w)
  BY DEF Next, Step, vars, Drain, PopBottomEmpty, PopBottom, PopOvertaken,
     PopLast, PopCasLost, ScanSelf, ScanEnd, StealTop, StealEmpty, StealBottom,
     StealLost, Scan
<1> QED BY <1>c, <1>6, <1>7, <1>8, <1>9

(***************************************************************************)
(* When stores to bottom reach memory at once every island is claimed at   *)
(* most once, for any number of workers and islands: the `claims <= 1` of  *)
(* tests/loom_deque.rs, which checks one item and one thief.               *)
(***************************************************************************)
THEOREM SCClaimedOnce ==
  ASSUME ~StoreBuffering
  PROVE  Spec => []ClaimedOnce
<1>1. Init => Apart
  <2> SUFFICES ASSUME Init, NEW d \in Workers, NEW k \in 0 .. Count[d] - 1
               PROVE  chunks[d][<<d, k>>] = 0
    BY DEF Apart
  <2>1. <<d, k>> \in Islands
    BY IslandSlots
  <2> QED BY <2>1 DEF Init
<1>2. IInv /\ Apart /\ [Next]_vars => Apart'
  BY ApartStep
<1>3. IInv /\ Apart => ClaimedOnce
  <2> SUFFICES ASSUME IInv, Apart, NEW i \in Islands
               PROVE  /\ \A w \in Workers : chunks[w][i] <= 1
                      /\ \A v, w \in ChunksOf(i) : v = w
    BY DEF ClaimedOnce
  <2>1. PICK d \in Workers : \E k \in 0 .. Count[d] - 1 : i = <<d, k>>
    BY IslandSlots
  <2>2. PICK k \in 0 .. Count[d] - 1 : i = <<d, k>>
    BY <2>1
  <2>3. /\ \A w \in Workers : chunks[w][i] <= 1
        /\ \A v, w \in Workers \ {d} : chunks[v][i] > 0 /\ chunks[w][i] > 0 => v = w
    BY <2>2 DEF IInv, Exclusive
  <2>4. chunks[d][i] > 0 => \A w \in Workers \ {d} : chunks[w][i] = 0
    BY <2>2 DEF Apart
  <2> QED BY <2>3, <2>4 DEF ChunksOf
<1> QED BY <1>1, <1>2, <1>3, SpecIInv, PTL DEF Spec
=============================================================================
