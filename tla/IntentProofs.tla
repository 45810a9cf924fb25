----------------------------- MODULE IntentProofs -----------------------------
(***************************************************************************)
(* Proofs about the way of an intent, from the player to the kernel.       *)
(* FeelMapper, for all contracts, buttons and ticks: a press fires within  *)
(* its buffer, with support and in its window, and a buffer found overdue  *)
(* fails for ever.  NetSession, for every bound and every set of Skips:    *)
(* the intents the sim gets are of its epoch and in the order sent, and a  *)
(* client in session has the prefix the server had at its tick.            *)
(***************************************************************************)
EXTENDS FeelMapper, NetSession, WellFoundedInduction, SequenceTheorems, FiniteSetTheorems, TLAPS

Verbs == {"Use", "Drop", "Fire"}

Presses == [at : Nat, verb : Verbs]

FeelTypeOK ==
    /\ contract \in Contracts
    /\ now \in Nat
    /\ pending \in Seq(Presses)
    /\ lastGrounded \in Nat \union {Never} /\ actionStart \in Nat \union {Never}
    /\ out.ok \in BOOLEAN

(* The buffer is in the order of the presses, none of them to come: the    *)
(* front is the one that waits longest.                                    *)
OldestFirst(queue, stamp) ==
    /\ \A i \in DOMAIN queue : queue[i].at <= stamp
    /\ \A i, j \in DOMAIN queue : i < j => queue[i].at <= queue[j].at

(* The ghosts say what the mapper remembers of the support and the action. *)
Remembered ==
    /\ first = actionStart
    /\ lastGrounded # Never =>
         /\ lastGrounded <= now
         /\ now - lastGrounded <= contract.coyote => lastGrounded \in support

(* A sample fails because the front is overdue.                            *)
FailedOverdue == ~out.ok => Overdue(now)

IInv == /\ FeelTypeOK /\ OldestFirst(pending, now) /\ Remembered /\ FailedOverdue
        /\ FiredLegally

LEMMA NatMin ==
  ASSUME NEW T, T \subseteq Nat, T # {}
  PROVE  Min(T) \in T
<1> DEFINE R == {ss \in Nat \X Nat : ss[1] < ss[2]}
<1>1. IsWellFoundedOn(R, Nat)
  BY NatLessThanWellFounded, Zenon DEF OpToRel
<1>2. \A x, y \in Nat : x < y => <<x, y>> \in R
  OBVIOUS
<1> HIDE DEF R
<1>3. PICK x \in T : \A y \in T : ~(<<y, x>> \in R)
  BY <1>1, WFMin, Zenon
<1>4. \A y \in T : ~(y < x)
  BY <1>3, <1>2
<1>5. \A y \in T : x <= y
  BY <1>4
<1> QED BY <1>5 DEF Min

(* What is left when one element goes.                                     *)
LEMMA Removed ==
  ASSUME NEW S, NEW s \in Seq(S), NEW i \in 1 .. Len(s)
  PROVE  /\ RemoveAt(s, i) \in Seq(S) /\ DOMAIN RemoveAt(s, i) = 1 .. Len(s) - 1
         /\ \A j \in 1 .. Len(s) - 1 :
              RemoveAt(s, i)[j] = s[IF j < i THEN j ELSE j + 1]
<1> DEFINE a == SubSeq(s, 1, i - 1)
           b == SubSeq(s, i + 1, Len(s))
<1>0. Len(s) \in Nat /\ i \in Nat
  OBVIOUS
<1>1. /\ a \in Seq(S) /\ Len(a) = i - 1
      /\ \A j \in 1 .. i - 1 : a[j] = s[j]
  BY <1>0, SubSeqProperties
<1>2. /\ b \in Seq(S) /\ Len(b) = Len(s) - i
      /\ \A j \in 1 .. Len(s) - i : b[j] = s[i + j]
  <2>1. \A j \in i + 1 .. Len(s) : s[j] \in S
    BY <1>0
  <2>2. /\ b \in Seq(S)
        /\ Len(b) = IF i + 1 <= Len(s) THEN Len(s) - (i + 1) + 1 ELSE 0
        /\ \A j \in 1 .. Len(s) - (i + 1) + 1 : b[j] = s[(i + 1) + j - 1]
    BY <1>0, <2>1, SubSeqProperties
  <2>3. \A j \in Int : (i + 1) + j - 1 = i + j
    BY <1>0
  <2> QED BY <1>0, <2>2, <2>3
<1> HIDE DEF a, b
<1>3. /\ a \o b \in Seq(S) /\ Len(a \o b) = Len(s) - 1
      /\ \A j \in 1 .. Len(s) - 1 :
           (a \o b)[j] = IF j <= i - 1 THEN a[j] ELSE b[j - (i - 1)]
  <2>1. /\ a \o b \in Seq(S) /\ Len(a \o b) = Len(a) + Len(b)
        /\ \A j \in 1 .. Len(a) + Len(b) :
             (a \o b)[j] = IF j <= Len(a) THEN a[j] ELSE b[j - Len(a)]
    BY <1>1, <1>2, ConcatProperties
  <2>2. (i - 1) + (Len(s) - i) = Len(s) - 1
    BY <1>0
  <2> QED BY <1>1, <1>2, <2>1, <2>2
<1>4. ASSUME NEW j \in 1 .. Len(s) - 1
      PROVE  (a \o b)[j] = s[IF j < i THEN j ELSE j + 1]
  <2>0. j \in Int /\ (j < i \/ j >= i)
    BY <1>0
  <2>1. CASE j < i
    BY <1>0, <1>1, <1>3, <2>1
  <2>2. CASE j >= i
    <3>1. j - (i - 1) \in 1 .. Len(s) - i /\ i + (j - (i - 1)) = j + 1
      BY <1>0, <2>0, <2>2
    <3>2. (a \o b)[j] = b[j - (i - 1)] /\ b[j - (i - 1)] = s[j + 1]
      BY <1>0, <1>2, <1>3, <2>0, <2>2, <3>1
    <3> QED BY <1>0, <2>0, <2>2, <3>2
  <2> QED BY <2>0, <2>1, <2>2
<1>5. RemoveAt(s, i) = a \o b
  BY DEF RemoveAt, a, b
<1> QED BY <1>0, <1>3, <1>4, <1>5

(* Presses appended at the tick and taken from anywhere stay in order.     *)
LEMMA AppendedOldestFirst ==
  ASSUME NEW q \in Seq(Presses), NEW stamp \in Nat, OldestFirst(q, stamp),
         NEW v \in Verbs
  PROVE  LET r == Append(q, [at |-> stamp, verb |-> v])
         IN  /\ r \in Seq(Presses) /\ OldestFirst(r, stamp)
             /\ r # <<>> /\ (q # <<>> => r[1] = q[1]) /\ (q = <<>> => r[1].at = stamp)
<1> DEFINE p == [at |-> stamp, verb |-> v]
           r == Append(q, p)
<1>1. p \in Presses /\ p.at = stamp
  BY DEF Presses
<1> HIDE DEF p
<1>2. /\ r \in Seq(Presses) /\ Len(q) \in Nat /\ Len(r) = Len(q) + 1
      /\ DOMAIN q = 1 .. Len(q) /\ DOMAIN r = 1 .. Len(q) + 1
      /\ \A i \in DOMAIN q : r[i] = q[i] /\ q[i].at \in Nat
      /\ r[Len(q) + 1] = p
  <2>1. /\ r \in Seq(Presses) /\ Len(q) \in Nat /\ Len(r) = Len(q) + 1
        /\ \A i \in 1 .. Len(q) : r[i] = q[i]
        /\ r[Len(q) + 1] = p
    BY <1>1, AppendProperties
  <2>2. \A i \in DOMAIN q : q[i] \in Presses
    OBVIOUS
  <2> QED BY <2>1, <2>2 DEF Presses
<1> HIDE DEF r
<1>3. \A i \in DOMAIN r : i \in DOMAIN q \/ i = Len(q) + 1
  BY <1>2
<1>4. OldestFirst(r, stamp)
  <2>1. ASSUME NEW i \in DOMAIN r PROVE r[i].at <= stamp
    BY <1>1, <1>2, <1>3 DEF OldestFirst
  <2>2. ASSUME NEW i \in DOMAIN r, NEW j \in DOMAIN r, i < j
        PROVE  r[i].at <= r[j].at
    <3>1. i \in DOMAIN q
      BY <1>2, <2>2
    <3> QED BY <1>1, <1>2, <1>3, <2>1, <2>2, <3>1 DEF OldestFirst
  <2> QED BY <2>1, <2>2 DEF OldestFirst
<1>5. r # <<>> /\ (q # <<>> => r[1] = q[1]) /\ (q = <<>> => r[1].at = stamp)
  <2>1. q # <<>> => 1 \in DOMAIN q
    BY <1>2
  <2>2. q = <<>> => Len(q) + 1 = 1
    OBVIOUS
  <2> QED BY <1>1, <1>2, <2>1, <2>2
<1> QED BY <1>2, <1>4, <1>5 DEF p, r

LEMMA RemovedOldestFirst ==
  ASSUME NEW q \in Seq(Presses), NEW stamp \in Nat, OldestFirst(q, stamp),
         NEW i \in DOMAIN q
  PROVE  RemoveAt(q, i) \in Seq(Presses) /\ OldestFirst(RemoveAt(q, i), stamp)
<1> DEFINE r == RemoveAt(q, i)
           Old(j) == IF j < i THEN j ELSE j + 1
<1>0. Len(q) \in Nat /\ DOMAIN q = 1 .. Len(q) /\ i \in 1 .. Len(q)
  OBVIOUS
<1>1. /\ r \in Seq(Presses) /\ DOMAIN r = 1 .. Len(q) - 1
      /\ \A j \in DOMAIN r : r[j] = q[Old(j)]
  BY <1>0, Removed
<1>2. /\ \A j \in DOMAIN r : Old(j) \in DOMAIN q
      /\ \A j, k \in DOMAIN r : j < k => Old(j) < Old(k)
  BY <1>0, <1>1
<1> HIDE DEF r, Old
<1>3. OldestFirst(r, stamp)
  BY <1>1, <1>2 DEF OldestFirst
<1> QED BY <1>1, <1>3 DEF r

(* The verb mapped is one of the buttons held.                             *)
LEMMA MappedVerb ==
  ASSUME NEW held \in SUBSET Buttons
  PROVE  Mapped(held) \in Verbs \union {Idle} /\ Idle \notin Verbs
<1>1. Idle \notin Verbs
  BY DEF Idle, Verbs
<1>2. CASE held = {}
  BY <1>1, <1>2 DEF Mapped
<1>3. CASE held # {}
  <2>1. held \subseteq Verbs
    BY FeelAssumption DEF Verbs
  <2>2. \E v \in held : \A w \in held : Rank(v) <= Rank(w)
    <3>1. Rank("Use") = 2 /\ Rank("Drop") = 4 /\ Rank("Fire") = 6
      BY DEF Rank
    <3>2. CASE "Use" \in held
      BY <2>1, <3>1, <3>2 DEF Verbs
    <3>3. CASE "Use" \notin held /\ "Drop" \in held
      BY <2>1, <3>1, <3>3 DEF Verbs
    <3>4. CASE held = {"Fire"}
      BY <3>1, <3>4
    <3> QED BY <1>3, <2>1, <3>2, <3>3, <3>4 DEF Verbs
  <2>3. Mapped(held) \in held
    BY <1>3, <2>2 DEF Mapped
  <2> QED BY <1>1, <2>1, <2>3
<1> QED BY <1>2, <1>3

THEOREM Initial == FeelInit => IInv
  BY DEF FeelInit, IInv, FeelTypeOK, OldestFirst, Remembered, FailedOverdue, FiredLegally,
     Never, NoPress
(* A queue that waits no longer than the buffer, and what fires from it.   *)
LEMMA FrontWaitsLongest ==
  ASSUME contract \in Contracts, NEW q \in Seq(Presses), NEW stamp \in Nat,
         OldestFirst(q, stamp), q # <<>>, stamp - q[1].at <= contract.buffer,
         NEW i \in DOMAIN q
  PROVE  stamp - q[i].at \in 0 .. contract.buffer
<1>1. /\ 1 \in DOMAIN q /\ q[1] \in Presses /\ q[i] \in Presses /\ i >= 1
      /\ i \in Nat
  OBVIOUS
<1>2. q[1].at <= q[i].at /\ q[i].at <= stamp
  <2>1. CASE i = 1
    BY <1>1, <2>1 DEF OldestFirst, Presses
  <2>2. CASE i > 1
    BY <1>1, <2>2 DEF OldestFirst
  <2> QED BY <1>1, <2>1, <2>2
<1>3. contract.buffer \in Nat
  BY FeelAssumption
<1> QED BY <1>1, <1>2, <1>3 DEF Presses

THEOREM Preserved == IInv /\ [FeelNext]_feelVars => IInv'
<1> SUFFICES ASSUME IInv, [FeelNext]_feelVars PROVE IInv'
  OBVIOUS
<1>0. /\ FeelTypeOK /\ contract \in Contracts /\ now \in Nat /\ pending \in Seq(Presses)
      /\ lastGrounded \in Nat \union {Never} /\ actionStart \in Nat \union {Never}
      /\ OldestFirst(pending, now) /\ Remembered /\ FailedOverdue
      /\ contract.buffer \in Nat /\ contract.coyote \in Nat /\ LastTick \in Nat
      /\ Never \notin Nat
  BY FeelAssumption DEF IInv, FeelTypeOK, Never
<1>1. CASE UNCHANGED feelVars
  BY <1>1 DEF IInv, feelVars, FeelTypeOK, OldestFirst, Remembered, FailedOverdue, Overdue,
     FiredLegally
<1>2. CASE Sample
  <2>1. PICK stamp \in now .. LastTick, held \in SUBSET Buttons, grounded \in BOOLEAN :
          /\ now' = stamp /\ contract' = contract
          /\ support' = {t \in support \cup {IF grounded THEN stamp ELSE Never} :
                          t # Never /\ stamp - t <= contract.coyote}
          /\ Map(stamp, held, grounded)
          /\ first' = IF first = Never /\ out'.fired # NoPress THEN stamp ELSE first
    BY <1>2 DEF Sample
  <2> DEFINE ground == IF grounded THEN stamp ELSE lastGrounded
             press  == IF contract.toggle THEN AfterToggle(Mapped(held))
                       ELSE [verb |-> Mapped(held), down |-> toggleDown]
             queue  == IF press.verb = Idle THEN pending
                       ELSE Append(pending, [at |-> stamp, verb |-> press.verb])
             i      == Release(queue, stamp, ground)
  <2>2. /\ stamp \in Nat /\ stamp >= now
        /\ ground \in Nat \union {Never} /\ (ground # Never => ground <= stamp)
    BY <1>0 DEF Remembered
  <2>3. OldestFirst(pending, stamp)
    <3>1. \A j \in DOMAIN pending : pending[j].at \in Nat
      <4>1. \A j \in DOMAIN pending : pending[j] \in Presses
        BY <1>0
      <4> QED BY <4>1 DEF Presses
    <3> QED BY <1>0, <2>2, <3>1 DEF OldestFirst
  <2>4. press.verb \in Verbs \union {Idle}
    BY MappedVerb DEF AfterToggle
  <2>5. /\ queue \in Seq(Presses) /\ OldestFirst(queue, stamp)
        /\ queue # <<>> => \/ pending # <<>> /\ queue[1] = pending[1]
                           \/ queue[1].at = stamp
    <3>1. CASE press.verb = Idle
      BY <1>0, <2>3, <3>1
    <3>2. CASE press.verb # Idle
      <4>1. press.verb \in Verbs
        BY <2>4, <3>2
      <4> HIDE DEF press
      <4> QED BY <1>0, <2>2, <2>3, <3>2, <4>1, AppendedOldestFirst
    <3> QED BY <3>1, <3>2
  <2>6. /\ lastGrounded' = ground
        /\ \/ Overdue(stamp) /\ Fail
           \/ /\ ~Overdue(stamp)
              /\ pending' = IF i = 0 THEN queue ELSE RemoveAt(queue, i)
              /\ actionStart' = IF i # 0 /\ actionStart = Never THEN stamp ELSE actionStart
              /\ out' = [ok |-> TRUE, fired |-> IF i = 0 THEN NoPress ELSE queue[i]]
    BY <2>1 DEF Map
  <2> HIDE DEF press, queue
  <2>7. \/ i = 0
        \/ /\ i \in DOMAIN queue /\ i # 0
           /\ WindowAllows(queue[i].verb, stamp) /\ VerbAllowedNow(queue[i], stamp, ground)
    <3> DEFINE T == Legal(queue, stamp, ground)
    <3>1. T \subseteq Nat
      BY <2>5 DEF Legal
    <3>2. T # {} => Min(T) \in T
      BY <3>1, NatMin
    <3>3. i = IF T = {} THEN 0 ELSE Min(T)
      BY DEF Release
    <3>4. \A j \in T :
            /\ j \in DOMAIN queue /\ j # 0
            /\ WindowAllows(queue[j].verb, stamp) /\ VerbAllowedNow(queue[j], stamp, ground)
      BY <2>5 DEF Legal
    <3> HIDE DEF T, i
    <3> QED BY <3>2, <3>3, <3>4
  <2>8. ground # Never /\ stamp - ground <= contract.coyote => ground \in support'
    <3>1. CASE grounded
      BY <2>1, <2>2, <3>1
    <3>2. CASE ~grounded
      <4> SUFFICES ASSUME lastGrounded # Never, stamp - lastGrounded <= contract.coyote
                   PROVE  lastGrounded \in support'
        BY <3>2
      <4>1. now - lastGrounded <= contract.coyote
        BY <1>0, <2>2
      <4>2. lastGrounded \in support
        BY <1>0, <4>1 DEF Remembered
      <4> QED BY <2>1, <4>2
    <3> QED BY <3>1, <3>2
  <2> HIDE DEF ground, i
  <2>9. CASE Overdue(stamp) /\ Fail
    <3>1. /\ out' = [ok |-> FALSE, fired |-> NoPress]
          /\ pending' = pending /\ actionStart' = actionStart /\ first' = first
      BY <2>1, <2>9 DEF Fail
    <3>2. FeelTypeOK' /\ OldestFirst(pending', now')
      BY <1>0, <2>1, <2>2, <2>3, <2>6, <3>1 DEF FeelTypeOK
    <3>3. Remembered'
      BY <1>0, <2>1, <2>2, <2>6, <2>8, <3>1 DEF Remembered
    <3>4. FailedOverdue' /\ FiredLegally'
      BY <2>1, <2>9, <3>1 DEF FailedOverdue, Overdue, FiredLegally
    <3> QED BY <3>2, <3>3, <3>4 DEF IInv, OldestFirst
  <2>10. CASE ~Overdue(stamp) /\ i = 0
    <3>1. /\ out' = [ok |-> TRUE, fired |-> NoPress]
          /\ pending' = queue /\ actionStart' = actionStart /\ first' = first
      BY <2>1, <2>6, <2>10
    <3>2. FeelTypeOK' /\ OldestFirst(pending', now')
      BY <1>0, <2>1, <2>2, <2>5, <2>6, <3>1 DEF FeelTypeOK
    <3>3. Remembered'
      BY <1>0, <2>1, <2>2, <2>6, <2>8, <3>1 DEF Remembered
    <3>4. FailedOverdue' /\ FiredLegally'
      BY <3>1 DEF FailedOverdue, FiredLegally
    <3> QED BY <3>2, <3>3, <3>4 DEF IInv, OldestFirst
  <2>11. CASE ~Overdue(stamp) /\ i # 0
    <3> DEFINE p == queue[i]
    <3>1. /\ i \in DOMAIN queue /\ p \in Presses
          /\ WindowAllows(p.verb, stamp) /\ VerbAllowedNow(p, stamp, ground)
      BY <2>5, <2>7, <2>11
    <3>2. p # NoPress /\ p.verb \in Verbs /\ p.at \in Nat
      BY <1>0, <3>1 DEF Presses, NoPress
    <3>3. /\ out' = [ok |-> TRUE, fired |-> p] /\ pending' = RemoveAt(queue, i)
          /\ actionStart' = IF actionStart = Never THEN stamp ELSE actionStart
      BY <2>6, <2>11
    <3> HIDE DEF p
    <3>4. first' = actionStart'
      BY <1>0, <2>1, <3>2, <3>3 DEF Remembered
    <3>5. FeelTypeOK' /\ OldestFirst(pending', now')
      BY <1>0, <2>1, <2>2, <2>5, <2>6, <3>1, <3>3, RemovedOldestFirst DEF FeelTypeOK
    <3>6. Remembered'
      BY <1>0, <2>1, <2>2, <2>6, <2>8, <3>4 DEF Remembered
    <3>7. stamp - p.at \in 0 .. contract.buffer
      <4>1. queue # <<>>
        BY <3>1
      <4>2. stamp - queue[1].at <= contract.buffer
        <5>1. CASE pending # <<>> /\ queue[1] = pending[1]
          <6>1. Head(pending) = pending[1] /\ pending[1].at \in Nat
            <7>1. pending[1] \in Presses
              BY <1>0, <5>1
            <7> QED BY <7>1 DEF Presses
          <6> QED BY <1>0, <2>2, <2>11, <5>1, <6>1 DEF Overdue
        <5>2. CASE queue[1].at = stamp
          BY <1>0, <2>2, <5>2
        <5> QED BY <2>5, <4>1, <5>1, <5>2
      <4> QED BY <1>0, <2>2, <2>5, <3>1, <4>1, <4>2, FrontWaitsLongest DEF p
    <3>8. p.verb = "Fire" \/ support' # {}
      BY <2>8, <3>1, <3>2 DEF VerbAllowedNow, Verbs
    <3>9. \/ stamp = first'
          \/ \E w \in contract.windows :
               w.verb = p.verb /\ stamp - first' \in w.start .. w.end
      BY <1>0, <3>1, <3>3, <3>4 DEF WindowAllows
    <3>10. FailedOverdue' /\ FiredLegally'
      BY <2>1, <3>3, <3>7, <3>8, <3>9 DEF FailedOverdue, FiredLegally
    <3> QED BY <3>5, <3>6, <3>10 DEF IInv, OldestFirst
  <2> QED BY <2>6, <2>9, <2>10, <2>11
<1> QED BY <1>1, <1>2 DEF FeelNext

(* What fires is within its buffer, has the support its verb needs and is  *)
(* in a window of the action, for every contract and course of samples.    *)
THEOREM SpecFiredLegally == FeelSpec => []FiredLegally
<1>1. IInv => FiredLegally
  BY DEF IInv
<1> QED BY <1>1, Initial, Preserved, PTL DEF FeelSpec

(* Once a press outlived the buffer, every sample fails and nothing leaves.*)
THEOREM SpecOverdueIsFinal == FeelSpec => OverdueIsFinal
<1>1. IInv /\ [FeelNext]_feelVars => [~out.ok => ~out'.ok /\ pending' = pending]_feelVars
  <2> SUFFICES ASSUME IInv, Sample, ~out.ok
               PROVE  ~out'.ok /\ pending' = pending
    BY DEF FeelNext
  <2>1. /\ pending # <<>> /\ now - Head(pending).at > contract.buffer
        /\ contract \in Contracts /\ now \in Nat /\ pending \in Seq(Presses)
    BY DEF IInv, FailedOverdue, Overdue, FeelTypeOK
  <2>2. Head(pending).at \in Nat /\ contract.buffer \in Nat /\ LastTick \in Nat
    <3>1. Head(pending) \in Presses
      BY <2>1
    <3> QED BY <2>1, <3>1, FeelAssumption DEF Presses
  <2>3. PICK stamp \in now .. LastTick, held \in SUBSET Buttons, grounded \in BOOLEAN :
          Map(stamp, held, grounded)
    BY DEF Sample
  <2>4. Overdue(stamp)
    BY <2>1, <2>2 DEF Overdue
  <2> QED BY <2>3, <2>4 DEF Map, Fail
<1> QED BY <1>1, Initial, Preserved, PTL DEF FeelSpec, OverdueIsFinal

-----------------------------------------------------------------------------
(* The session.                                                            *)

Events == Nat \union {"epoch"}

Intents == [kind : {"intent"}, n : Nat, epoch : Nat]

UsedIntents == [n : Nat, sent : Nat, used : Nat]

UpPackets == [kind : {"hello"}, epoch : Nat] \union Intents

DownPackets ==
    [kind : {"hello"}, epoch : Nat, slot : Nat]
      \union [kind : {"snapshot", "resync"}, tick : Nat, epoch : Nat,
              prefix : Seq(Events)]
      \union [kind : {"trace"}, from : Nat, gen : Nat, events : Seq(Events)]
      \union [kind : {"interest"}, gen : Nat]

Joined(intent) == <<[intent |-> intent]>>

TypeOK ==
    /\ epoch \in Nat /\ tick \in Nat /\ gen \in Nat /\ slots \in Nat
    /\ cepoch \in Nat /\ sent \in Nat
    /\ cepoch <= epoch
    /\ prefix \in Seq(Events)
    /\ \/ slot = None \/ slot = Joined(None)
       \/ \E i \in Intents : slot = Joined(<<i>>)
    /\ up \in Seq(UpPackets) /\ down \in Seq(DownPackets)
    /\ consumed \in Seq(UsedIntents)

-----------------------------------------------------------------------------
(* The uplink: what the server consumed, what waits in the slot and what   *)
(* is on the wire are numbered in this order.                              *)

IsIntent(p) == p.kind = "intent"

(* Epochs and numbers grow along the wire.                                 *)
UpOrder ==
    /\ \A i \in DOMAIN up :
         up[i].epoch <= cepoch /\ (IsIntent(up[i]) => up[i].n <= sent)
    /\ \A i, j \in DOMAIN up : i < j =>
         /\ up[i].epoch <= up[j].epoch
         /\ IsIntent(up[i]) /\ IsIntent(up[j]) => up[i].n < up[j].n

(* Who is joined is in the server's epoch, and so is what it sent since.   *)
SlotOrder ==
    slot # None =>
        /\ cepoch = epoch
        /\ \A i \in DOMAIN up : up[i].epoch = epoch
        /\ slot[1].intent # None =>
             LET q == slot[1].intent[1]
             IN  /\ q.epoch = epoch /\ q.n <= sent
                 /\ \A i \in DOMAIN up : IsIntent(up[i]) => q.n < up[i].n

UsedOrder ==
    \A k \in DOMAIN consumed :
        /\ consumed[k].n <= sent
        /\ \A i \in DOMAIN up : IsIntent(up[i]) => consumed[k].n < up[i].n

UpInv == /\ TypeOK /\ UpOrder /\ SlotOrder /\ UsedOrder
         /\ EpochIntents /\ ConsumedInOrder

-----------------------------------------------------------------------------
(* The downlink: era[i] is the epoch in which the server sent down[i].     *)

(* The history holds the present and nothing later.                        *)
History ==
    /\ <<epoch, tick>> \in DOMAIN at /\ at[<<epoch, tick>>] = prefix
    /\ \A e, t \in Nat : <<e, t>> \in DOMAIN at =>
         e < epoch \/ (e = epoch /\ t <= tick)

(* A packet says what the history h says of its era.                       *)
Fits(p, e, h) ==
    /\ p.kind \in {"snapshot", "resync"} =>
         p.epoch = e /\ <<e, p.tick>> \in DOMAIN h /\ h[<<e, p.tick>>] = p.prefix
    /\ p.kind = "trace" =>
         /\ <<e, p.from>> \in DOMAIN h /\ <<e, p.from + 1>> \in DOMAIN h
         /\ h[<<e, p.from + 1>>] = h[<<e, p.from>>] \o p.events

(* A snapshot of era e among the packets of d after k and before l.        *)
Opens(d, era, e, k, l) ==
    \E j \in DOMAIN d : /\ k < j /\ j < l
                        /\ d[j].kind = "snapshot" /\ era[j] = e

(* No Trace of a later era without the snapshot that opened the session.   *)
EraOrder(d, era, h, top) ==
    /\ \A i \in DOMAIN d : era[i] \in 0 .. top /\ Fits(d[i], era[i], h)
    /\ \A k, i \in DOMAIN d : k < i =>
         /\ era[k] <= era[i]
         /\ d[i].kind = "trace" /\ era[k] < era[i] => Opens(d, era, era[i], k, i)

(* Who is joined was sent the snapshot of the server's epoch.              *)
ServerEra(era) ==
    slot # None =>
        \A k \in DOMAIN down : era[k] < epoch =>
            Opens(down, era, epoch, k, Len(down) + 1)

(* A client in session has only its epoch, or a later one from its         *)
(* snapshot on, on the wire.                                               *)
ClientEra(era) ==
    status = "up" /\ saw =>
        \A i \in DOMAIN down :
            /\ era[i] >= cepoch
            /\ down[i].kind = "trace" /\ era[i] > cepoch
                 => Opens(down, era, era[i], 0, i)

DownInv ==
    /\ History /\ InStep
    /\ \E era \in [1 .. Len(down) -> Nat] :
         EraOrder(down, era, at, epoch) /\ ServerEra(era) /\ ClientEra(era)

-----------------------------------------------------------------------------
(* What a step does to a queue.                                            *)

LEMMA TailQueue ==
  ASSUME NEW S, NEW q \in Seq(S), q # <<>>
  PROVE  /\ Tail(q) \in Seq(S) /\ 1 \in DOMAIN q /\ Head(q) = q[1] /\ q[1] \in S
         /\ Len(q) \in Nat \ {0} /\ Len(Tail(q)) = Len(q) - 1
         /\ DOMAIN q = 1 .. Len(q) /\ DOMAIN Tail(q) = 1 .. Len(q) - 1
         /\ \A i \in DOMAIN Tail(q) : i + 1 \in DOMAIN q /\ Tail(q)[i] = q[i + 1]
  OBVIOUS

LEMMA AppendQueue ==
  ASSUME NEW S, NEW q \in Seq(S), NEW x \in S
  PROVE  /\ Append(q, x) \in Seq(S) /\ Len(q) \in Nat
         /\ Len(Append(q, x)) = Len(q) + 1
         /\ DOMAIN q = 1 .. Len(q) /\ DOMAIN Append(q, x) = 1 .. Len(q) + 1
         /\ \A i \in DOMAIN q : Append(q, x)[i] = q[i]
         /\ Append(q, x)[Len(q) + 1] = x
  OBVIOUS

LEMMA ConcatQueue ==
  ASSUME NEW S, NEW q \in Seq(S), NEW r \in Seq(S)
  PROVE  /\ q \o r \in Seq(S) /\ Len(q) \in Nat /\ Len(r) \in Nat
         /\ Len(q \o r) = Len(q) + Len(r)
         /\ DOMAIN q = 1 .. Len(q) /\ DOMAIN r = 1 .. Len(r)
         /\ DOMAIN (q \o r) = 1 .. Len(q) + Len(r)
         /\ \A i \in DOMAIN q : (q \o r)[i] = q[i]
         /\ \A i \in DOMAIN (q \o r) : i > Len(q) =>
              i - Len(q) \in DOMAIN r /\ (q \o r)[i] = r[i - Len(q)]
  OBVIOUS

LEMMA SlotCases ==
  ASSUME TypeOK
  PROVE  /\ Joined(None) # None /\ Joined(None)[1].intent = None
         /\ \A i : /\ Joined(<<i>>) # None /\ <<i>> # None
                   /\ Joined(<<i>>)[1].intent = <<i>>
                   /\ Joined(<<i>>)[1].intent[1] = i
         /\ slot # None /\ slot[1].intent # None =>
              /\ slot[1].intent[1] \in Intents
              /\ slot = Joined(<<slot[1].intent[1]>>)
<1>1. \A x : Joined(x) # None /\ Joined(x)[1].intent = x
  BY DEF Joined, None
<1>2. \A i : <<i>> # None /\ <<i>>[1] = i
  BY DEF None
<1> QED BY <1>1, <1>2 DEF TypeOK

-----------------------------------------------------------------------------
(* Types.                                                                  *)

THEOREM TypesInitial == Init => TypeOK
  BY DEF Init, TypeOK, None, Events, UpPackets, DownPackets

LEMMA DownAppends ==
  ASSUME TypeOK, NEW r \in Seq(DownPackets)
  PROVE  down \o r \in Seq(DownPackets)
  BY ConcatQueue DEF TypeOK

(* The packets a server of these types sends.                              *)
LEMMA Packets ==
  ASSUME TypeOK
  PROVE  /\ Snapshot \in DownPackets
         /\ [kind |-> "hello", epoch |-> epoch, slot |-> slots] \in DownPackets
         /\ \A g \in Nat : [kind |-> "interest", gen |-> g] \in DownPackets
         /\ [kind |-> "resync", tick |-> tick, epoch |-> epoch,
             prefix |-> prefix] \in DownPackets
         /\ \A s \in Seq(Events) :
              [kind |-> "trace", from |-> tick, gen |-> gen,
               events |-> s] \in DownPackets
  BY DEF TypeOK, Snapshot, DownPackets

LEMMA Types ==
  ASSUME TypeOK, [Next]_vars
  PROVE  TypeOK'
<1> USE NetAssumption
<1>0. /\ epoch \in Nat /\ tick \in Nat /\ gen \in Nat /\ slots \in Nat
      /\ cepoch \in Nat /\ sent \in Nat
  BY DEF TypeOK
<1>1. CASE SayHello
  <2>1. [kind |-> "hello", epoch |-> cepoch] \in UpPackets
    BY <1>0 DEF UpPackets
  <2>2. up' \in Seq(UpPackets)
    BY <1>1, <2>1, AppendQueue DEF SayHello, TypeOK
  <2> QED BY <1>1, <2>2 DEF SayHello, TypeOK, serverVars, clientVars
<1>2. CASE SendIntent
  <2>1. [kind |-> "intent", n |-> sent', epoch |-> cepoch] \in UpPackets
    BY <1>0, <1>2 DEF SendIntent, UpPackets, Intents
  <2>2. up' \in Seq(UpPackets)
    BY <1>2, <2>1, AppendQueue DEF SendIntent, TypeOK
  <2>3. sent' \in Nat
    BY <1>0, <1>2 DEF SendIntent
  <2> QED BY <1>2, <2>2, <2>3 DEF SendIntent, TypeOK, serverVars, clientVars
<1>3. CASE InstallDownloaded
  <2>1. cepoch' \in Nat /\ cepoch' <= epoch
    BY <1>0, <1>3 DEF InstallDownloaded
  <2> QED BY <1>3, <2>1 DEF InstallDownloaded, TypeOK, serverVars
<1>4. CASE HandleHello
  <2>1. up' \in Seq(UpPackets)
    BY <1>4, TailQueue DEF HandleHello, Take, TypeOK
  <2>2. down' \in Seq(DownPackets)
    <3> DEFINE r == <<[kind |-> "hello", epoch |-> epoch, slot |-> slots],
                      Snapshot, [kind |-> "interest", gen |-> 0]>>
    <3>1. r \in Seq(DownPackets)
      BY Packets
    <3>2. down \o r \in Seq(DownPackets)
      BY <3>1, DownAppends
    <3>3. down' \in {down, down \o r}
      BY <1>4 DEF HandleHello
    <3> QED BY <3>2, <3>3 DEF TypeOK
  <2>3. /\ gen' \in Nat /\ slots' \in Nat /\ (slot' = slot \/ slot' = Joined(None))
    BY <1>0, <1>4 DEF HandleHello, Joined
  <2> QED BY <1>0, <1>4, <2>1, <2>2, <2>3
        DEF HandleHello, TypeOK, clientVars
<1>5. CASE HandleIntent
  <2>1. up' \in Seq(UpPackets) /\ Head(up) \in UpPackets /\ Head(up).kind = "intent"
    BY <1>5, TailQueue DEF HandleIntent, Take, TypeOK
  <2>2. Head(up) \in Intents
    BY <2>1 DEF UpPackets, Intents
  <2>3. slot' = slot \/ slot' = Joined(<<Head(up)>>)
    BY <1>5 DEF HandleIntent, Queue, Joined
  <2> QED BY <1>5, <2>1, <2>2, <2>3 DEF HandleIntent, TypeOK, clientVars
<1>6. CASE Consume
  <2>1. slot[1].intent[1] \in Intents
    BY <1>6, SlotCases DEF Consume
  <2>2. consumed' \in Seq(UsedIntents)
    <3> DEFINE i == slot[1].intent[1]
               x == [n |-> i.n, sent |-> i.epoch, used |-> epoch]
    <3>1. x \in UsedIntents
      BY <1>0, <2>1 DEF Intents, UsedIntents
    <3>2. consumed' = Append(consumed, x)
      BY <1>6 DEF Consume
    <3> QED BY <3>1, <3>2, AppendQueue DEF TypeOK
  <2> QED BY <1>6, <2>2 DEF Consume, TypeOK, Joined, clientVars
<1>7. CASE FlushDelta
  <2>1. PICK events \in {<<>>, <<tick>>} :
          /\ prefix' = prefix \o events
          /\ Send(<<[kind |-> "trace", from |-> tick, gen |-> gen,
                     events |-> events]>>)
    BY <1>7 DEF FlushDelta
  <2>2. events \in Seq(Events)
    <3>1. tick \in Events
      BY <1>0 DEF Events
    <3>2. <<>> \in Seq(Events) /\ <<tick>> \in Seq(Events)
      BY <3>1
    <3> QED BY <3>2, <2>1
  <2>3. prefix' \in Seq(Events)
    BY <2>1, <2>2, ConcatQueue DEF TypeOK
  <2>4. <<[kind |-> "trace", from |-> tick, gen |-> gen, events |-> events]>>
          \in Seq(DownPackets)
    BY <2>2, Packets
  <2>5. down' \in Seq(DownPackets)
    BY <2>1, <2>4, DownAppends DEF Send, TypeOK
  <2>6. tick' \in Nat
    BY <1>0, <1>7 DEF FlushDelta
  <2> QED BY <1>7, <2>3, <2>5, <2>6 DEF FlushDelta, TypeOK, clientVars
<1>8. CASE SetInterest
  <2>1. gen' \in Nat
    BY <1>0, <1>8 DEF SetInterest
  <2>2. <<[kind |-> "interest", gen |-> gen']>> \in Seq(DownPackets)
    BY <2>1, Packets
  <2>3. down' \in Seq(DownPackets)
    BY <1>8, <2>2, DownAppends DEF SetInterest, Send, TypeOK
  <2> QED BY <1>8, <2>1, <2>3 DEF SetInterest, TypeOK, clientVars
<1>9. CASE Resync
  <2>1. <<[kind |-> "resync", tick |-> tick, epoch |-> epoch, prefix |-> prefix],
          [kind |-> "interest", gen |-> gen]>> \in Seq(DownPackets)
    BY <1>0, Packets
  <2>2. down' \in Seq(DownPackets)
    BY <1>9, <2>1, DownAppends DEF Resync, Send, TypeOK
  <2> QED BY <1>9, <2>2 DEF Resync, TypeOK, serverVars, clientVars
<1>10. CASE InstallEpoch
  <2>1. "epoch" \in Events
    BY DEF Events
  <2>2. prefix' \in Seq(Events)
    BY <1>10, <2>1, AppendQueue DEF InstallEpoch, TypeOK
  <2> QED BY <1>0, <1>10, <2>2 DEF InstallEpoch, TypeOK, clientVars
<1>11. CASE RecordDesync
  BY <1>11 DEF RecordDesync, TypeOK, clientVars
<1>12. CASE ClientPump
  <2>1. down' \in Seq(DownPackets)
    BY <1>12, TailQueue DEF ClientPump, TypeOK
  <2>2. cepoch' = cepoch
    BY <1>12 DEF ClientPump, clientVars
  <2> QED BY <1>12, <2>1, <2>2 DEF ClientPump, TypeOK, serverVars
<1>13. CASE UNCHANGED vars
  BY <1>13 DEF vars, TypeOK, serverVars, clientVars
<1> QED BY <1>1, <1>2, <1>3, <1>4, <1>5, <1>6, <1>7, <1>8, <1>9, <1>10, <1>11,
           <1>12, <1>13 DEF Next, ServerPump

-----------------------------------------------------------------------------
(* The uplink.                                                             *)

upVars == <<up, slot, consumed, sent, cepoch, epoch>>

UpParts == UpOrder /\ SlotOrder /\ UsedOrder /\ EpochIntents /\ ConsumedInOrder

THEOREM UpInitial == Init => UpInv
  BY TypesInitial DEF Init, UpInv, UpOrder, SlotOrder, UsedOrder, EpochIntents,
     ConsumedInOrder, None

LEMMA UpUnchanged ==
  ASSUME UpParts, UNCHANGED upVars
  PROVE  UpParts'
  BY DEF UpParts, upVars, UpOrder, SlotOrder, UsedOrder, EpochIntents, ConsumedInOrder,
     IsIntent

LEMMA UpWhatIs ==
  ASSUME TypeOK
  PROVE  /\ DOMAIN up = 1 .. Len(up) /\ Len(up) \in Nat
         /\ DOMAIN consumed = 1 .. Len(consumed) /\ Len(consumed) \in Nat
         /\ \A i \in DOMAIN up :
              up[i].epoch \in Nat /\ (IsIntent(up[i]) => up[i].n \in Nat)
         /\ \A i \in DOMAIN consumed : consumed[i].n \in Nat
         /\ slot # None /\ slot[1].intent # None =>
              slot[1].intent[1].n \in Nat /\ slot[1].intent[1].epoch \in Nat
         /\ epoch \in Nat /\ cepoch \in Nat /\ sent \in Nat /\ cepoch <= epoch
<1>1. \A i \in DOMAIN up : up[i] \in UpPackets
  BY DEF TypeOK
<1>2. \A i \in DOMAIN up :
        up[i].epoch \in Nat /\ (IsIntent(up[i]) => up[i].n \in Nat)
  BY <1>1 DEF UpPackets, Intents, IsIntent
<1>3. \A i \in DOMAIN consumed : consumed[i] \in UsedIntents
  BY DEF TypeOK
<1>4. slot # None /\ slot[1].intent # None =>
        slot[1].intent[1].n \in Nat /\ slot[1].intent[1].epoch \in Nat
  BY SlotCases DEF Intents
<1>5. \A i \in DOMAIN consumed : consumed[i].n \in Nat
  BY <1>3 DEF UsedIntents
<1> QED BY <1>2, <1>5, <1>4 DEF TypeOK

(* A packet added to the wire carries the client's epoch and a new number. *)
LEMMA Uplinked ==
  ASSUME UpInv, NEW x \in UpPackets, up' = Append(up, x), x.epoch = cepoch,
         UNCHANGED <<slot, consumed, cepoch, epoch>>,
         sent' = IF IsIntent(x) THEN sent + 1 ELSE sent,
         IsIntent(x) => x.n = sent + 1
  PROVE  UpParts'
<1> USE UpWhatIs DEF UpInv
<1>1. /\ DOMAIN up' = 1 .. Len(up) + 1 /\ up'[Len(up) + 1] = x
      /\ \A i \in DOMAIN up : up'[i] = up[i]
  BY AppendQueue DEF TypeOK
<1>2. sent' \in Nat /\ sent <= sent'
  OBVIOUS
<1>3. \A i \in DOMAIN up' : i \in DOMAIN up \/ (i = Len(up) + 1 /\ up'[i] = x)
  BY <1>1
<1>4. UpOrder'
  <2>1. ASSUME NEW i \in DOMAIN up'
        PROVE  up'[i].epoch <= cepoch /\ (IsIntent(up'[i]) => up'[i].n <= sent')
    BY <1>1, <1>2, <1>3 DEF UpOrder
  <2>2. ASSUME NEW i \in DOMAIN up', NEW j \in DOMAIN up', i < j
        PROVE  /\ up'[i].epoch <= up'[j].epoch
               /\ IsIntent(up'[i]) /\ IsIntent(up'[j]) => up'[i].n < up'[j].n
    <3>1. i \in DOMAIN up
      BY <1>1, <2>2
    <3>2. CASE j \in DOMAIN up
      BY <1>1, <2>2, <3>1, <3>2 DEF UpOrder
    <3>3. CASE j = Len(up) + 1 /\ up'[j] = x
      BY <1>1, <3>1, <3>3 DEF UpOrder
    <3> QED BY <1>3, <3>2, <3>3
  <2> QED BY <2>1, <2>2 DEF UpOrder
<1>5. SlotOrder'
  BY <1>1, <1>2, <1>3 DEF SlotOrder
<1>6. UsedOrder'
  BY <1>1, <1>2, <1>3 DEF UsedOrder
<1> QED BY <1>4, <1>5, <1>6 DEF UpParts, EpochIntents, ConsumedInOrder

(* A packet taken leaves the rest in order, after it.                      *)
LEMMA UpTaken ==
  ASSUME UpInv, up # <<>>, up' = Tail(up), UNCHANGED <<sent, cepoch>>
  PROVE  /\ UpOrder' /\ 1 \in DOMAIN up /\ Head(up) = up[1]
         /\ \A i \in DOMAIN up' :
              i + 1 \in DOMAIN up /\ 1 < i + 1 /\ up'[i] = up[i + 1]
<1> USE UpWhatIs DEF UpInv
<1>1. /\ DOMAIN up' = 1 .. Len(up) - 1 /\ 1 \in DOMAIN up /\ Head(up) = up[1]
      /\ \A i \in DOMAIN up' :
              i + 1 \in DOMAIN up /\ 1 < i + 1 /\ up'[i] = up[i + 1]
  BY TailQueue DEF TypeOK
<1>2. ASSUME NEW i \in DOMAIN up', NEW j \in DOMAIN up', i < j
      PROVE  /\ up'[i].epoch <= up'[j].epoch
             /\ IsIntent(up'[i]) /\ IsIntent(up'[j]) => up'[i].n < up'[j].n
  <2>1. i + 1 \in DOMAIN up /\ j + 1 \in DOMAIN up /\ i + 1 < j + 1
    BY <1>1, <1>2
  <2> QED BY <1>1, <2>1 DEF UpOrder
<1> QED BY <1>1, <1>2 DEF UpOrder

LEMMA UpPreserved ==
  ASSUME UpInv, [Next]_vars
  PROVE  UpInv'
<1> USE UpWhatIs
<1>0. TypeOK /\ TypeOK' /\ UpParts
  BY Types DEF UpInv, UpParts
<1>1. CASE SayHello
  <2> DEFINE x == [kind |-> "hello", epoch |-> cepoch]
  <2>1. x \in UpPackets /\ x.epoch = cepoch /\ ~IsIntent(x)
    BY <1>0 DEF UpPackets, IsIntent
  <2>2. /\ up' = Append(up, x)
        /\ UNCHANGED <<slot, consumed, cepoch, epoch, sent>>
    BY <1>1 DEF SayHello, serverVars, clientVars
  <2> QED BY <1>0, <2>1, <2>2, Uplinked DEF UpInv, UpParts
<1>2. CASE SendIntent
  <2> DEFINE x == [kind |-> "intent", n |-> sent + 1, epoch |-> cepoch]
  <2>1. x \in UpPackets /\ x.epoch = cepoch /\ IsIntent(x) /\ x.n = sent + 1
    BY <1>0 DEF UpPackets, IsIntent, Intents
  <2>2. /\ up' = Append(up, x) /\ sent' = sent + 1
        /\ UNCHANGED <<slot, consumed, cepoch, epoch>>
    BY <1>2 DEF SendIntent, serverVars, clientVars
  <2> QED BY <1>0, <2>1, <2>2, Uplinked DEF UpInv, UpParts
<1>3. CASE InstallDownloaded
  <2>1. /\ cepoch < epoch /\ cepoch' = cepoch + 1
        /\ UNCHANGED <<up, slot, consumed, epoch, sent>>
    BY <1>3 DEF InstallDownloaded, serverVars
  <2>2. slot = None
    BY <1>0, <2>1 DEF UpParts, SlotOrder
  <2>3. UpOrder'
    BY <1>0, <2>1 DEF UpParts, UpOrder
  <2> QED BY <1>0, <2>1, <2>2, <2>3
        DEF UpInv, UpParts, SlotOrder, UsedOrder, EpochIntents, ConsumedInOrder
<1>4. CASE HandleHello
  <2>1. /\ up # <<>> /\ up' = Tail(up)
        /\ UNCHANGED <<sent, cepoch, consumed, epoch>>
    BY <1>4 DEF HandleHello, Take, clientVars
  <2>2. /\ UpOrder' /\ 1 \in DOMAIN up /\ Head(up) = up[1]
        /\ \A i \in DOMAIN up' :
              i + 1 \in DOMAIN up /\ 1 < i + 1 /\ up'[i] = up[i + 1]
    BY <2>1, UpTaken
  <2>3. UsedOrder'
    BY <1>0, <2>1, <2>2 DEF UpParts, UsedOrder
  <2>4. CASE slot' = slot
    <3>1. SlotOrder'
      BY <1>0, <2>1, <2>2, <2>4 DEF UpParts, SlotOrder
    <3> QED BY <1>0, <2>1, <2>2, <2>3, <2>4, <3>1
          DEF UpInv, UpParts, EpochIntents, ConsumedInOrder
  <2>5. CASE Head(up).epoch = epoch /\ slot' = Joined(None)
    <3>1. cepoch = epoch
      BY <1>0, <2>2, <2>5 DEF UpParts, UpOrder
    <3>2. \A i \in DOMAIN up' : up'[i].epoch = epoch
      <4> TAKE i \in DOMAIN up'
      <4>1. i + 1 \in DOMAIN up /\ up'[i] = up[i + 1] /\ 1 < i + 1
        BY <1>0, <2>2
      <4>2. up[i + 1].epoch <= cepoch /\ epoch <= up[i + 1].epoch
        BY <1>0, <2>2, <2>5, <4>1 DEF UpParts, UpOrder
      <4> QED BY <1>0, <3>1, <4>1, <4>2
    <3>3. slot'[1].intent = None
      BY <1>0, <2>5, SlotCases
    <3>4. SlotOrder'
      BY <2>1, <3>1, <3>2, <3>3 DEF SlotOrder, None
    <3> QED BY <1>0, <2>1, <2>2, <2>3, <3>3, <3>4
          DEF UpInv, UpParts, EpochIntents, ConsumedInOrder, None
  <2> QED BY <1>4, <2>4, <2>5 DEF HandleHello, Joined
<1>5. CASE HandleIntent
  <2>1. /\ up # <<>> /\ up' = Tail(up) /\ IsIntent(Head(up))
        /\ UNCHANGED <<sent, cepoch, consumed, epoch>>
    BY <1>5 DEF HandleIntent, Take, clientVars, IsIntent
  <2>2. /\ UpOrder' /\ 1 \in DOMAIN up /\ Head(up) = up[1]
        /\ \A i \in DOMAIN up' :
              i + 1 \in DOMAIN up /\ 1 < i + 1 /\ up'[i] = up[i + 1]
    BY <2>1, UpTaken
  <2>3. UsedOrder'
    BY <1>0, <2>1, <2>2 DEF UpParts, UsedOrder
  <2>4. CASE slot' = slot
    <3>1. SlotOrder'
      BY <1>0, <2>1, <2>2, <2>4 DEF UpParts, SlotOrder
    <3> QED BY <1>0, <2>1, <2>2, <2>3, <2>4, <3>1
          DEF UpInv, UpParts, EpochIntents, ConsumedInOrder
  <2>5. CASE slot # None /\ slot' = Joined(<<Head(up)>>)
    <3>1. slot' # None /\ slot'[1].intent = <<up[1]>> /\ slot'[1].intent[1] = up[1]
      BY <1>0, <2>2, <2>5, SlotCases
    <3>2. /\ up[1].epoch = epoch /\ up[1].n <= sent /\ cepoch = epoch
          /\ \A i \in DOMAIN up' : up'[i].epoch = epoch
      BY <1>0, <2>1, <2>2, <2>5 DEF UpParts, SlotOrder, UpOrder
    <3>3. \A i \in DOMAIN up' : IsIntent(up'[i]) => up[1].n < up'[i].n
      <4> SUFFICES ASSUME NEW i \in DOMAIN up', IsIntent(up'[i])
                   PROVE  up[1].n < up'[i].n
        OBVIOUS
      <4>1. i + 1 \in DOMAIN up /\ up'[i] = up[i + 1] /\ 1 < i + 1
        BY <1>0, <2>2
      <4> QED BY <1>0, <2>1, <2>2, <4>1 DEF UpParts, UpOrder
    <3>4. SlotOrder'
      BY <2>1, <3>1, <3>2, <3>3 DEF SlotOrder
    <3>5. \A k \in DOMAIN consumed : consumed[k].n < up[1].n
      BY <1>0, <2>1, <2>2 DEF UpParts, UsedOrder
    <3> QED BY <1>0, <2>1, <2>2, <2>3, <3>1, <3>4, <3>5
          DEF UpInv, UpParts, EpochIntents, ConsumedInOrder
  <2> QED BY <1>5, <2>4, <2>5 DEF HandleIntent, Queue, Joined
<1>6. CASE Consume
  <2> DEFINE q == slot[1].intent[1]
             x == [n |-> q.n, sent |-> q.epoch, used |-> epoch]
  <2>1. /\ slot # None /\ slot[1].intent # None /\ slot' = Joined(None)
        /\ consumed' = Append(consumed, x)
        /\ UNCHANGED <<up, sent, cepoch, epoch>>
    BY <1>6 DEF Consume, Joined, clientVars
  <2>2. x \in UsedIntents /\ q.n \in Nat
    BY <1>0, <2>1, SlotCases DEF Intents, UsedIntents
  <2>3. /\ DOMAIN consumed' = 1 .. Len(consumed) + 1
        /\ consumed'[Len(consumed) + 1] = x
        /\ \A k \in DOMAIN consumed : consumed'[k] = consumed[k]
    BY <1>0, <2>1, <2>2, AppendQueue DEF TypeOK
  <2>4. \A k \in DOMAIN consumed' :
          k \in DOMAIN consumed \/ (k = Len(consumed) + 1 /\ consumed'[k] = x)
    BY <1>0, <2>3
  <2>5. /\ q.epoch = epoch /\ q.n <= sent
        /\ \A i \in DOMAIN up : IsIntent(up[i]) => q.n < up[i].n
    BY <1>0, <2>1 DEF UpParts, SlotOrder
  <2>6. slot' # None /\ slot'[1].intent = None
    BY <1>0, <2>1, SlotCases
  <2>7. SlotOrder' /\ UpOrder'
    BY <1>0, <2>1, <2>6 DEF UpParts, SlotOrder, UpOrder
  <2>8. x.n = q.n /\ x.sent = q.epoch /\ x.used = epoch
    OBVIOUS
  <2>9. UsedOrder' /\ EpochIntents'
    BY <1>0, <2>1, <2>3, <2>4, <2>5, <2>8 DEF UpParts, UsedOrder, EpochIntents
  <2>10. \A k \in DOMAIN consumed : consumed[k].n < x.n
    BY <1>0, <2>1, <2>8 DEF UpParts, ConsumedInOrder
  <2>11. ASSUME NEW i \in DOMAIN consumed', NEW j \in DOMAIN consumed', i < j
         PROVE  consumed'[i].n < consumed'[j].n
    <3>1. i \in DOMAIN consumed
      BY <1>0, <2>3, <2>11
    <3> QED BY <1>0, <2>3, <2>4, <2>10, <2>11, <3>1 DEF UpParts, ConsumedInOrder
  <2>12. ConsumedInOrder'
    BY <2>6, <2>11 DEF ConsumedInOrder
  <2> QED BY <1>0, <2>7, <2>9, <2>12 DEF UpInv
<1>7. CASE InstallEpoch
  <2>1. /\ epoch' = epoch + 1 /\ slot' = None
        /\ UNCHANGED <<up, consumed, sent, cepoch>>
    BY <1>7 DEF InstallEpoch, clientVars
  <2> QED BY <1>0, <2>1
        DEF UpInv, UpParts, UpOrder, SlotOrder, UsedOrder, EpochIntents, ConsumedInOrder
<1>8. CASE \/ FlushDelta \/ SetInterest \/ Resync \/ RecordDesync \/ ClientPump
           \/ UNCHANGED vars
  <2>1. UNCHANGED upVars
    BY <1>8 DEF FlushDelta, SetInterest, Resync, RecordDesync, ClientPump, vars,
       serverVars, clientVars, upVars
  <2> QED BY <1>0, <2>1, UpUnchanged DEF UpInv, UpParts
<1> QED BY <1>1, <1>2, <1>3, <1>4, <1>5, <1>6, <1>7, <1>8 DEF Next, ServerPump

(* What the server hands to the sim was sent in the epoch it is used in,   *)
(* however intents, epochs and joins interleave on the wire.               *)
THEOREM SpecEpochIntents == Spec => []EpochIntents
<1>1. UpInv => EpochIntents
  BY DEF UpInv
<1> QED BY <1>1, UpInitial, UpPreserved, PTL DEF Spec

(* The sim gets intents once and in the order sent; what waits in the slot *)
(* is later than all of them.                                              *)
THEOREM SpecConsumedInOrder == Spec => []ConsumedInOrder
<1>1. UpInv => ConsumedInOrder
  BY DEF UpInv
<1> QED BY <1>1, UpInitial, UpPreserved, PTL DEF Spec

-----------------------------------------------------------------------------
(* The downlink.                                                           *)

Extends(h2, h) == \A k \in DOMAIN h : k \in DOMAIN h2 /\ h2[k] = h[k]

EraParts(era) == EraOrder(down, era, at, epoch) /\ ServerEra(era) /\ ClientEra(era)

Eras == [1 .. Len(down) -> Nat]

LEMMA FitsKept ==
  ASSUME NEW p, NEW e, NEW h, NEW h2, Extends(h2, h), Fits(p, e, h)
  PROVE  Fits(p, e, h2)
  BY DEF Extends, Fits

(* The history grows at the server's epoch and tick, and is never changed. *)
LEMMA HistoryKept ==
  ASSUME TypeOK, History, [Next]_vars
  PROVE  History' /\ Extends(at', at)
<1>0. epoch \in Nat /\ tick \in Nat
  BY DEF TypeOK
<1>1. CASE FlushDelta
  <2> DEFINE key == <<epoch, tick + 1>>
  <2>1. /\ tick' = tick + 1 /\ epoch' = epoch /\ at' = Keep(at, key, prefix')
    BY <1>1 DEF FlushDelta
  <2>2. key \notin DOMAIN at
    BY <1>0 DEF History
  <2>3. /\ DOMAIN at' = DOMAIN at \union {key} /\ at'[key] = prefix'
        /\ \A k \in DOMAIN at : at'[k] = at[k]
    BY <2>1, <2>2 DEF Keep
  <2>4. \A e, t \in Nat : <<e, t>> = key => e = epoch /\ t = tick + 1
    OBVIOUS
  <2>5. \A e, t \in Nat : <<e, t>> \in DOMAIN at' =>
          e < epoch \/ (e = epoch /\ t <= tick + 1)
    BY <1>0, <2>3, <2>4 DEF History
  <2>6. History'
    BY <2>1, <2>3, <2>5 DEF History
  <2> QED BY <2>3, <2>6 DEF Extends
<1>2. CASE InstallEpoch
  <2> DEFINE key == <<epoch + 1, tick>>
  <2>1. /\ tick' = tick /\ epoch' = epoch + 1 /\ at' = Keep(at, key, prefix')
    BY <1>2 DEF InstallEpoch
  <2>2. key \notin DOMAIN at
    BY <1>0 DEF History
  <2>3. /\ DOMAIN at' = DOMAIN at \union {key} /\ at'[key] = prefix'
        /\ \A k \in DOMAIN at : at'[k] = at[k]
    BY <2>1, <2>2 DEF Keep
  <2>4. \A e, t \in Nat : <<e, t>> = key => e = epoch + 1 /\ t = tick
    OBVIOUS
  <2>5. \A e, t \in Nat : <<e, t>> \in DOMAIN at' =>
          e < epoch + 1 \/ (e = epoch + 1 /\ t <= tick)
    BY <1>0, <2>3, <2>4 DEF History
  <2>6. History'
    BY <2>1, <2>3, <2>5 DEF History
  <2> QED BY <2>3, <2>6 DEF Extends
<1>3. CASE ~(FlushDelta \/ InstallEpoch)
  <2>1. UNCHANGED <<epoch, tick, prefix, at>>
    BY <1>3 DEF Next, ServerPump, SayHello, SendIntent, InstallDownloaded,
       HandleHello, HandleIntent, Consume, SetInterest, Resync, RecordDesync,
       ClientPump, vars, serverVars, clientVars
  <2> QED BY <2>1 DEF History, Extends
<1> QED BY <1>1, <1>2, <1>3

LEMMA DownWhatIs ==
  ASSUME TypeOK
  PROVE  /\ DOMAIN down = 1 .. Len(down) /\ Len(down) \in Nat
         /\ epoch \in Nat /\ cepoch \in Nat
  BY DEF TypeOK

(* What the server sends now is of the present era.                        *)
LEMMA Downlinked ==
  ASSUME TypeOK, NEW era \in Eras, EraParts(era),
         NEW r \in Seq(DownPackets), down' = down \o r,
         Extends(at', at), UNCHANGED <<epoch, clientVars>>, cepoch = epoch,
         \A j \in DOMAIN r : Fits(r[j], epoch, at'),
         \/ slot # None
         \/ /\ \E j \in DOMAIN r : r[j].kind = "snapshot"
            /\ \A j \in DOMAIN r : r[j].kind # "trace"
  PROVE  \E e2 \in Eras' : EraParts(e2)'
<1> USE DownWhatIs
<1>1. /\ Len(r) \in Nat /\ DOMAIN r = 1 .. Len(r)
      /\ Len(down') = Len(down) + Len(r) /\ DOMAIN down' = 1 .. Len(down')
      /\ \A i \in DOMAIN down : down'[i] = down[i]
      /\ \A i \in DOMAIN down' : i > Len(down) =>
           i - Len(down) \in DOMAIN r /\ down'[i] = r[i - Len(down)]
  BY ConcatQueue DEF TypeOK
<1>2. PICK e2 : e2 = [i \in 1 .. Len(down') |-> IF i \in DOMAIN down THEN era[i]
                                                ELSE epoch]
  OBVIOUS
<1>3. /\ \A i \in DOMAIN down : i \in DOMAIN down' /\ e2[i] = era[i]
      /\ \A i \in DOMAIN down' : i > Len(down) => e2[i] = epoch
      /\ e2 \in Eras'
  BY <1>1, <1>2 DEF Eras
<1>4. \A e, k, l : Opens(down, era, e, k, l) => Opens(down', e2, e, k, l)
  BY <1>1, <1>3 DEF Opens
<1>5. ASSUME NEW i \in DOMAIN down'
      PROVE  e2[i] \in 0 .. epoch /\ Fits(down'[i], e2[i], at')
  <2>1. CASE i \in DOMAIN down
    BY <1>1, <1>3, <2>1, FitsKept DEF EraParts, EraOrder
  <2>2. CASE i > Len(down)
    BY <1>1, <1>3, <2>2
  <2> QED BY <1>1, <2>1, <2>2
<1>6. ASSUME NEW k \in DOMAIN down', NEW i \in DOMAIN down', k < i
      PROVE  /\ e2[k] <= e2[i]
             /\ down'[i].kind = "trace" /\ e2[k] < e2[i]
                  => Opens(down', e2, e2[i], k, i)
  <2>1. CASE i \in DOMAIN down
    <3>1. k \in DOMAIN down
      BY <1>1, <1>6, <2>1
    <3> QED BY <1>1, <1>3, <1>4, <1>6, <2>1, <3>1 DEF EraParts, EraOrder
  <2>2. CASE i > Len(down)
    <3>1. e2[i] = epoch /\ e2[k] <= epoch
      BY <1>3, <1>5, <2>2
    <3>2. ASSUME down'[i].kind = "trace", e2[k] < e2[i]
          PROVE  Opens(down', e2, e2[i], k, i)
      <4>1. slot # None
        BY <1>1, <2>2, <3>2
      <4>2. k \in DOMAIN down
        BY <1>1, <1>3, <3>1, <3>2
      <4>3. Opens(down, era, epoch, k, Len(down) + 1)
        BY <1>3, <3>1, <3>2, <4>1, <4>2 DEF EraParts, ServerEra
      <4>4. PICK j \in DOMAIN down : /\ k < j /\ j < Len(down) + 1
                                     /\ down[j].kind = "snapshot" /\ era[j] = epoch
        BY <4>3 DEF Opens
      <4>5. j \in DOMAIN down' /\ j < i /\ down'[j].kind = "snapshot" /\ e2[j] = epoch
        BY <1>1, <1>3, <2>2, <4>4
      <4> QED BY <3>1, <4>4, <4>5 DEF Opens
    <3> QED BY <3>1, <3>2
  <2> QED BY <1>1, <2>1, <2>2
<1>7. EraOrder(down', e2, at', epoch)
  BY <1>5, <1>6 DEF EraOrder
<1>8. ASSUME NEW k \in DOMAIN down', e2[k] < epoch
      PROVE  Opens(down', e2, epoch, k, Len(down') + 1)
  <2>1. k \in DOMAIN down
    BY <1>1, <1>3, <1>8
  <2>2. CASE slot # None
    <3>1. Opens(down, era, epoch, k, Len(down) + 1)
      BY <1>3, <1>8, <2>1, <2>2 DEF EraParts, ServerEra
    <3>2. PICK j \in DOMAIN down : /\ k < j /\ j < Len(down) + 1
                                   /\ down[j].kind = "snapshot" /\ era[j] = epoch
      BY <3>1 DEF Opens
    <3>3. /\ j \in DOMAIN down' /\ j < Len(down') + 1
          /\ down'[j].kind = "snapshot" /\ e2[j] = epoch
      BY <1>1, <1>3, <3>2
    <3> QED BY <3>2, <3>3 DEF Opens
  <2>3. CASE \E j \in DOMAIN r : r[j].kind = "snapshot"
    <3>1. PICK j \in DOMAIN r : r[j].kind = "snapshot"
      BY <2>3
    <3>2. PICK i : i = Len(down) + j
      OBVIOUS
    <3>3. /\ i \in DOMAIN down' /\ k < i /\ i < Len(down') + 1 /\ i > Len(down)
          /\ i - Len(down) = j
      BY <1>1, <2>1, <3>1, <3>2
    <3>4. down'[i].kind = "snapshot" /\ e2[i] = epoch
      BY <1>1, <1>3, <3>1, <3>3
    <3> QED BY <3>3, <3>4 DEF Opens
  <2> QED BY <2>2, <2>3
<1>9. ServerEra(e2)'
  BY <1>8 DEF ServerEra
<1>10. ASSUME status = "up", saw, NEW i \in DOMAIN down'
       PROVE  /\ e2[i] >= cepoch
              /\ down'[i].kind = "trace" /\ e2[i] > cepoch
                   => Opens(down', e2, e2[i], 0, i)
  <2>1. CASE i \in DOMAIN down
    BY <1>1, <1>3, <1>4, <1>10, <2>1 DEF EraParts, ClientEra
  <2>2. CASE i > Len(down)
    BY <1>3, <2>2
  <2> QED BY <1>1, <2>1, <2>2
<1>11. ClientEra(e2)'
  BY <1>10 DEF ClientEra, clientVars
<1> QED BY <1>3, <1>7, <1>9, <1>11 DEF EraParts

(* A packet taken leaves the eras of the rest.                             *)
LEMMA DownTaken ==
  ASSUME TypeOK, NEW era \in Eras, EraParts(era), down # <<>>, down' = Tail(down),
         UNCHANGED <<serverVars, at>>, cepoch' = cepoch,
         status' = "up" /\ saw' =>
             \/ status = "up" /\ saw /\ (down[1].kind = "snapshot" => era[1] = cepoch)
             \/ down[1].kind = "snapshot" /\ era[1] = cepoch
  PROVE  \E e2 \in Eras' : EraParts(e2)'
<1> USE DownWhatIs
<1>1. /\ Len(down) \in Nat \ {0} /\ Len(down') = Len(down) - 1
      /\ DOMAIN down' = 1 .. Len(down) - 1 /\ 1 \in DOMAIN down
      /\ \A i \in DOMAIN down' :
           i + 1 \in DOMAIN down /\ 1 < i + 1 /\ down'[i] = down[i + 1]
  BY TailQueue DEF TypeOK
<1>2. PICK e2 : e2 = [i \in 1 .. Len(down) - 1 |-> era[i + 1]]
  OBVIOUS
<1>3. /\ \A i \in DOMAIN down' : e2[i] = era[i + 1]
      /\ e2 \in Eras'
  BY <1>1, <1>2 DEF Eras
<1>4. ASSUME NEW e, NEW k \in DOMAIN down, NEW l \in Int,
             Opens(down, era, e, k, l)
      PROVE  Opens(down', e2, e, k - 1, l - 1)
  <2>1. PICK j \in DOMAIN down : /\ k < j /\ j < l
                                 /\ down[j].kind = "snapshot" /\ era[j] = e
    BY <1>4 DEF Opens
  <2>2. PICK i : i = j - 1
    OBVIOUS
  <2>3. i \in DOMAIN down' /\ k - 1 < i /\ i < l - 1 /\ i + 1 = j
    BY <1>1, <2>1, <2>2
  <2>4. down'[i].kind = "snapshot" /\ e2[i] = e
    BY <1>1, <1>3, <2>1, <2>3
  <2> QED BY <2>3, <2>4 DEF Opens
<1>5. ASSUME NEW i \in DOMAIN down'
      PROVE  e2[i] \in 0 .. epoch /\ Fits(down'[i], e2[i], at)
  BY <1>1, <1>3 DEF EraParts, EraOrder
<1>6. ASSUME NEW k \in DOMAIN down', NEW i \in DOMAIN down', k < i
      PROVE  /\ e2[k] <= e2[i]
             /\ down'[i].kind = "trace" /\ e2[k] < e2[i]
                  => Opens(down', e2, e2[i], k, i)
  <2>1. /\ k + 1 \in DOMAIN down /\ i + 1 \in DOMAIN down /\ k + 1 < i + 1
        /\ (k + 1) - 1 = k /\ (i + 1) - 1 = i
    BY <1>1, <1>6
  <2>2. /\ era[k + 1] <= era[i + 1]
        /\ down[i + 1].kind = "trace" /\ era[k + 1] < era[i + 1]
             => Opens(down, era, era[i + 1], k + 1, i + 1)
    BY <2>1 DEF EraParts, EraOrder
  <2>3. Opens(down, era, era[i + 1], k + 1, i + 1) => Opens(down', e2, era[i + 1], k, i)
    BY <1>4, <2>1
  <2> QED BY <1>1, <1>3, <2>2, <2>3
<1>7. EraOrder(down', e2, at', epoch')
  BY <1>5, <1>6 DEF EraOrder, serverVars
<1>8. ASSUME slot # None, NEW k \in DOMAIN down', e2[k] < epoch
      PROVE  Opens(down', e2, epoch, k, Len(down') + 1)
  <2>1. /\ k + 1 \in DOMAIN down /\ (k + 1) - 1 = k
        /\ (Len(down) + 1) - 1 = Len(down') + 1 /\ Len(down) + 1 \in Int
    BY <1>1
  <2>2. Opens(down, era, epoch, k + 1, Len(down) + 1)
    BY <1>3, <1>8, <2>1 DEF EraParts, ServerEra
  <2>3. Opens(down', e2, epoch, (k + 1) - 1, (Len(down) + 1) - 1)
    BY <1>4, <2>1, <2>2
  <2> QED BY <2>1, <2>3
<1>9. ServerEra(e2)'
  BY <1>8 DEF ServerEra, serverVars
<1>10. ASSUME status' = "up", saw', NEW i \in DOMAIN down'
       PROVE  /\ e2[i] >= cepoch
              /\ down'[i].kind = "trace" /\ e2[i] > cepoch
                   => Opens(down', e2, e2[i], 0, i)
  <2>1. /\ i + 1 \in DOMAIN down /\ 1 < i + 1 /\ (i + 1) - 1 = i /\ i + 1 \in Int
        /\ 1 \in DOMAIN down
    BY <1>1
  <2>2. CASE down[1].kind = "snapshot" /\ era[1] = cepoch
    <3>1. /\ era[1] <= era[i + 1]
          /\ down[i + 1].kind = "trace" /\ era[1] < era[i + 1]
               => Opens(down, era, era[i + 1], 1, i + 1)
      BY <2>1 DEF EraParts, EraOrder
    <3>2. Opens(down, era, era[i + 1], 1, i + 1) => Opens(down', e2, era[i + 1], 0, i)
      BY <1>4, <2>1
    <3> QED BY <1>1, <1>3, <2>2, <3>1, <3>2
  <2>3. CASE status = "up" /\ saw /\ down[1].kind # "snapshot"
    <3>1. /\ era[i + 1] >= cepoch
          /\ down[i + 1].kind = "trace" /\ era[i + 1] > cepoch
               => Opens(down, era, era[i + 1], 0, i + 1)
      BY <2>1, <2>3 DEF EraParts, ClientEra
    <3>2. Opens(down, era, era[i + 1], 0, i + 1) => Opens(down, era, era[i + 1], 1, i + 1)
      BY <1>1, <2>3 DEF Opens
    <3>3. Opens(down, era, era[i + 1], 1, i + 1) => Opens(down', e2, era[i + 1], 0, i)
      BY <1>4, <2>1
    <3> QED BY <1>1, <1>3, <3>1, <3>2, <3>3
  <2> QED BY <1>10, <2>2, <2>3
<1>11. ClientEra(e2)'
  BY <1>10 DEF ClientEra
<1> QED BY <1>3, <1>7, <1>9, <1>11 DEF EraParts

THEOREM DownInitial == Init => DownInv
<1> SUFFICES ASSUME Init PROVE DownInv
  OBVIOUS
<1>1. History /\ InStep
  <2>1. \A e, t \in Nat : <<e, t>> = <<0, 0>> => e = 0 /\ t = 0
    OBVIOUS
  <2>2. DOMAIN at = {<<0, 0>>} /\ at[<<0, 0>>] = <<>>
    BY DEF Init
  <2> QED BY <2>1, <2>2 DEF Init, History, InStep
<1>2. Len(down) = 0 /\ DOMAIN down = 1 .. 0
  BY DEF Init
<1>3. PICK era : era = [i \in 1 .. Len(down) |-> 0]
  OBVIOUS
<1>4. era \in Eras
  BY <1>3 DEF Eras
<1>5. EraOrder(down, era, at, epoch) /\ ServerEra(era) /\ ClientEra(era)
  BY <1>2 DEF EraOrder, ServerEra, ClientEra
<1> QED BY <1>1, <1>4, <1>5 DEF DownInv, Eras

(* A step that leaves the wire to the client and the client alone.         *)
LEMMA DownUnchanged ==
  ASSUME TypeOK, NEW era \in Eras, EraParts(era), Extends(at', at),
         UNCHANGED <<down, cepoch>>,
         \/ slot' = None /\ epoch <= epoch' /\ epoch' \in Nat
         \/ (slot' # None => slot # None) /\ epoch' = epoch,
         UNCHANGED <<status, saw>>
  PROVE  EraParts(era)'
<1> USE DownWhatIs
<1>1. EraOrder(down, era, at', epoch')
  BY FitsKept DEF EraParts, EraOrder
<1>2. ServerEra(era)'
  BY DEF EraParts, ServerEra
<1>3. ClientEra(era)'
  BY DEF EraParts, ClientEra
<1> QED BY <1>1, <1>2, <1>3 DEF EraParts

LEMMA InStepKept ==
  ASSUME InStep, Extends(at', at), UNCHANGED <<status, saw, cepoch, last, cprefix>>
  PROVE  InStep'
  BY DEF InStep, Extends

(* One packet: the client that goes on is in step.                         *)
LEMMA PumpInStep ==
  ASSUME TypeOK, InStep, NEW era \in Eras, EraParts(era), ClientPump, status = "up",
         status' = "up", saw'
  PROVE  /\ InStep'
         /\ \/ saw /\ (down[1].kind = "snapshot" => era[1] = cepoch)
            \/ down[1].kind = "snapshot" /\ era[1] = cepoch
<1> DEFINE p == down[1]
<1> USE DownWhatIs
<1>1. 1 \in DOMAIN down /\ Head(down) = p /\ p \in DownPackets
  BY TailQueue DEF ClientPump, TypeOK
<1>2. /\ UNCHANGED <<cepoch, at>>
      /\ \/ p.kind = "hello" /\ OnHello(p)
         \/ p.kind = "snapshot" /\ OnSnapshot(p)
         \/ p.kind = "trace" /\ OnTrace(p)
         \/ p.kind = "interest" /\ OnInterest(p)
         \/ p.kind = "resync" /\ OnResync(p)
  BY <1>1 DEF ClientPump
<1>3. era[1] \in Nat /\ Fits(p, era[1], at)
  BY <1>1 DEF EraParts, EraOrder
<1>4. CASE p.kind \in {"hello", "interest"}
  <2>1. UNCHANGED <<saw, last, cprefix>>
    BY <1>2, <1>4 DEF OnHello, OnInterest
  <2> QED BY <1>2, <1>4, <2>1 DEF InStep
<1>5. CASE p.kind = "snapshot"
  <2>1. p.epoch = cepoch /\ cprefix' = p.prefix /\ last' = p.tick
    BY <1>2, <1>5 DEF OnSnapshot
  <2>2. era[1] = cepoch /\ <<cepoch, p.tick>> \in DOMAIN at
          /\ at[<<cepoch, p.tick>>] = p.prefix
    BY <1>3, <1>5, <2>1 DEF Fits
  <2> QED BY <1>2, <1>5, <2>1, <2>2 DEF InStep
<1>6. CASE p.kind = "resync"
  <2>1. p.epoch = cepoch /\ cprefix' = p.prefix /\ last' = p.tick /\ saw' = saw
    BY <1>2, <1>6 DEF OnResync
  <2>2. <<cepoch, p.tick>> \in DOMAIN at /\ at[<<cepoch, p.tick>>] = p.prefix
    BY <1>3, <1>6, <2>1 DEF Fits
  <2> QED BY <1>2, <1>6, <2>1, <2>2 DEF InStep
<1>7. CASE p.kind = "trace"
  <2>1. saw' = saw
    BY <1>2, <1>7 DEF OnTrace
  <2>2. era[1] = cepoch
    <3>1. /\ era[1] >= cepoch
          /\ era[1] > cepoch => Opens(down, era, era[1], 0, 1)
      BY <1>1, <1>7, <2>1 DEF EraParts, ClientEra
    <3>2. ~Opens(down, era, era[1], 0, 1)
      BY DEF Opens
    <3> QED BY <1>3, <3>1, <3>2
  <2>3. InStep'
    <3>1. CASE UNCHANGED <<cprefix, last>>
      BY <1>2, <2>1, <3>1 DEF InStep
    <3>2. CASE p.from = last /\ cprefix' = cprefix \o p.events /\ last' = last + 1
      <4>1. /\ <<cepoch, last + 1>> \in DOMAIN at
            /\ at[<<cepoch, last + 1>>] = at[<<cepoch, last>>] \o p.events
        BY <1>3, <1>7, <2>2, <3>2 DEF Fits
      <4>2. cprefix = at[<<cepoch, last>>]
        BY <2>1 DEF InStep
      <4> QED BY <1>2, <3>2, <4>1, <4>2 DEF InStep
    <3> QED BY <1>2, <1>7, <3>1, <3>2 DEF OnTrace
  <2> QED BY <1>7, <2>1, <2>3
<1> QED BY <1>2, <1>4, <1>5, <1>6, <1>7

(* A step of the server that sends packets of the present.                 *)
LEMMA SendInv ==
  ASSUME UpInv, DownInv, [Next]_vars, NEW r \in Seq(DownPackets), down' = down \o r,
         UNCHANGED <<epoch, clientVars>>, cepoch = epoch,
         \A j \in DOMAIN r : Fits(r[j], epoch, at'),
         \/ slot # None
         \/ /\ \E j \in DOMAIN r : r[j].kind = "snapshot"
            /\ \A j \in DOMAIN r : r[j].kind # "trace"
  PROVE  DownInv'
<1>0. TypeOK
  BY DEF UpInv
<1>1. History' /\ Extends(at', at)
  BY <1>0, HistoryKept DEF DownInv
<1>2. InStep'
  BY <1>1, InStepKept DEF DownInv, clientVars
<1>3. PICK era \in Eras : EraParts(era)
  BY DEF DownInv, Eras, EraParts
<1>4. \E e2 \in Eras' : EraParts(e2)'
  BY <1>0, <1>1, <1>3, Downlinked
<1> QED BY <1>1, <1>2, <1>4 DEF DownInv, Eras, EraParts

LEMMA QuietInv ==
  ASSUME UpInv, DownInv, [Next]_vars, UNCHANGED <<down, clientVars>>,
         \/ slot' = None /\ epoch <= epoch' /\ epoch' \in Nat
         \/ (slot' # None => slot # None) /\ epoch' = epoch
  PROVE  DownInv'
<1>0. TypeOK
  BY DEF UpInv
<1>1. History' /\ Extends(at', at)
  BY <1>0, HistoryKept DEF DownInv
<1>2. InStep'
  BY <1>1, InStepKept DEF DownInv, clientVars
<1>3. PICK era \in Eras : EraParts(era)
  BY DEF DownInv, Eras, EraParts
<1>4. EraParts(era)'
  BY <1>0, <1>1, <1>3, DownUnchanged DEF clientVars
<1>5. Eras' = Eras
  BY DEF Eras
<1> QED BY <1>1, <1>2, <1>3, <1>4, <1>5 DEF DownInv, Eras, EraParts

LEMMA DownPreserved ==
  ASSUME UpInv, DownInv, [Next]_vars
  PROVE  DownInv'
<1>0. TypeOK /\ TypeOK' /\ epoch \in Nat /\ tick \in Nat
  BY Types DEF UpInv, TypeOK
<1>1. /\ <<epoch, tick>> \in DOMAIN at /\ at[<<epoch, tick>>] = prefix
      /\ History' /\ Extends(at', at)
  BY <1>0, HistoryKept DEF DownInv, History
<1>2. CASE InstallDownloaded
  <2>1. /\ saw' = FALSE /\ UNCHANGED <<serverVars, at, down>>
    BY <1>2 DEF InstallDownloaded
  <2>2. PICK era \in Eras : EraParts(era)
    BY DEF DownInv, Eras, EraParts
  <2>3. EraParts(era)'
    BY <2>1, <2>2 DEF EraParts, ServerEra, ClientEra, serverVars
  <2>4. Eras' = Eras
    BY <2>1 DEF Eras
  <2> QED BY <1>1, <2>1, <2>2, <2>3, <2>4 DEF DownInv, Eras, EraParts, InStep
<1>3. CASE HandleHello
  <2>1. UNCHANGED <<epoch, tick, prefix, at, clientVars>> /\ up # <<>>
    BY <1>3 DEF HandleHello, Take
  <2>2. CASE UNCHANGED <<slot, down>>
    BY <2>1, <2>2, QuietInv
  <2>3. CASE /\ Head(up).epoch = epoch
             /\ down' = down \o <<[kind |-> "hello", epoch |-> epoch, slot |-> slots],
                                  Snapshot, [kind |-> "interest", gen |-> 0]>>
    <3> DEFINE r == <<[kind |-> "hello", epoch |-> epoch, slot |-> slots],
                      Snapshot, [kind |-> "interest", gen |-> 0]>>
    <3>1. cepoch = epoch
      <4>1. 1 \in DOMAIN up /\ Head(up) = up[1]
        BY <1>0, <2>1, TailQueue DEF TypeOK
      <4> QED BY <1>0, <2>3, <4>1, UpWhatIs DEF UpInv, UpOrder
    <3>2. r \in Seq(DownPackets) /\ DOMAIN r = 1 .. 3
      BY <1>0, Packets
    <3>3. /\ r[1].kind = "hello" /\ r[2] = Snapshot /\ r[3].kind = "interest"
          /\ Snapshot.kind = "snapshot" /\ Snapshot.epoch = epoch
          /\ Snapshot.tick = tick /\ Snapshot.prefix = prefix
      BY DEF Snapshot
    <3> HIDE DEF r
    <3>6. Fits(r[1], epoch, at') /\ Fits(r[2], epoch, at') /\ Fits(r[3], epoch, at')
      BY <1>1, <2>1, <3>3 DEF Fits
    <3>4. \A j \in DOMAIN r : Fits(r[j], epoch, at')
      BY <3>2, <3>6
    <3>5. /\ \E j \in DOMAIN r : r[j].kind = "snapshot"
          /\ \A j \in DOMAIN r : r[j].kind # "trace"
      BY <3>2, <3>3
    <3>7. down' = down \o r
      BY <2>3 DEF r
    <3> QED BY <2>1, <3>1, <3>2, <3>4, <3>5, <3>7, SendInv
  <2> QED BY <1>3, <2>2, <2>3 DEF HandleHello
<1>4. CASE FlushDelta
  <2>1. /\ tick' = tick + 1 /\ at' = Keep(at, <<epoch, tick'>>, prefix')
        /\ UNCHANGED <<epoch, slot, clientVars>>
    BY <1>4 DEF FlushDelta
  <2>2. PICK events \in {<<>>, <<tick>>} :
          /\ prefix' = prefix \o events
          /\ Send(<<[kind |-> "trace", from |-> tick, gen |-> gen,
                     events |-> events]>>)
    BY <1>4 DEF FlushDelta
  <2>3. CASE slot = None
    BY <2>1, <2>2, <2>3, QuietInv DEF Send
  <2>4. CASE slot # None
    <3> DEFINE x == [kind |-> "trace", from |-> tick, gen |-> gen, events |-> events]
               r == <<x>>
    <3>1. cepoch = epoch
      BY <2>4 DEF UpInv, SlotOrder
    <3>2. x \in DownPackets
      <4>1. tick \in Events
        BY <1>0 DEF Events
      <4>2. <<>> \in Seq(Events) /\ <<tick>> \in Seq(Events)
        BY <4>1
      <4> QED BY <1>0, <2>2, <4>2, Packets
    <3>3. r \in Seq(DownPackets) /\ DOMAIN r = 1 .. 1 /\ r[1] = x
      BY <3>2
    <3>4. /\ <<epoch, tick + 1>> \in DOMAIN at'
          /\ at'[<<epoch, tick + 1>>] = prefix'
      BY <1>1, <2>1 DEF History
    <3>5. Fits(x, epoch, at')
      BY <1>1, <2>2, <3>4 DEF Fits, Extends
    <3>6. \A j \in DOMAIN r : Fits(r[j], epoch, at')
      BY <3>3, <3>5
    <3>7. down' = down \o r
      BY <2>2, <2>4 DEF Send
    <3> HIDE DEF r
    <3> QED BY <2>1, <2>4, <3>1, <3>3, <3>6, <3>7, SendInv
  <2> QED BY <2>3, <2>4
<1>5. CASE SetInterest
  <2> DEFINE r == <<[kind |-> "interest", gen |-> gen']>>
  <2>1. /\ slot # None /\ down' = down \o r
        /\ UNCHANGED <<epoch, clientVars>>
    BY <1>5 DEF SetInterest, Send
  <2>2. cepoch = epoch
    BY <2>1 DEF UpInv, SlotOrder
  <2>3. gen' \in Nat
    BY <1>0 DEF TypeOK
  <2>4. r \in Seq(DownPackets) /\ DOMAIN r = 1 .. 1 /\ r[1].kind = "interest"
    BY <1>0, <2>3, Packets
  <2> HIDE DEF r
  <2>5. \A j \in DOMAIN r : Fits(r[j], epoch, at')
    <3>1. Fits(r[1], epoch, at')
      BY <2>4 DEF Fits
    <3> QED BY <2>4, <3>1
  <2> QED BY <2>1, <2>2, <2>4, <2>5, SendInv
<1>6. CASE Resync
  <2> DEFINE r == <<[kind |-> "resync", tick |-> tick, epoch |-> epoch,
                     prefix |-> prefix], [kind |-> "interest", gen |-> gen]>>
  <2>1. /\ slot # None /\ down' = down \o r
        /\ UNCHANGED <<epoch, at, clientVars>>
    BY <1>6 DEF Resync, Send, serverVars
  <2>2. cepoch = epoch
    BY <2>1 DEF UpInv, SlotOrder
  <2>3. gen \in Nat
    BY <1>0 DEF TypeOK
  <2>4. /\ r \in Seq(DownPackets) /\ DOMAIN r = 1 .. 2 /\ r[2].kind = "interest"
        /\ r[1].kind = "resync" /\ r[1].epoch = epoch
        /\ r[1].tick = tick /\ r[1].prefix = prefix
    BY <1>0, <2>3, Packets
  <2> HIDE DEF r
  <2>5. Fits(r[1], epoch, at') /\ Fits(r[2], epoch, at')
    BY <1>1, <2>1, <2>4 DEF Fits
  <2>6. \A j \in DOMAIN r : Fits(r[j], epoch, at')
    BY <2>4, <2>5
  <2> QED BY <2>1, <2>2, <2>4, <2>6, SendInv
<1>7. CASE InstallEpoch
  <2>1. /\ slot' = None /\ epoch' = epoch + 1 /\ UNCHANGED <<down, clientVars>>
    BY <1>7 DEF InstallEpoch
  <2> QED BY <1>0, <2>1, QuietInv
<1>8. CASE \/ SayHello \/ SendIntent \/ HandleIntent \/ Consume \/ RecordDesync
           \/ UNCHANGED vars
  <2>1. /\ UNCHANGED <<down, clientVars, epoch>>
        /\ slot' # None => slot # None
    BY <1>8 DEF SayHello, SendIntent, HandleIntent, Consume, RecordDesync, vars,
       serverVars, clientVars
  <2> QED BY <2>1, QuietInv
<1>9. CASE ClientPump
  <2>1. /\ down # <<>> /\ down' = Tail(down) /\ UNCHANGED <<serverVars, at>>
        /\ cepoch' = cepoch /\ (status # "up" => UNCHANGED clientVars)
    BY <1>9 DEF ClientPump, clientVars
  <2>2. PICK era \in Eras : EraParts(era)
    BY DEF DownInv, Eras, EraParts
  <2>3. status' = "up" => status = "up"
    BY <2>1 DEF clientVars
  <2>4. status' = "up" /\ saw' =>
          /\ InStep'
          /\ \/ saw /\ (down[1].kind = "snapshot" => era[1] = cepoch)
             \/ down[1].kind = "snapshot" /\ era[1] = cepoch
    BY <1>0, <1>9, <2>2, <2>3, PumpInStep DEF DownInv
  <2>5. InStep'
    BY <2>4 DEF InStep
  <2>6. \E e2 \in Eras' : EraParts(e2)'
    BY <1>0, <2>1, <2>2, <2>3, <2>4, DownTaken
  <2> QED BY <1>1, <2>5, <2>6 DEF DownInv, Eras, EraParts
<1> QED BY <1>2, <1>3, <1>4, <1>5, <1>6, <1>7, <1>8, <1>9 DEF Next, ServerPump

(* A client in session has folded exactly the server's prefix at its tick, *)
(* across joins, lost deltas, resyncs and the epochs installed meanwhile.  *)
THEOREM SpecInStep == Spec => []InStep
<1>1. DownInv => InStep
  BY DEF DownInv
<1>2. Init => UpInv /\ DownInv
  BY UpInitial, DownInitial
<1>3. UpInv /\ DownInv /\ [Next]_vars => UpInv' /\ DownInv'
  BY UpPreserved, DownPreserved
<1> QED BY <1>1, <1>2, <1>3, PTL DEF Spec


==============================================================================
