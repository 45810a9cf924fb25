---------------------------- MODULE ChannelProofs ----------------------------
(***************************************************************************)
(* Proofs about the two channels a frame loop keeps to another process.    *)
(* InferHost, for every SLO, every capacity of the channel and the pipes   *)
(* and every number of jobs: the types, what is reported and ingested, and *)
(* that the host implements the desk of JobDesk.  PoseStream, for any      *)
(* movers, dictionaries and reach of a delta: rows are decoded as they     *)
(* were made, and the client never goes back.                              *)
(***************************************************************************)
EXTENDS InferHost, PoseStream, SequenceTheorems, FiniteSetTheorems, TLAPS

(* The map agrees with the history of the jobs submitted.                  *)
Book ==
    /\ DOMAIN born \subseteq 1 .. next - 1
    /\ \A i \in DOMAIN born : born[i] \in 0 .. now
    /\ DOMAIN pending \subseteq DOMAIN born
    /\ \A i \in DOMAIN pending : pending[i] = born[i]

(* What is pending, or was never submitted, has not been reported.         *)
Told ==
    /\ reports \in [Ids -> 0 .. 1]
    /\ \A i \in Ids : i \in DOMAIN pending \/ i \notin DOMAIN born => reports[i] = 0

(* What was ingested was in time.                                          *)
Used == \A e \in ingested : e[1] \in DOMAIN born /\ e[2] - born[e[1]] \in 0 .. Slo

IInv == TypeOK /\ Book /\ Told /\ Used

(* A buffer of at most one frame, moved behind a bounded queue.            *)
LEMMA Moved ==
  ASSUME NEW s \in Frames, NEW t \in Frames, NEW cap \in Nat,
         Len(s) < cap, Len(t) <= 1
  PROVE  s \o t \in Frames /\ Len(s \o t) <= cap
  BY DEF Frames

(* What a round leaves of the map.                                         *)
LEMMA RestrictEffect ==
  ASSUME NEW f, NEW S
  PROVE  /\ DOMAIN Restrict(f, S) = S
         /\ \A i \in S : Restrict(f, S)[i] = f[i]
  BY DEF Restrict

(* The jobs a round answers, ages out and uses are pending, the last in    *)
(* time; what it keeps is in time too.                                     *)
LEMMA Round ==
  ASSUME IInv
  PROVE  /\ Answered \subseteq DOMAIN pending /\ AgedOut \subseteq DOMAIN pending
         /\ Unresolved = DOMAIN pending \ (Answered \union AgedOut)
         /\ InTime \subseteq Answered
         /\ \A i \in InTime \union Unresolved : now - born[i] \in 0 .. Slo
<1> USE InferAssumption
<1>1. \A i \in DOMAIN pending :
         /\ pending[i] = born[i] /\ born[i] \in Nat /\ born[i] <= now /\ now \in Nat
  BY DEF IInv, TypeOK, Book
<1>2. \A i \in DOMAIN pending : Fresh(pending[i]) => now - born[i] \in 0 .. Slo
  BY <1>1 DEF Fresh, Age
<1>3. \A i \in Unresolved : i \in DOMAIN pending /\ Fresh(pending[i])
  BY DEF Unresolved, Answered, AgedOut
<1> QED BY <1>2, <1>3 DEF Answered, AgedOut, InTime, Unresolved

THEOREM Initial == Init => IInv
<1> SUFFICES ASSUME Init PROVE IInv
  OBVIOUS
<1> USE InferAssumption DEF Init
<1>1. /\ pending = <<>> /\ born = <<>> /\ DOMAIN <<>> = {}
      /\ <<>> \in Seq(Ids) /\ <<>> \in Seq(Ids \union {Failed}) /\ Len(<<>>) = 0
  OBVIOUS
<1>2. TypeOK
  BY <1>1, TickAssumption DEF TypeOK, Frames
<1>3. Book /\ Told /\ Used
  BY <1>1 DEF Book, Told, Used, Ids
<1> QED BY <1>2, <1>3 DEF IInv

(* The steps of the pipeline move frames; what the frame keeps stays.      *)
LEMMA PipelineTyped ==
  ASSUME TypeOK, Ipc
  PROVE  TypeOK'
<1> USE InferAssumption
<1> DEFINE Seqs == Seq(Ids)
<1>1. /\ requests \in Seqs /\ writing \in Seqs /\ inpipe \in Seqs
      /\ filling \in Seqs /\ outpipe \in Seqs
      /\ Len(requests) <= IpcQueue /\ Len(writing) <= 1 /\ Len(filling) <= 1
      /\ Len(inpipe) <= PipeCap /\ Len(outpipe) <= PipeCap
      /\ replies \in Seq(Ids \union {Failed})
  BY DEF TypeOK, Frames
<1>2. /\ <<>> \in Seqs /\ Len(<<>>) = 0
      /\ Failed \in Ids \union {Failed} /\ Ids \subseteq Ids \union {Failed}
  OBVIOUS
<1>3. \A s \in Seqs : s # <<>> =>
          /\ Head(s) \in Ids /\ Tail(s) \in Seqs /\ Len(Tail(s)) = Len(s) - 1
          /\ <<Head(s)>> \in Seqs /\ Len(<<Head(s)>>) = 1
  OBVIOUS
<1>4. \A e \in Ids \union {Failed} : Append(replies, e) \in Seq(Ids \union {Failed})
  BY <1>1
<1> HIDE DEF Seqs
<1>5. CASE WriterTakes
  BY <1>1, <1>3, <1>5 DEF WriterTakes, TypeOK, Frames, histVars, Seqs
<1>6. CASE WriterWrites
  <2>1. inpipe \o writing \in Frames /\ Len(inpipe \o writing) <= PipeCap
    BY <1>6, Moved DEF WriterWrites, TypeOK
  <2> QED BY <1>2, <1>6, <2>1 DEF WriterWrites, TypeOK, Frames, hostVars, histVars, Seqs
<1>7. CASE WriterStops
  BY <1>2, <1>4, <1>7 DEF WriterStops, TypeOK, Frames, histVars, Seqs
<1>8. CASE ChildReads
  BY <1>1, <1>3, <1>8 DEF ChildReads, TypeOK, Frames, hostVars, histVars, Seqs
<1>9. CASE ChildAnswers
  <2>1. outpipe \o filling \in Frames /\ Len(outpipe \o filling) <= PipeCap
    BY <1>9, Moved DEF ChildAnswers, TypeOK
  <2> QED BY <1>2, <1>9, <2>1 DEF ChildAnswers, TypeOK, Frames, hostVars, histVars, Seqs
<1>10. CASE ChildDies
  BY <1>2, <1>10 DEF ChildDies, TypeOK, Frames, hostVars, histVars, Seqs
<1>11. CASE ReaderForwards
  <2>1. Head(outpipe) \in Ids \union {Failed}
    BY <1>1, <1>3, <1>11 DEF ReaderForwards
  <2> QED BY <1>1, <1>3, <1>4, <1>11, <2>1
          DEF ReaderForwards, TypeOK, Frames, hostVars, histVars, Seqs
<1>12. CASE ReaderFails
  BY <1>2, <1>4, <1>12 DEF ReaderFails, TypeOK, Frames, hostVars, histVars, Seqs
<1>13. CASE ReaderRejects
  BY <1>2, <1>4, <1>13 DEF ReaderRejects, TypeOK, Frames, hostVars, histVars, Seqs
<1> QED BY <1>5, <1>6, <1>7, <1>8, <1>9, <1>10, <1>11, <1>12, <1>13
        DEF Ipc, WriterFails, WriterEncodeFails

(* The pipeline is nobody's business but its own.                          *)
LEMMA PipelineHidden ==
  ASSUME Ipc
  PROVE  UNCHANGED <<now, enabled, pending, next, histVars>>
  BY DEF Ipc, WriterTakes, WriterWrites, WriterFails, WriterEncodeFails, WriterStops,
         ChildReads, ChildAnswers, ChildDies, ReaderForwards, ReaderFails,
         ReaderRejects, hostVars

THEOREM Preserved == IInv /\ [Next]_vars => IInv'
<1> SUFFICES ASSUME IInv, [Next]_vars PROVE IInv'
  OBVIOUS
<1> USE InferAssumption, TickAssumption
<1>1. TypeOK /\ Book /\ Told /\ Used
  BY DEF IInv
<1>2. CASE Poll
  <2>1. CASE ~enabled
    BY <1>1, <1>2, <2>1 DEF IInv, Poll, TypeOK, Book, Told, Used, Frames, ipcVars
  <2>2. CASE enabled
    <3> DEFINE left == IF Broken THEN {} ELSE Unresolved
               told == IF Broken THEN Answered ELSE Answered \union AgedOut
    <3>1. /\ DOMAIN pending' = left
          /\ \A i \in left : pending'[i] = pending[i]
          /\ Report(told) /\ Ingest(InTime)
      BY <1>2, <2>2, RestrictEffect DEF Poll
    <3>2. /\ left \subseteq DOMAIN pending /\ told \subseteq DOMAIN pending
          /\ left \cap told = {} /\ InTime \subseteq DOMAIN pending
          /\ \A i \in InTime : now - born[i] \in 0 .. Slo
      BY Round DEF IInv
    <3> HIDE DEF left, told
    <3>3. UNCHANGED <<now, next, born, requests, ipcVars>>
      BY <1>2 DEF Poll
    <3>4. TypeOK'
      <4>1. replies' = <<>> /\ <<>> \in Seq(Ids \union {Failed})
        BY <1>2, <2>2 DEF Poll
      <4> QED BY <1>1, <1>2, <2>2, <3>1, <3>2, <3>3, <4>1
              DEF Poll, TypeOK, Frames, ipcVars
    <3>5. Book'
      BY <1>1, <3>1, <3>2, <3>3 DEF Book
    <3>6. Told'
      <4>1. \A i \in Ids : reports'[i] = reports[i] + IF i \in told THEN 1 ELSE 0
        BY <3>1 DEF Report
      <4>2. \A i \in Ids : i \in told => reports[i] = 0
        BY <1>1, <3>2 DEF Told
      <4>3. reports' \in [Ids -> 0 .. 1]
        BY <1>1, <3>1, <4>2 DEF Told, Report
      <4>4. \A i \in Ids : i \in left \/ i \notin DOMAIN born => i \notin told
        BY <1>1, <3>2 DEF Book
      <4> QED BY <1>1, <3>1, <3>2, <3>3, <4>1, <4>3, <4>4 DEF Told
    <3>7. Used'
      BY <1>1, <3>1, <3>2, <3>3 DEF Used, Book, Ingest
    <3> QED BY <3>4, <3>5, <3>6, <3>7 DEF IInv
  <2> QED BY <1>1, <2>1, <2>2 DEF TypeOK
<1>3. CASE SimTick
  <2>1. now' \in 0 .. MaxTick /\ now <= now' /\ UNCHANGED <<pending, next, born, reports, ingested>>
    BY <1>1, <1>3 DEF SimTick, TypeOK, hostVars, histVars
  <2>2. TypeOK'
    BY <1>1, <1>3, <2>1 DEF SimTick, TypeOK, Frames, hostVars, ipcVars, histVars
  <2>3. Book' /\ Told' /\ Used'
    BY <1>1, <2>1 DEF Book, Told, Used, TypeOK
  <2> QED BY <2>2, <2>3 DEF IInv
<1>4. CASE KickOff
  <2>1. TypeOK'
    BY <1>1, <1>4 DEF KickOff, TypeOK, Frames, hostVars, ipcVars, histVars
  <2> QED BY <1>1, <1>4, <2>1 DEF KickOff, IInv, Book, Told, Used, hostVars, histVars
<1>5. CASE Kick
  <2>1. /\ next \in Ids /\ next \notin DOMAIN born /\ next \notin DOMAIN pending
        /\ next' = next + 1 /\ UNCHANGED <<now, enabled, ipcVars, replies, reports, ingested>>
    BY <1>1, <1>5 DEF Kick, Book, TypeOK, Ids
  <2>2. /\ DOMAIN pending' = DOMAIN pending \union {next} /\ pending'[next] = now
        /\ \A i \in DOMAIN pending : pending'[i] = pending[i]
    <3>1. pending' = With(pending, next, now)
      BY <1>5 DEF Kick
    <3> QED BY <2>1, <3>1 DEF With
  <2>3. /\ DOMAIN born' = DOMAIN born \union {next} /\ born'[next] = now
        /\ \A i \in DOMAIN born : born'[i] = born[i]
    <3>1. born' = With(born, next, now)
      BY <1>5 DEF Kick
    <3> QED BY <2>1, <3>1 DEF With
  <2>4. TypeOK'
    <3>1. requests' \in Seq(Ids) /\ Len(requests') <= IpcQueue
      BY <1>1, <1>5, <2>1 DEF Kick, TypeOK, Frames
    <3>2. next' \in 1 .. MaxJobs + 1
      BY <2>1 DEF Ids
    <3> QED BY <1>1, <1>5, <2>1, <2>2, <3>1, <3>2 DEF Kick, TypeOK, Frames, ipcVars
  <2>5. Book'
    <3>1. DOMAIN born' \subseteq 1 .. next' - 1
      BY <1>1, <2>1, <2>3 DEF Book, TypeOK, Ids
    <3>2. \A i \in DOMAIN born' : born'[i] \in 0 .. now'
      BY <1>1, <2>1, <2>3 DEF Book, TypeOK
    <3> QED BY <1>1, <2>1, <2>2, <2>3, <3>1, <3>2 DEF Book
  <2>6. Told' /\ Used'
    BY <1>1, <2>1, <2>2, <2>3 DEF Told, Used
  <2> QED BY <2>4, <2>5, <2>6 DEF IInv
<1>6. CASE KickFull \/ KickDisconnected
  <2>1. /\ next \in Ids /\ next' = next + 1
        /\ DOMAIN pending' \subseteq DOMAIN pending
        /\ \A i \in DOMAIN pending' : pending'[i] = pending[i]
        /\ UNCHANGED <<now, requests, ipcVars, replies, histVars>>
        /\ phase' = "poll" /\ enabled' \in BOOLEAN
    <3>1. CASE KickFull
      BY <1>1, <3>1 DEF KickFull, TypeOK
    <3>2. CASE KickDisconnected
      <4>1. pending' = <<>> /\ DOMAIN <<>> = {}
        BY <3>2 DEF KickDisconnected
      <4> QED BY <1>1, <3>2, <4>1 DEF KickDisconnected, TypeOK
    <3> QED BY <1>6, <3>1, <3>2
  <2>2. next' \in 1 .. MaxJobs + 1
    BY <2>1 DEF Ids
  <2>3. TypeOK'
    BY <1>1, <2>1, <2>2 DEF TypeOK, Frames, ipcVars
  <2>4. Book' /\ Told' /\ Used'
    BY <1>1, <2>1 DEF Book, Told, Used, TypeOK, histVars, Ids
  <2> QED BY <2>3, <2>4 DEF IInv
<1>7. CASE Ipc
  <2>1. TypeOK'
    BY <1>1, <1>7, PipelineTyped
  <2>2. UNCHANGED <<now, pending, next, born, reports, ingested>>
    BY <1>7, PipelineHidden DEF histVars
  <2> QED BY <1>1, <2>1, <2>2 DEF IInv, Book, Told, Used
<1>8. CASE UNCHANGED vars
  <2>1. TypeOK'
    BY <1>1, <1>8 DEF vars, hostVars, ipcVars, histVars, TypeOK, Frames
  <2> QED BY <1>1, <1>8, <2>1 DEF vars, hostVars, histVars, IInv, Book, Told, Used
<1> QED BY <1>2, <1>3, <1>4, <1>5, <1>6, <1>7, <1>8 DEF Next, Frame

THEOREM SpecIInv == Spec => []IInv
  BY Initial, Preserved, PTL DEF Spec

(* The types hold, the capacities of the channel and the pipes with them.  *)
THEOREM SpecTypeOK == Spec => []TypeOK
<1>1. IInv => TypeOK
  BY DEF IInv
<1> QED BY <1>1, SpecIInv, PTL

(* No job is reported twice, fresh or stale, whatever answers come late.   *)
THEOREM SpecReportedOnce == Spec => []ReportedOnce
<1>1. IInv => ReportedOnce
  BY DEF IInv, Told, ReportedOnce
<1> QED BY <1>1, SpecIInv, PTL

(* Nothing is ingested that is older than the SLO.                         *)
THEOREM SpecNothingLateIngested == Spec => []NothingLateIngested
<1>1. IInv => NothingLateIngested
  BY DEF IInv, Used, NothingLateIngested
<1> QED BY <1>1, SpecIInv, PTL

(* Every step of the host is a round of the desk or goes unseen: a kick    *)
(* submits, a poll settles or, when the pipeline broke, closes.            *)
LEMMA DeskStep == IInv /\ [Next]_vars => [Desk!Next]_(Desk!vars)
<1> SUFFICES ASSUME IInv, [Next]_vars PROVE [Desk!Next]_(Desk!vars)
  OBVIOUS
<1> DEFINE Same == UNCHANGED <<now, enabled, DOMAIN pending, born, ingested>>
<1>0. Same => UNCHANGED Desk!vars
  BY DEF Desk!vars
<1>1. TypeOK /\ Book
  BY DEF IInv
<1>2. CASE Poll
  <2>1. CASE ~enabled
    BY <1>0, <1>2, <2>1 DEF Poll
  <2>2. CASE enabled /\ ~Broken
    <3>1. /\ enabled' = TRUE /\ UNCHANGED <<now, born>>
          /\ DOMAIN pending' = Unresolved /\ Ingest(InTime)
      BY <1>2, <2>2, RestrictEffect DEF Poll
    <3> DEFINE S == Answered \union AgedOut
    <3>2. /\ S \in SUBSET DOMAIN pending /\ InTime \in SUBSET S
          /\ Unresolved = DOMAIN pending \ S
          /\ \A i \in InTime \union Unresolved : now - born[i] \in 0 .. Slo
      BY Round
    <3> HIDE DEF S
    <3>3. Desk!Settle(S, InTime)
      BY <2>2, <3>1, <3>2 DEF Desk!Settle, Desk!InTime, Desk!Use, Ingest
    <3> QED BY <3>2, <3>3 DEF Desk!Next
  <2>3. CASE enabled /\ Broken
    <3>1. /\ enabled' = FALSE /\ UNCHANGED <<now, born>>
          /\ DOMAIN pending' = {} /\ Ingest(InTime)
      <4>1. pending' = <<>> /\ DOMAIN <<>> = {}
        BY <1>2, <2>3 DEF Poll
      <4> QED BY <1>2, <2>3, <4>1 DEF Poll
    <3>2. /\ InTime \in SUBSET DOMAIN pending
          /\ \A i \in InTime : now - born[i] \in 0 .. Slo
      BY Round
    <3>3. Desk!Close(InTime)
      BY <2>3, <3>1, <3>2 DEF Desk!Close, Desk!InTime, Desk!Use, Ingest
    <3> QED BY <3>2, <3>3 DEF Desk!Next
  <2> QED BY <1>1, <2>1, <2>2, <2>3 DEF TypeOK
<1>3. CASE SimTick
  BY <1>3 DEF SimTick, Desk!Tick, Desk!Next, hostVars, histVars
<1>4. CASE KickOff \/ KickFull
  BY <1>0, <1>4 DEF KickOff, KickFull, hostVars, histVars
<1>5. CASE Kick
  <2>1. /\ enabled /\ enabled' /\ next \in Ids /\ next \notin DOMAIN born
        /\ UNCHANGED <<now, ingested>>
    BY <1>1, <1>5 DEF Kick, Book, TypeOK
  <2>2. pending' = With(pending, next, now) /\ born' = With(born, next, now)
    BY <1>5 DEF Kick
  <2>3. DOMAIN pending' = DOMAIN pending \union {next}
    BY <2>2 DEF With
  <2>4. Desk!Submit(next)
    BY <1>5, <2>1, <2>2, <2>3 DEF Kick, Desk!Submit, With
  <2> QED BY <2>1, <2>4 DEF Desk!Next
<1>6. CASE KickDisconnected
  <2>1. pending' = <<>> /\ DOMAIN <<>> = {}
    BY <1>6 DEF KickDisconnected
  <2>2. ingested' = ingested \union {<<j, now>> : j \in {}}
    BY <1>6 DEF KickDisconnected, histVars
  <2>3. Desk!Close({})
    BY <1>6, <2>1, <2>2
       DEF KickDisconnected, Desk!Close, Desk!InTime, Desk!Use, histVars
  <2> QED BY <2>3 DEF Desk!Next
<1>7. CASE Ipc
  BY <1>0, <1>7, PipelineHidden DEF histVars
<1>8. CASE UNCHANGED vars
  BY <1>0, <1>8 DEF vars, hostVars, histVars
<1> QED BY <1>2, <1>3, <1>4, <1>5, <1>6, <1>7, <1>8 DEF Next, Frame

(* The host implements the desk.                                           *)
THEOREM SpecImplementsDesk == Spec => ImplementsDesk
<1>1. Init => Desk!Init
  BY DEF Init, Desk!Init
<1> QED BY <1>1, SpecIInv, DeskStep, PTL DEF Spec, ImplementsDesk, Desk!Spec

-----------------------------------------------------------------------------
(* The pose stream.                                                        *)
Gens == 0 .. GenMod - 1
Points == 0 .. MaxPose \union {None}
Blocks == UNION {[D -> Int] : D \in SUBSET Nat}
Marks == UNION {[D -> Movers \X (0 .. MaxPose)] : D \in SUBSET Nat}

PosePackets ==
    [kind : {"interest"}, gen : Gens, dict : Dicts]
      \union [kind : {"resync"}]
      \union [kind : {"pose"}, gen : Gens, full : BOOLEAN, rows : Blocks, of : Marks]

PoseTypes ==
    /\ pose \in [Movers -> Points]
    /\ gen \in Gens /\ dict \in Dicts
    /\ base \in Blocks /\ DOMAIN base \subseteq DOMAIN dict
    /\ \A j \in DOMAIN base : base[j] \in 0 .. MaxPose
    /\ wire \in Seq(PosePackets)
    /\ cgen \in Gens /\ cdict \in Dicts
    /\ cbase \in [Movers -> Int] /\ applied \in [Movers -> Int]

LEMMA DictFacts ==
  ASSUME NEW d \in Dicts
  PROVE  /\ DOMAIN d \subseteq Nat
         /\ \A i \in DOMAIN d : d[i] \in Movers
         /\ \A i, j \in DOMAIN d : d[i] = d[j] => i = j
BY DEF Dicts, Injection, IsInjective

LEMMA NoDict ==
  <<>> \in Dicts /\ <<>> \in Blocks
<1>3. 0 \in 0 .. Cardinality(Movers)
  BY PoseAssumption, FS_CardinalityType
<1>4. <<>> \in Injection(1 .. 0, Movers)
  <2>1. <<>> \in [1 .. 0 -> Movers]
    OBVIOUS
  <2> QED BY <2>1 DEF Injection, IsInjective
<1>5. <<>> \in [{} -> Int]
  OBVIOUS
<1>6. <<>> \in Dicts
  BY <1>3, <1>4, Zenon DEF Dicts, Dicts
<1>7. <<>> \in Blocks
  BY <1>5, Zenon DEF Blocks
<1> QED BY <1>6, <1>7

LEMMA PoseTypesInit ==
  ASSUME PoseInit PROVE PoseTypes
<1>1. \A f \in [Movers -> {None}] : f \in [Movers -> Int]
  BY DEF None
<1>2. cbase \in [Movers -> {None}]
  BY DEF PoseInit
<1> QED BY <1>1, <1>2, NoDict, PoseAssumption DEF PoseInit, PoseTypes, Gens, Points, None

LEMMA RemovedFromWire ==
  ASSUME NEW w, NEW S, w \in Seq(S), NEW i \in DOMAIN w
  PROVE  /\ RemoveAt(w, i) \in Seq(S)
         /\ i = 1 => RemoveAt(w, i) = Tail(w)
BY DEF RemoveAt

(* Every row is given to at most one mover, and read once.                 *)
LEMMA RowOf ==
  ASSUME cdict \in Dicts, NEW p, NEW j \in DOMAIN cdict
  PROVE  {i \in DOMAIN Named(p.rows) : Named(p.rows)[i] = cdict[j]}
           = IF j \in DOMAIN p.rows THEN {j} ELSE {}
<1>1. \A i \in DOMAIN cdict : cdict[i] = cdict[j] => i = j
  BY DictFacts
<1> QED BY <1>1 DEF Named

LEMMA NewBaseOf ==
  ASSUME cdict \in Dicts, NEW p, NEW j \in DOMAIN cdict
  PROVE  NewBase(p, cdict[j])
           = IF p.full /\ j \in DOMAIN p.rows THEN p.rows[j] ELSE cbase[cdict[j]]
<1> DEFINE of == {i \in DOMAIN Named(p.rows) : Named(p.rows)[i] = cdict[j]}
<1>1. of = IF j \in DOMAIN p.rows THEN {j} ELSE {}
  BY RowOf
<1>2. NewBase(p, cdict[j])
        = IF of = {} THEN cbase[cdict[j]]
          ELSE IF p.full THEN p.rows[CHOOSE i \in of : TRUE] ELSE cbase[cdict[j]]
  BY DEF NewBase, FromRow
<1> QED BY <1>1, <1>2

LEMMA ShownOf ==
  ASSUME cdict \in Dicts, cdict' = cdict, NEW p, ApplyPose(p),
         NEW j \in DOMAIN p.rows \intersect DOMAIN cdict
  PROVE  applied'[cdict[j]] = Decode(p, cdict[j], p.rows[j])
<1> DEFINE of == {i \in DOMAIN Named(p.rows) : Named(p.rows)[i] = cdict[j]}
<1>1. of = {j}
  BY RowOf
<1>2. cdict[j] \in Movers
  BY DictFacts
<1>3. applied'[cdict[j]]
        = IF of = {} THEN applied[cdict[j]]
          ELSE Decode(p, cdict[j], p.rows[CHOOSE i \in of : TRUE])
  BY <1>2 DEF ApplyPose, FromRow
<1> QED BY <1>1, <1>3

LEMMA AppliedTypes ==
  ASSUME PoseTypes, NEW p, p.rows \in Blocks, ApplyPose(p)
  PROVE  cbase' \in [Movers -> Int] /\ applied' \in [Movers -> Int]
<1> DEFINE of(m) == {i \in DOMAIN Named(p.rows) : Named(p.rows)[i] = m}
           row(m) == p.rows[CHOOSE i \in of(m) : TRUE]
<1>1. \A m : of(m) # {} => row(m) \in Int
  <2>1. \A j \in DOMAIN p.rows : p.rows[j] \in Int
    BY DEF Blocks
  <2>2. \A m : of(m) \subseteq DOMAIN p.rows
    BY DEF Named
  <2> QED BY <2>1, <2>2
<1>2. cbase' = [m \in Movers |-> IF of(m) = {} THEN cbase[m]
                                ELSE IF p.full THEN row(m) ELSE cbase[m]]
  BY DEF ApplyPose, NewBase, FromRow
<1>3. applied' = [m \in Movers |-> IF of(m) = {} THEN applied[m]
                                  ELSE Decode(p, m, row(m))]
  BY DEF ApplyPose, FromRow
<1> HIDE DEF row, of
<1>4. \A m \in Movers : cbase[m] \in Int /\ applied[m] \in Int
  BY DEF PoseTypes
<1>5. \A m \in Movers : of(m) # {} => Decode(p, m, row(m)) \in Int
  BY <1>1, <1>4 DEF Decode
<1> QED BY <1>1, <1>2, <1>3, <1>4, <1>5

LEMMA RetainTypes ==
  ASSUME NEW f \in [Movers -> Int], NEW d PROVE Retain(f, d) \in [Movers -> Int]
BY DEF Retain, None

LEMMA OnWire ==
  ASSUME PoseTypes, NEW i \in DOMAIN wire
  PROVE  /\ wire[i] \in PosePackets
         /\ wire[i].kind = "interest" => wire[i].gen \in Gens /\ wire[i].dict \in Dicts
         /\ wire[i].kind = "pose" =>
              wire[i].gen \in Gens /\ wire[i].full \in BOOLEAN /\ wire[i].rows \in Blocks
<1>1. wire[i] \in PosePackets
  BY DEF PoseTypes
<1> QED BY <1>1 DEF PosePackets

LEMMA HandledTypes ==
  ASSUME PoseTypes, NEW i \in DOMAIN wire,
         \/ wire[i].kind = "interest" /\ HandleInterest(wire[i])
         \/ wire[i].kind = "resync" /\ HandleResync
         \/ wire[i].kind = "pose" /\ HandlePose(wire[i])
  PROVE  /\ cgen' \in Gens /\ cdict' \in Dicts
         /\ cbase' \in [Movers -> Int] /\ applied' \in [Movers -> Int]
<1>1. cgen \in Gens /\ cdict \in Dicts /\ cbase \in [Movers -> Int] /\ applied \in [Movers -> Int]
  BY DEF PoseTypes
<1>2. CASE wire[i].kind = "interest" /\ HandleInterest(wire[i])
  <2>1. CASE Accepts(wire[i].gen)
    BY <1>1, <1>2, <2>1, OnWire, RetainTypes DEF HandleInterest
  <2>2. CASE ~Accepts(wire[i].gen)
    BY <1>1, <1>2, <2>2 DEF HandleInterest
  <2> QED BY <2>1, <2>2
<1>3. CASE wire[i].kind = "resync" /\ HandleResync
  BY <1>1, <1>3 DEF HandleResync
<1>4. CASE wire[i].kind = "pose" /\ HandlePose(wire[i])
  <2>1. CASE wire[i].gen = cgen
    <3>1. ApplyPose(wire[i]) /\ cgen' = cgen /\ cdict' = cdict
      BY <1>4, <2>1 DEF HandlePose
    <3> QED BY <1>1, <1>4, <3>1, OnWire, AppliedTypes
  <2>2. CASE wire[i].gen # cgen
    BY <1>1, <1>4, <2>2 DEF HandlePose
  <2> QED BY <2>1, <2>2
<1> QED BY <1>2, <1>3, <1>4

LEMMA InBlocks ==
  ASSUME NEW S \in SUBSET Nat, NEW f \in [S -> Int] PROVE f \in Blocks
BY Zenon DEF Blocks

(* What flush_pose makes of the poses p.                                   *)
LEMMA RowsTypes ==
  ASSUME PoseTypes, NEW p \in [Movers -> Points]
  PROVE  /\ \A i \in Mapped(p) :
              i \in DOMAIN dict /\ i \in Nat /\ dict[i] \in Movers
                /\ p[dict[i]] \in 0 .. MaxPose
         /\ FullRows(p) \in Blocks
         /\ DOMAIN FullRows(p) = Mapped(p)
         /\ Rebased(p) \in Blocks /\ DOMAIN Rebased(p) \subseteq DOMAIN dict
         /\ \A j \in DOMAIN Rebased(p) : Rebased(p)[j] \in 0 .. MaxPose
<1>1. \A i \in Mapped(p) :
        i \in DOMAIN dict /\ i \in Nat /\ dict[i] \in Movers /\ p[dict[i]] \in 0 .. MaxPose
  <2>1. \A i \in DOMAIN dict : i \in Nat /\ dict[i] \in Movers
    BY DictFacts DEF PoseTypes
  <2>2. \A m \in Movers : p[m] \in Points
    OBVIOUS
  <2> QED BY <2>1, <2>2 DEF Mapped, Points
<1>2. \A S \in SUBSET Nat : \A f \in [S -> Int] : f \in Blocks
  BY InBlocks
<1>3. Mapped(p) \in SUBSET Nat
  BY <1>1
<1>4. FullRows(p) \in [Mapped(p) -> Int]
  BY <1>1 DEF FullRows
<1>5. /\ DOMAIN base \in SUBSET Nat /\ DOMAIN base \subseteq DOMAIN dict
      /\ \A j \in DOMAIN base : base[j] \in 0 .. MaxPose
  BY DEF PoseTypes, Blocks
<1>6. Rebased(p) \in [Mapped(p) \union DOMAIN base -> 0 .. MaxPose]
  BY <1>1, <1>5 DEF Rebased
<1>7. Rebased(p) \in [Mapped(p) \union DOMAIN base -> Int]
  BY <1>6
<1>8. Mapped(p) \union DOMAIN base \in SUBSET Nat
  BY <1>3, <1>5
<1>9. FullRows(p) \in Blocks /\ Rebased(p) \in Blocks
  BY <1>2, <1>3, <1>4, <1>7, <1>8
<1> QED BY <1>1, <1>4, <1>5, <1>6, <1>9

LEMMA DeltaTypes ==
  ASSUME PoseTypes, NEW p \in [Movers -> Points], ~MustSendFull(p)
  PROVE  /\ DeltaRows(p) \in Blocks
         /\ \A j \in DOMAIN DeltaRows(p) :
              /\ j \in Mapped(p) /\ j \in DOMAIN base
              /\ DeltaRows(p)[j] = p[dict[j]] - base[j]
<1>1. Mapped(p) \subseteq DOMAIN base
  BY DEF MustSendFull
<1> DEFINE D == {j \in Mapped(p) : p[dict[j]] # base[j]}
<1>2. DeltaRows(p) = [i \in D |-> p[dict[i]] - base[i]]
  BY DEF DeltaRows
<1>3. \A i \in D : i \in Nat /\ p[dict[i]] \in 0 .. MaxPose /\ base[i] \in 0 .. MaxPose
  BY <1>1, RowsTypes DEF PoseTypes
<1>4. D \in SUBSET Nat
  BY <1>3
<1>5. DeltaRows(p) \in [D -> Int]
  BY <1>2, <1>3, PoseAssumption
<1>6. DeltaRows(p) \in Blocks
  BY <1>4, <1>5 DEF Blocks
<1> QED BY <1>1, <1>2, <1>6

LEMMA SentTypes ==
  ASSUME PoseTypes, NEW p \in [Movers -> Points], NEW full \in BOOLEAN,
         NEW rows \in Blocks, DOMAIN rows \subseteq Mapped(p)
  PROVE  PosePacket(full, rows, p) \in PosePackets
<1> DEFINE of == [i \in DOMAIN rows |-> <<dict[i], p[dict[i]]>>]
<1>1. DOMAIN rows \in SUBSET Nat
  BY DEF Blocks
<1>2. of \in [DOMAIN rows -> Movers \X (0 .. MaxPose)]
  BY RowsTypes
<1>3. of \in Marks
  BY <1>1, <1>2 DEF Marks
<1>4. PosePacket(full, rows, p)
        = [kind |-> "pose", gen |-> gen, full |-> full, rows |-> rows, of |-> of]
  BY DEF PosePacket
<1> HIDE DEF of
<1> QED BY <1>3, <1>4 DEF PosePackets, PoseTypes

LEMMA PoseTypesKept ==
  ASSUME PoseTypes, PoseNext PROVE PoseTypes'
<1> USE DEF PoseTypes
<1> USE DEF serverVars, clientVars
<1>1. CASE SetInterest
  <2>1. PICK d \in Dicts, k \in Skips :
          /\ gen' = (gen + k) % GenMod /\ dict' = d
          /\ sendFull' = TRUE /\ base' = <<>> /\ age' = 0
          /\ wire' = Append(wire, Interest(gen', d))
    BY <1>1, Zenon DEF SetInterest, Dicts
  <2>2. gen' \in Gens
    BY <2>1, PoseAssumption DEF Gens
  <2>3. Interest(gen', d) \in PosePackets
    BY <2>2 DEF Interest, PosePackets
  <2>4. wire' \in Seq(PosePackets)
    BY <2>1, <2>3
  <2> QED BY <1>1, <2>1, <2>2, <2>4, NoDict DEF SetInterest
<1>2. CASE Resync
  <2>1. [kind |-> "resync"] \in PosePackets /\ Interest(gen, dict) \in PosePackets
    BY DEF Interest, PosePackets
  <2>2. wire' \in Seq(PosePackets)
    BY <1>2, <2>1 DEF Resync
  <2> QED BY <1>2, <2>2, NoDict DEF Resync
<1>3. ASSUME NEW p \in [Movers -> Points], FlushPose(p) PROVE PoseTypes'
  <2>1. CASE MustSendFull(p)
    <3>1. PosePacket(TRUE, FullRows(p), p) \in PosePackets
      <4>1. FullRows(p) \in Blocks /\ DOMAIN FullRows(p) \subseteq Mapped(p)
        BY RowsTypes
      <4> QED BY <4>1, SentTypes
    <3>2. wire' = Append(wire, PosePacket(TRUE, FullRows(p), p))
      BY <1>3, <2>1, Zenon DEF FlushPose
    <3>3. wire' \in Seq(PosePackets)
      BY <3>1, <3>2, AppendProperties
    <3> QED BY <1>3, <2>1, <3>3, RowsTypes DEF FlushPose
  <2>2. CASE ~MustSendFull(p)
    <3>1. DeltaRows(p) \in Blocks /\ DOMAIN DeltaRows(p) \subseteq Mapped(p)
      BY <2>2, DeltaTypes
    <3>2. PosePacket(FALSE, DeltaRows(p), p) \in PosePackets
      BY <3>1, SentTypes
    <3>3. wire' = Append(wire, PosePacket(FALSE, DeltaRows(p), p))
      BY <1>3, <2>2, Zenon DEF FlushPose
    <3>4. wire' \in Seq(PosePackets)
      BY <3>2, <3>3, AppendProperties
    <3> QED BY <1>3, <2>2, <3>4 DEF FlushPose
  <2> QED BY <2>1, <2>2
<1>4. CASE Tick
  <2>1. \A m \in Movers, x \in 0 .. MaxPose \union {None} :
          [pose EXCEPT ![m] = x] \in [Movers -> Points]
    BY DEF Points
  <2>2. pose \in [Movers -> Points]
    OBVIOUS
  <2> QED BY <1>3, <1>4, <2>1, <2>2 DEF Tick
<1>5. CASE ComeToRest
  BY <1>5 DEF ComeToRest
<1>6. ASSUME NEW i \in DOMAIN wire, Arrive(i)
      PROVE  wire' \in Seq(PosePackets) /\ UNCHANGED <<pose, gen, dict, base>>
  BY <1>6, RemovedFromWire DEF Arrive
<1>7. CASE DeliverControl
  <2>1. PICK i \in DOMAIN wire :
          /\ Arrive(i)
          /\ \/ wire[i].kind = "interest" /\ HandleInterest(wire[i])
             \/ wire[i].kind = "resync" /\ HandleResync
    BY <1>7 DEF DeliverControl
  <2> QED BY <1>6, <2>1, HandledTypes
<1>8. CASE DeliverFull \/ DeliverDelta
  <2>1. PICK i \in DOMAIN wire :
          Arrive(i) /\ wire[i].kind = "pose" /\ HandlePose(wire[i])
    BY <1>8 DEF DeliverFull, DeliverDelta, IsPose
  <2> QED BY <1>6, <2>1, HandledTypes
<1>9. CASE Lose
  BY <1>6, <1>9 DEF Lose
<1> QED BY <1>1, <1>2, <1>4, <1>5, <1>7, <1>8, <1>9 DEF PoseNext

LEMMA PoseTypesStay ==
  ASSUME PoseTypes, UNCHANGED <<poseVars, faults>> PROVE PoseTypes'
BY DEF PoseTypes, poseVars, serverVars, clientVars

-----------------------------------------------------------------------------
(* What a client c = [gen, dict, base] will know when it comes to packet i *)
(* of the wire w: the dictionary d of generation g, if it is still at that *)
(* generation then, and under it the baseline b of row j.                  *)
Quiet(w, k, i) == \A q \in k + 1 .. i - 1 : w[q].kind # "interest"
Carries(p, j) == p.kind = "pose" /\ p.full /\ j \in DOMAIN p.rows
Unmoved(w, k, i, j) == \A q \in k + 1 .. i - 1 : ~Carries(w[q], j)

DictAt(w, c, i, g, d) ==
    \/ \E k \in 1 .. i - 1 : /\ w[k].kind = "interest" /\ w[k].gen = g /\ w[k].dict = d
                             /\ Quiet(w, k, i)
    \/ Quiet(w, 0, i) /\ (c.gen = g => c.dict = d)

BaseAt(w, c, i, g, d, j, b) ==
    \/ \E k \in 1 .. i - 1 : /\ Carries(w[k], j) /\ w[k].gen = g /\ w[k].rows[j] = b
                             /\ Quiet(w, k, i) /\ Unmoved(w, k, i, j)
    \/ Quiet(w, 0, i) /\ Unmoved(w, 0, i, j) /\ (c.gen = g => c.base[d[j]] = b)

(* A pose on the wire is for the dictionary it will find, its Deltas are   *)
(* against the baselines they will find.                                   *)
RowFits(w, c, i, d, j) ==
    LET p == w[i] IN
    /\ j \in DOMAIN d /\ j \in DOMAIN p.of /\ p.of[j][1] = d[j]
    /\ p.full => p.rows[j] = p.of[j][2]
    /\ ~p.full => \E b \in 0 .. MaxPose :
                    p.of[j][2] = b + p.rows[j] /\ BaseAt(w, c, i, p.gen, d, j, b)
PoseFits(w, c, i) ==
    \E d \in Dicts : /\ DictAt(w, c, i, w[i].gen, d)
                     /\ \A j \in DOMAIN w[i].rows : RowFits(w, c, i, d, j)

Client == [gen |-> cgen, dict |-> cdict, base |-> cbase]

(* So are the dictionary and the baselines the next pose will be made with. *)
ServerFits ==
    /\ DictAt(wire, Client, Len(wire) + 1, gen, dict)
    /\ \A j \in DOMAIN base :
         BaseAt(wire, Client, Len(wire) + 1, gen, dict, j, base[j])

InOrder ==
    faults = {} =>
        /\ right /\ ServerFits
        /\ \A i \in DOMAIN wire : wire[i].kind = "pose" => PoseFits(wire, Client, i)

PoseInv == PoseTypes /\ InOrder

-----------------------------------------------------------------------------
(* Behind what is appended nothing changes.                                *)
LEMMA AppendedAt ==
  ASSUME NEW S, NEW w \in Seq(S), NEW x \in S
  PROVE  /\ Append(w, x) \in Seq(S) /\ Len(Append(w, x)) = Len(w) + 1
         /\ \A q \in 1 .. Len(w) : Append(w, x)[q] = w[q]
         /\ Append(w, x)[Len(w) + 1] = x
  OBVIOUS

LEMMA DictStays ==
  ASSUME NEW S, NEW w \in Seq(S), NEW x \in S, NEW c, NEW g, NEW d,
         NEW i \in 1 .. Len(w) + 1, DictAt(w, c, i, g, d)
  PROVE  DictAt(Append(w, x), c, i, g, d)
<1> DEFINE v == Append(w, x)
<1>1. \A q \in 1 .. i - 1 : v[q] = w[q]
  BY AppendedAt
<1> HIDE DEF v
<1>2. \A k \in 0 .. i - 1 : Quiet(w, k, i) => Quiet(v, k, i)
  BY <1>1 DEF Quiet
<1>3. 0 \in 0 .. i - 1 /\ 1 .. i - 1 \subseteq 0 .. i - 1
  OBVIOUS
<1>4. DictAt(v, c, i, g, d)
  BY <1>1, <1>2, <1>3 DEF DictAt
<1> QED BY <1>4 DEF v

LEMMA BaseStays ==
  ASSUME NEW S, NEW w \in Seq(S), NEW x \in S, NEW c, NEW g, NEW d, NEW j, NEW b,
         NEW i \in 1 .. Len(w) + 1, BaseAt(w, c, i, g, d, j, b)
  PROVE  BaseAt(Append(w, x), c, i, g, d, j, b)
<1> DEFINE v == Append(w, x)
<1>1. \A q \in 1 .. i - 1 : v[q] = w[q]
  BY AppendedAt
<1> HIDE DEF v
<1>2. \A k \in 0 .. i - 1 : /\ Quiet(w, k, i) => Quiet(v, k, i)
                            /\ Unmoved(w, k, i, j) => Unmoved(v, k, i, j)
  BY <1>1 DEF Quiet, Unmoved
<1>3. 0 \in 0 .. i - 1 /\ 1 .. i - 1 \subseteq 0 .. i - 1
  OBVIOUS
<1>4. BaseAt(v, c, i, g, d, j, b)
  BY <1>1, <1>2, <1>3 DEF BaseAt
<1> QED BY <1>4 DEF v

LEMMA FitsStay ==
  ASSUME NEW S, NEW w \in Seq(S), NEW x \in S, NEW c,
         NEW i \in 1 .. Len(w), PoseFits(w, c, i)
  PROVE  PoseFits(Append(w, x), c, i)
<1> DEFINE v == Append(w, x)
<1>1. v[i] = w[i] /\ i \in 1 .. Len(w) + 1
  BY AppendedAt
<1>2. PICK d \in Dicts : /\ DictAt(w, c, i, w[i].gen, d)
                         /\ \A j \in DOMAIN w[i].rows : RowFits(w, c, i, d, j)
  BY DEF PoseFits
<1>3. DictAt(v, c, i, w[i].gen, d)
  BY <1>1, <1>2, DictStays
<1>4. \A g, j, b : BaseAt(w, c, i, g, d, j, b) => BaseAt(v, c, i, g, d, j, b)
  BY <1>1, BaseStays
<1> HIDE DEF v
<1>5. \A j \in DOMAIN v[i].rows : RowFits(v, c, i, d, j)
  BY <1>1, <1>2, <1>4 DEF RowFits
<1>6. PoseFits(v, c, i)
  BY <1>1, <1>3, <1>5 DEF PoseFits
<1> QED BY <1>6 DEF v

(* One packet further, unless it is a dictionary or moves the baseline.    *)
LEMMA DictPasses ==
  ASSUME NEW S, NEW w \in Seq(S), NEW x \in S, NEW c, NEW g, NEW d,
         DictAt(w, c, Len(w) + 1, g, d), x.kind # "interest"
  PROVE  DictAt(Append(w, x), c, Len(w) + 2, g, d)
<1> DEFINE v == Append(w, x)
           n == Len(w)
<1>1. n \in Nat /\ (\A q \in 1 .. n : v[q] = w[q]) /\ v[n + 1] = x
  BY AppendedAt
<1> HIDE DEF v, n
<1>2. \A k \in 0 .. n : Quiet(w, k, n + 1) => Quiet(v, k, n + 2)
  BY <1>1 DEF Quiet
<1>3. DictAt(w, c, n + 1, g, d)
  BY DEF n
<1>4. DictAt(v, c, n + 2, g, d)
  BY <1>1, <1>2, <1>3 DEF DictAt
<1> QED BY <1>4 DEF v, n

LEMMA BasePasses ==
  ASSUME NEW S, NEW w \in Seq(S), NEW x \in S, NEW c, NEW g, NEW d, NEW j, NEW b,
         BaseAt(w, c, Len(w) + 1, g, d, j, b), x.kind # "interest", ~Carries(x, j)
  PROVE  BaseAt(Append(w, x), c, Len(w) + 2, g, d, j, b)
<1> DEFINE v == Append(w, x)
           n == Len(w)
<1>1. n \in Nat /\ (\A q \in 1 .. n : v[q] = w[q]) /\ v[n + 1] = x
  BY AppendedAt
<1> HIDE DEF v, n
<1>2. \A k \in 0 .. n : /\ Quiet(w, k, n + 1) => Quiet(v, k, n + 2)
                        /\ Unmoved(w, k, n + 1, j) => Unmoved(v, k, n + 2, j)
  BY <1>1 DEF Quiet, Unmoved
<1>3. BaseAt(w, c, n + 1, g, d, j, b)
  BY DEF n
<1>4. BaseAt(v, c, n + 2, g, d, j, b)
  BY <1>1, <1>2, <1>3 DEF BaseAt
<1> QED BY <1>4 DEF v, n

LEMMA BaseMoves ==
  ASSUME NEW S, NEW w \in Seq(S), NEW x \in S, NEW c, NEW d, NEW j, Carries(x, j)
  PROVE  BaseAt(Append(w, x), c, Len(w) + 2, x.gen, d, j, x.rows[j])
<1> DEFINE v == Append(w, x)
           n == Len(w)
<1>1. n \in Nat /\ v[n + 1] = x
  BY AppendedAt
<1> HIDE DEF v, n
<1>2. Quiet(v, n + 1, n + 2) /\ Unmoved(v, n + 1, n + 2, j)
  BY <1>1 DEF Quiet, Unmoved
<1>3. BaseAt(v, c, n + 2, x.gen, d, j, x.rows[j])
  BY <1>1, <1>2 DEF BaseAt
<1> QED BY <1>3 DEF v, n

-----------------------------------------------------------------------------
(* The client e that c has become with the packet p.                       *)
Took(c, p, e) ==
    \/ p.kind = "resync" /\ e = c
    \/ p.kind = "interest" /\ e.gen = p.gen /\ e.dict = p.dict
    \/ p.kind = "interest" /\ e = c /\ c.gen # p.gen
    \/ p.kind = "pose" /\ e = c /\ c.gen # p.gen
    \/ /\ p.kind = "pose" /\ e.gen = c.gen /\ e.dict = c.dict
       /\ \A j \in DOMAIN c.dict :
            e.base[c.dict[j]] = IF p.full /\ j \in DOMAIN p.rows THEN p.rows[j]
                                ELSE c.base[c.dict[j]]

LEMMA TailAt ==
  ASSUME NEW S, NEW w \in Seq(S), w # <<>>
  PROVE  /\ Tail(w) \in Seq(S) /\ Len(Tail(w)) = Len(w) - 1 /\ Len(w) \in Nat \ {0}
         /\ \A q \in 1 .. Len(w) - 1 : Tail(w)[q] = w[q + 1]
  OBVIOUS

LEMMA QuietTail ==
  ASSUME NEW S, NEW w \in Seq(S), w # <<>>, NEW i \in 2 .. Len(w) + 1
  PROVE  /\ \A k \in 1 .. i - 1 : Quiet(w, k, i) => Quiet(Tail(w), k - 1, i - 1)
         /\ \A j : \A k \in 1 .. i - 1 :
              Unmoved(w, k, i, j) => Unmoved(Tail(w), k - 1, i - 1, j)
         /\ Quiet(w, 0, i) => Quiet(w, 1, i) /\ w[1].kind # "interest"
         /\ \A j : Unmoved(w, 0, i, j) => Unmoved(w, 1, i, j) /\ ~Carries(w[1], j)
<1> DEFINE v == Tail(w)
<1>1. Len(w) \in Nat /\ \A q \in 1 .. Len(w) - 1 : v[q] = w[q + 1]
  BY TailAt
<1> HIDE DEF v
<1>2. ASSUME NEW k \in 1 .. i - 1, NEW q \in k - 1 + 1 .. i - 1 - 1
      PROVE  q + 1 \in k + 1 .. i - 1 /\ v[q] = w[q + 1]
  BY <1>1
<1>3. \A k \in 1 .. i - 1 : Quiet(w, k, i) => Quiet(v, k - 1, i - 1)
  BY <1>2 DEF Quiet
<1>4. \A j : \A k \in 1 .. i - 1 : Unmoved(w, k, i, j) => Unmoved(v, k - 1, i - 1, j)
  BY <1>2 DEF Unmoved
<1>5. 1 \in 0 + 1 .. i - 1 /\ 1 + 1 .. i - 1 \subseteq 0 + 1 .. i - 1
  OBVIOUS
<1> QED BY <1>3, <1>4, <1>5 DEF Quiet, Unmoved, v

LEMMA DictArrives ==
  ASSUME NEW S, NEW w \in Seq(S), w # <<>>, NEW c, NEW e, Took(c, w[1], e),
         NEW g, NEW d, NEW i \in 2 .. Len(w) + 1, DictAt(w, c, i, g, d)
  PROVE  DictAt(Tail(w), e, i - 1, g, d)
<1> DEFINE v == Tail(w)
<1>1. /\ Len(w) \in Nat /\ \A q \in 1 .. Len(w) - 1 : v[q] = w[q + 1]
      /\ \A k \in 1 .. i - 1 : Quiet(w, k, i) => Quiet(v, k - 1, i - 1)
      /\ Quiet(w, 0, i) => Quiet(w, 1, i) /\ w[1].kind # "interest"
  BY TailAt, QuietTail
<1> HIDE DEF v
<1>2. ASSUME NEW k \in 2 .. i - 1, w[k].kind = "interest", w[k].gen = g, w[k].dict = d,
             Quiet(w, k, i)
      PROVE  DictAt(v, e, i - 1, g, d)
  <2>1. k - 1 \in 1 .. i - 1 - 1 /\ v[k - 1] = w[k] /\ Quiet(v, k - 1, i - 1)
    BY <1>1, <1>2
  <2> QED BY <1>2, <2>1 DEF DictAt
<1>3. ASSUME w[1].kind = "interest", w[1].gen = g, w[1].dict = d, Quiet(w, 1, i)
      PROVE  DictAt(v, e, i - 1, g, d)
  <2>1. e.gen = g => e.dict = d
    BY <1>3 DEF Took
  <2>2. Quiet(v, 0, i - 1)
    BY <1>1, <1>3
  <2> QED BY <2>1, <2>2 DEF DictAt
<1>4. ASSUME Quiet(w, 0, i), c.gen = g => c.dict = d
      PROVE  DictAt(v, e, i - 1, g, d)
  <2>1. e.gen = g => e.dict = d
    BY <1>1, <1>4 DEF Took
  <2>2. Quiet(v, 0, i - 1)
    BY <1>1, <1>4
  <2> QED BY <2>1, <2>2 DEF DictAt
<1>5. DictAt(v, e, i - 1, g, d)
  <2>1. \A k \in 1 .. i - 1 : k = 1 \/ k \in 2 .. i - 1
    OBVIOUS
  <2> QED BY <1>2, <1>3, <1>4, <2>1 DEF DictAt
<1> QED BY <1>5 DEF v

LEMMA BaseArrives ==
  ASSUME NEW S, NEW w \in Seq(S), w # <<>>, NEW c, NEW e, Took(c, w[1], e),
         NEW g, NEW d, NEW i \in 2 .. Len(w) + 1, DictAt(w, c, i, g, d),
         NEW j \in DOMAIN d, NEW b, BaseAt(w, c, i, g, d, j, b)
  PROVE  BaseAt(Tail(w), e, i - 1, g, d, j, b)
<1> DEFINE v == Tail(w)
<1>1. /\ Len(w) \in Nat /\ \A q \in 1 .. Len(w) - 1 : v[q] = w[q + 1]
      /\ \A k \in 1 .. i - 1 : Quiet(w, k, i) => Quiet(v, k - 1, i - 1)
      /\ \A k \in 1 .. i - 1 : Unmoved(w, k, i, j) => Unmoved(v, k - 1, i - 1, j)
      /\ Quiet(w, 0, i) => Quiet(w, 1, i) /\ w[1].kind # "interest"
      /\ Unmoved(w, 0, i, j) => Unmoved(w, 1, i, j) /\ ~Carries(w[1], j)
  BY TailAt, QuietTail
<1> HIDE DEF v
<1>2. ASSUME NEW k \in 2 .. i - 1, Carries(w[k], j), w[k].gen = g, w[k].rows[j] = b,
             Quiet(w, k, i), Unmoved(w, k, i, j)
      PROVE  BaseAt(v, e, i - 1, g, d, j, b)
  <2>1. /\ k - 1 \in 1 .. i - 1 - 1 /\ v[k - 1] = w[k] /\ Quiet(v, k - 1, i - 1)
        /\ Unmoved(v, k - 1, i - 1, j)
    BY <1>1, <1>2
  <2> QED BY <1>2, <2>1 DEF BaseAt
<1>3. ASSUME w[1].kind # "interest", Quiet(w, 1, i), c.gen = g PROVE c.dict = d
  <2>1. ~\E k \in 1 .. i - 1 : w[k].kind = "interest" /\ Quiet(w, k, i)
    <3>1. \A k \in 1 .. i - 1 : k = 1 \/ k \in 1 + 1 .. i - 1
      OBVIOUS
    <3> QED BY <1>3, <3>1 DEF Quiet
  <2> QED BY <1>3, <2>1 DEF DictAt
<1>4. ASSUME Carries(w[1], j), w[1].gen = g, w[1].rows[j] = b, Quiet(w, 1, i),
             Unmoved(w, 1, i, j)
      PROVE  BaseAt(v, e, i - 1, g, d, j, b)
  <2>1. w[1].kind = "pose" /\ w[1].full /\ j \in DOMAIN w[1].rows
    BY <1>4 DEF Carries
  <2>2. ASSUME e.gen = g PROVE e.base[d[j]] = b
    <3>1. /\ c.gen = g
          /\ \A n \in DOMAIN c.dict :
               e.base[c.dict[n]] = IF w[1].full /\ n \in DOMAIN w[1].rows
                                   THEN w[1].rows[n] ELSE c.base[c.dict[n]]
      BY <1>4, <2>1, <2>2 DEF Took
    <3>2. c.dict = d
      BY <1>3, <1>4, <2>1, <3>1
    <3> QED BY <1>4, <2>1, <3>1, <3>2
  <2>3. Quiet(v, 0, i - 1) /\ Unmoved(v, 0, i - 1, j)
    BY <1>1, <1>4
  <2> QED BY <2>2, <2>3 DEF BaseAt
<1>5. ASSUME Quiet(w, 0, i), Unmoved(w, 0, i, j), c.gen = g => c.base[d[j]] = b
      PROVE  BaseAt(v, e, i - 1, g, d, j, b)
  <2>1. /\ w[1].kind # "interest" /\ Quiet(w, 1, i)
        /\ ~Carries(w[1], j) /\ Unmoved(w, 1, i, j)
    BY <1>1, <1>5
  <2>2. ASSUME e.gen = g PROVE e.base[d[j]] = b
    <3>1. c.gen = g
      BY <2>1, <2>2 DEF Took
    <3>2. c.dict = d /\ c.base[d[j]] = b
      BY <1>3, <1>5, <2>1, <3>1
    <3> QED BY <2>1, <3>1, <3>2 DEF Took, Carries
  <2>3. Quiet(v, 0, i - 1) /\ Unmoved(v, 0, i - 1, j)
    BY <1>1, <2>1
  <2> QED BY <2>2, <2>3 DEF BaseAt
<1>6. BaseAt(v, e, i - 1, g, d, j, b)
  <2>1. \A k \in 1 .. i - 1 : k = 1 \/ k \in 2 .. i - 1
    OBVIOUS
  <2> QED BY <1>2, <1>4, <1>5, <2>1 DEF BaseAt
<1> QED BY <1>6 DEF v

LEMMA FitsArrive ==
  ASSUME NEW S, NEW w \in Seq(S), w # <<>>, NEW c, NEW e, Took(c, w[1], e),
         NEW i \in 2 .. Len(w), PoseFits(w, c, i)
  PROVE  PoseFits(Tail(w), e, i - 1)
<1> DEFINE v == Tail(w)
<1>1. v[i - 1] = w[i] /\ i \in 2 .. Len(w) + 1
  BY TailAt
<1>2. PICK d \in Dicts : /\ DictAt(w, c, i, w[i].gen, d)
                         /\ \A j \in DOMAIN w[i].rows : RowFits(w, c, i, d, j)
  BY DEF PoseFits
<1>3. DictAt(v, e, i - 1, w[i].gen, d)
  BY <1>1, <1>2, DictArrives
<1>4. \A j \in DOMAIN d : \A b : BaseAt(w, c, i, w[i].gen, d, j, b)
                                   => BaseAt(v, e, i - 1, w[i].gen, d, j, b)
  BY <1>1, <1>2, BaseArrives
<1> HIDE DEF v
<1>5. \A j \in DOMAIN v[i - 1].rows : RowFits(v, e, i - 1, d, j)
  BY <1>1, <1>2, <1>4 DEF RowFits
<1>6. PoseFits(v, e, i - 1)
  BY <1>1, <1>2, <1>3, <1>5 DEF PoseFits
<1> QED BY <1>6 DEF v

-----------------------------------------------------------------------------
LEMMA HeadDecodes ==
  ASSUME PoseTypes, wire # <<>>, wire[1].kind = "pose",
         wire[1].gen = cgen, PoseFits(wire, Client, 1),
         ApplyPose(wire[1]), cdict' = cdict
  PROVE  right => right'
<1> DEFINE p == wire[1]
<1>1. 1 \in DOMAIN wire
  BY DEF PoseTypes
<1>2. p.of \in Marks /\ p.rows \in Blocks /\ p.full \in BOOLEAN
  BY <1>1, OnWire DEF PosePackets
<1>3. Client.gen = cgen /\ Client.dict = cdict /\ Client.base = cbase
  BY DEF Client
<1>4. \A j \in DOMAIN p.rows : RowFits(wire, Client, 1, cdict, j)
  BY <1>3 DEF PoseFits, DictAt
<1>5. ASSUME NEW j \in DOMAIN Named(p.rows)
      PROVE  p.of[j] = <<cdict[j], applied'[cdict[j]]>>
  <2>1. j \in DOMAIN p.rows \intersect DOMAIN cdict
    BY <1>5 DEF Named
  <2>2. applied'[cdict[j]] = Decode(p, cdict[j], p.rows[j])
    BY <2>1, ShownOf DEF PoseTypes
  <2>3. /\ j \in DOMAIN p.of /\ p.of[j][1] = cdict[j]
        /\ p.full => p.rows[j] = p.of[j][2]
        /\ ~p.full => \E b \in 0 .. MaxPose :
             p.of[j][2] = b + p.rows[j] /\ BaseAt(wire, Client, 1, p.gen, cdict, j, b)
    BY <1>4, <2>1 DEF RowFits
  <2>4. p.of[j] \in Movers \X (0 .. MaxPose)
    <3>1. PICK D \in SUBSET Nat : p.of \in [D -> Movers \X (0 .. MaxPose)]
      BY <1>2, Zenon DEF Marks
    <3> QED BY <2>3, <3>1
  <2>5. Decode(p, cdict[j], p.rows[j]) = p.of[j][2]
    <3>1. CASE p.full
      BY <2>3, <3>1 DEF Decode
    <3>2. CASE ~p.full
      <4>1. PICK b \in 0 .. MaxPose :
              p.of[j][2] = b + p.rows[j] /\ BaseAt(wire, Client, 1, p.gen, cdict, j, b)
        BY <2>3, <3>2
      <4>2. cbase[cdict[j]] = b
        BY <1>3, <4>1 DEF BaseAt
      <4>3. b # None
        BY <4>1, PoseAssumption DEF None
      <4> QED BY <3>2, <4>1, <4>2, <4>3 DEF Decode
    <3> QED BY <3>1, <3>2
  <2> QED BY <2>2, <2>3, <2>4, <2>5
<1> QED BY <1>5 DEF ApplyPose

LEMMA TakesHead ==
  ASSUME PoseTypes, wire # <<>>,
         \/ wire[1].kind = "interest" /\ HandleInterest(wire[1])
         \/ wire[1].kind = "resync" /\ HandleResync
         \/ wire[1].kind = "pose" /\ HandlePose(wire[1])
  PROVE  Took(Client, wire[1], Client')
<1> DEFINE p == wire[1]
<1>1. cdict \in Dicts /\ cgen \in Gens
  BY DEF PoseTypes
<1>2. CASE p.kind = "interest" /\ HandleInterest(p)
  <2>1. CASE Accepts(p.gen)
    BY <1>2, <2>1 DEF HandleInterest, Took, Client
  <2>2. CASE ~Accepts(p.gen)
    BY <1>2, <2>2 DEF HandleInterest, Accepts, GenOk, Took, Client
  <2> QED BY <2>1, <2>2
<1>3. CASE p.kind = "resync" /\ HandleResync
  BY <1>3 DEF HandleResync, Took, Client
<1>4. CASE p.kind = "pose" /\ HandlePose(p)
  <2>1. CASE p.gen # cgen
    BY <1>4, <2>1 DEF HandlePose, Took, Client
  <2>2. CASE p.gen = cgen
    <3>1. ApplyPose(p) /\ cgen' = cgen /\ cdict' = cdict
      BY <1>4, <2>2 DEF HandlePose
    <3>2. ASSUME NEW j \in DOMAIN cdict
          PROVE  cbase'[cdict[j]] = IF p.full /\ j \in DOMAIN p.rows THEN p.rows[j]
                                    ELSE cbase[cdict[j]]
      <4>1. cdict[j] \in Movers
        BY <1>1, DictFacts
      <4>2. cbase'[cdict[j]] = NewBase(p, cdict[j])
        BY <3>1, <4>1 DEF ApplyPose
      <4> QED BY <1>1, <4>2, NewBaseOf
    <3> QED BY <1>4, <3>1, <3>2 DEF Took, Client
  <2> QED BY <2>1, <2>2
<1> QED BY <1>2, <1>3, <1>4

(* A packet arrives on the wire of the code, which is a queue.             *)
LEMMA ArrivesInOrder ==
  ASSUME PoseInv, faults = {}, NEW i \in DOMAIN wire, Arrive(i),
         \/ wire[i].kind = "interest" /\ HandleInterest(wire[i]) /\ right' = right
         \/ wire[i].kind = "resync" /\ HandleResync /\ right' = right
         \/ wire[i].kind = "pose" /\ HandlePose(wire[i])
  PROVE  InOrder'
<1> USE DEF PoseInv
<1>1. i = 1 /\ wire # <<>> /\ wire \in Seq(PosePackets)
  BY DEF Arrive, CanArrive, PoseTypes
<1>2. wire' = Tail(wire) /\ UNCHANGED <<gen, dict, base>>
  BY <1>1, RemovedFromWire DEF Arrive, serverVars
<1>3. Took(Client, wire[1], Client')
  BY <1>1, TakesHead
<1>4. right /\ ServerFits
      /\ \A n \in DOMAIN wire : wire[n].kind = "pose" => PoseFits(wire, Client, n)
  BY DEF InOrder
<1> DEFINE c == Client
           e == Client'
           v == Tail(wire)
<1>5. /\ Len(wire) \in Nat \ {0} /\ Len(v) = Len(wire) - 1 /\ v \in Seq(PosePackets)
      /\ \A n \in 1 .. Len(wire) - 1 : v[n] = wire[n + 1]
  BY <1>1, TailAt
<1>6. right'
  <2>1. CASE wire[1].kind = "pose" /\ HandlePose(wire[1]) /\ wire[1].gen = cgen
    <3>1. ApplyPose(wire[1]) /\ cdict' = cdict
      BY <2>1 DEF HandlePose
    <3>2. PoseFits(wire, Client, 1)
      BY <1>1, <1>4, <2>1
    <3> QED BY <1>1, <1>4, <2>1, <3>1, <3>2, HeadDecodes
  <2>2. CASE ~(wire[1].kind = "pose" /\ HandlePose(wire[1]) /\ wire[1].gen = cgen)
    BY <1>1, <1>4, <2>2 DEF HandlePose
  <2> QED BY <2>1, <2>2
<1> HIDE DEF c, e, v
<1>7. Len(wire) + 1 \in 2 .. Len(wire) + 1 /\ Len(v) + 1 = Len(wire) + 1 - 1
  BY <1>5
<1>8. DictAt(wire, c, Len(wire) + 1, gen, dict)
      /\ \A j \in DOMAIN base : BaseAt(wire, c, Len(wire) + 1, gen, dict, j, base[j])
  BY <1>4 DEF ServerFits, c
<1>9. DictAt(v, e, Len(v) + 1, gen, dict)
  <2>1. DictAt(Tail(wire), Client', Len(wire) + 1 - 1, gen, dict)
    BY <1>1, <1>3, <1>7, <1>8, DictArrives DEF c
  <2> QED BY <1>7, <2>1 DEF v, e
<1>10. \A j \in DOMAIN base : BaseAt(v, e, Len(v) + 1, gen, dict, j, base[j])
  <2>1. DOMAIN base \subseteq DOMAIN dict
    BY DEF PoseTypes
  <2>2. ASSUME NEW m \in 2 .. Len(wire) + 1, NEW j \in DOMAIN dict, NEW b,
               DictAt(wire, c, m, gen, dict), BaseAt(wire, c, m, gen, dict, j, b)
        PROVE  BaseAt(v, e, m - 1, gen, dict, j, b)
    <3>1. Took(c, wire[1], e)
      BY <1>3 DEF c, e
    <3> QED BY <1>1, <2>2, <3>1, BaseArrives DEF v
  <2>3. ASSUME NEW j \in DOMAIN base
        PROVE  BaseAt(v, e, Len(wire) + 1 - 1, gen, dict, j, base[j])
    BY <1>7, <1>8, <2>1, <2>2
  <2> QED BY <1>7, <2>3
<1>11. \A n \in DOMAIN v : v[n].kind = "pose" => PoseFits(v, e, n)
  <2>1. SUFFICES ASSUME NEW n \in DOMAIN v, v[n].kind = "pose" PROVE PoseFits(v, e, n)
    OBVIOUS
  <2>2. n + 1 \in 2 .. Len(wire) /\ n + 1 \in DOMAIN wire /\ v[n] = wire[n + 1]
        /\ n + 1 - 1 = n
    BY <1>1, <1>5
  <2>3. PoseFits(wire, c, n + 1)
    BY <1>4, <2>1, <2>2 DEF c
  <2> QED BY <1>1, <1>3, <2>2, <2>3, FitsArrive DEF v, c, e
<1>12. ServerFits'
  BY <1>2, <1>9, <1>10 DEF ServerFits, v, e
<1>13. \A n \in DOMAIN wire' : wire'[n].kind = "pose" => PoseFits(wire', Client', n)
  BY <1>2, <1>11 DEF v, e
<1> QED BY <1>6, <1>12, <1>13 DEF InOrder

(* What was on the wire before an append still fits.                       *)
LEMMA OthersFit ==
  ASSUME PoseTypes, NEW x \in PosePackets, NEW c,
         \A n \in DOMAIN wire : wire[n].kind = "pose" => PoseFits(wire, c, n),
         x.kind = "pose" => PoseFits(Append(wire, x), c, Len(wire) + 1)
  PROVE  \A n \in DOMAIN Append(wire, x) :
           Append(wire, x)[n].kind = "pose" => PoseFits(Append(wire, x), c, n)
<1> DEFINE v == Append(wire, x)
<1>1. wire \in Seq(PosePackets) /\ DOMAIN wire = 1 .. Len(wire) /\ Len(wire) \in Nat
  BY DEF PoseTypes
<1>2. /\ DOMAIN v = 1 .. Len(wire) + 1 /\ v[Len(wire) + 1] = x
      /\ \A n \in 1 .. Len(wire) : v[n] = wire[n]
  BY <1>1, AppendedAt
<1>3. ASSUME NEW n \in 1 .. Len(wire), v[n].kind = "pose" PROVE PoseFits(v, c, n)
  <2>1. PoseFits(wire, c, n)
    BY <1>1, <1>2, <1>3
  <2> QED BY <1>1, <2>1, FitsStay
<1>4. x.kind = "pose" => PoseFits(v, c, Len(wire) + 1)
  OBVIOUS
<1> HIDE DEF v
<1>5. \A n \in DOMAIN v : v[n].kind = "pose" => PoseFits(v, c, n)
  <2>1. \A n \in DOMAIN v : n \in 1 .. Len(wire) \/ n = Len(wire) + 1
    BY <1>1, <1>2
  <2> QED BY <1>2, <1>3, <1>4, <2>1
<1> QED BY <1>5 DEF v

(* The server announces its dictionary and starts from no baseline.        *)
LEMMA Announces ==
  ASSUME NEW w \in Seq(PosePackets), NEW c, NEW g, NEW d,
         Interest(g, d) \in PosePackets
  PROVE  DictAt(Append(w, Interest(g, d)), c, Len(w) + 2, g, d)
<1> DEFINE x == Interest(g, d)
           v == Append(w, x)
           n == Len(w)
<1>1. x.kind = "interest" /\ x.gen = g /\ x.dict = d
  BY DEF Interest
<1> HIDE DEF x
<1>2. n \in Nat /\ v[n + 1] = x
  BY AppendedAt DEF x
<1> HIDE DEF v, n
<1>3. Quiet(v, n + 1, n + 2)
  BY <1>2 DEF Quiet
<1>4. DictAt(v, c, n + 2, g, d)
  BY <1>1, <1>2, <1>3 DEF DictAt
<1> QED BY <1>4 DEF v, n, x

(* flush_pose: what is sent fits, and so does what comes next.             *)
LEMMA FlushFits ==
  ASSUME PoseTypes, ServerFits, NEW x \in PosePackets, NEW known,
         x.kind = "pose", x.gen = gen, wire' = Append(wire, x),
         DOMAIN known \subseteq DOMAIN dict,
         \A j \in DOMAIN x.rows :
             /\ j \in DOMAIN dict /\ j \in DOMAIN x.of /\ x.of[j][1] = dict[j]
             /\ x.full => x.rows[j] = x.of[j][2] /\ j \in DOMAIN known /\ known[j] = x.rows[j]
             /\ ~x.full => j \in DOMAIN base /\ x.of[j][2] = base[j] + x.rows[j],
         \A j \in DOMAIN known :
             \/ x.full /\ j \in DOMAIN x.rows
             \/ j \in DOMAIN base /\ known[j] = base[j]
  PROVE  /\ PoseFits(wire', Client, Len(wire) + 1)
         /\ DictAt(wire', Client, Len(wire') + 1, gen, dict)
         /\ \A j \in DOMAIN known : BaseAt(wire', Client, Len(wire') + 1, gen, dict, j, known[j])
<1> DEFINE v == Append(wire, x)
           n == Len(wire)
           c == Client
<1>1. wire \in Seq(PosePackets) /\ n \in Nat /\ v[n + 1] = x /\ Len(v) = n + 1
  BY AppendedAt DEF PoseTypes
<1>2. n + 1 \in 1 .. Len(wire) + 1 /\ Len(v) + 1 = Len(wire) + 2
  BY <1>1
<1>3. /\ DictAt(wire, c, n + 1, gen, dict)
      /\ \A j \in DOMAIN base : BaseAt(wire, c, n + 1, gen, dict, j, base[j])
  BY DEF ServerFits
<1>4. /\ dict \in Dicts /\ \A j \in DOMAIN base : base[j] \in 0 .. MaxPose
  BY DEF PoseTypes
<1>5. /\ DictAt(v, c, n + 1, gen, dict)
      /\ \A j \in DOMAIN base : BaseAt(v, c, n + 1, gen, dict, j, base[j])
  BY <1>1, <1>2, <1>3, DictStays, BaseStays
<1>6. DictAt(v, c, Len(v) + 1, gen, dict)
  BY <1>1, <1>2, <1>3, DictPasses
<1>7. ASSUME NEW j \in DOMAIN known PROVE BaseAt(v, c, Len(v) + 1, gen, dict, j, known[j])
  <2>1. CASE Carries(x, j)
    <3>1. known[j] = x.rows[j]
      BY <2>1 DEF Carries
    <3>2. BaseAt(v, c, Len(wire) + 2, x.gen, dict, j, x.rows[j])
      BY <1>1, <2>1, BaseMoves
    <3> QED BY <1>2, <3>1, <3>2
  <2>2. CASE ~Carries(x, j)
    <3>1. j \in DOMAIN base /\ known[j] = base[j]
      BY <1>7, <2>2 DEF Carries
    <3> QED BY <1>1, <1>2, <1>3, <2>2, <3>1, BasePasses
  <2> QED BY <2>1, <2>2
<1>8. PoseFits(v, c, n + 1)
  <2> HIDE DEF v, c, n
  <2>1. ASSUME NEW j \in DOMAIN v[n + 1].rows PROVE RowFits(v, c, n + 1, dict, j)
    BY <1>1, <1>4, <1>5, <2>1 DEF RowFits
  <2> QED BY <1>1, <1>4, <1>5, <2>1 DEF PoseFits
<1> QED BY <1>6, <1>7, <1>8

LEMMA InOrderKept ==
  ASSUME PoseInv, PoseNext, UNCHANGED faults PROVE InOrder'
<1> SUFFICES ASSUME faults = {} PROVE InOrder'
  BY DEF InOrder
<1> USE DEF PoseInv, serverVars, clientVars
<1>1. /\ right /\ ServerFits
      /\ \A n \in DOMAIN wire : wire[n].kind = "pose" => PoseFits(wire, Client, n)
  BY DEF InOrder
<1>2. gen \in Gens /\ dict \in Dicts /\ wire \in Seq(PosePackets) /\ Len(wire) \in Nat
  BY DEF PoseTypes
<1>3. CASE SetInterest
  <2>1. PICK d \in Dicts, k \in Skips :
          /\ gen' = (gen + k) % GenMod /\ dict' = d
          /\ sendFull' = TRUE /\ base' = <<>> /\ age' = 0
          /\ wire' = Append(wire, Interest(gen', d))
    BY <1>3, Zenon DEF SetInterest, Dicts
  <2>2. gen' \in Gens
    BY <1>2, <2>1, PoseAssumption DEF Gens
  <2>3. Interest(gen', d) \in PosePackets /\ Interest(gen', d).kind = "interest"
    BY <2>2 DEF Interest, PosePackets
  <2>4. Client' = Client /\ right' = right
    BY <1>3 DEF SetInterest, Client
  <2>5. Len(wire') + 1 = Len(wire) + 2
    BY <1>2, <2>1, <2>3, AppendedAt
  <2>6. DictAt(wire', Client, Len(wire) + 2, gen', dict')
    BY <1>2, <2>1, <2>3, Announces
  <2>7. ServerFits'
    BY <2>1, <2>4, <2>5, <2>6 DEF ServerFits
  <2>8. \A n \in DOMAIN wire' : wire'[n].kind = "pose" => PoseFits(wire', Client, n)
    BY <1>1, <2>1, <2>3, OthersFit
  <2> QED BY <1>1, <2>4, <2>7, <2>8 DEF InOrder
<1>4. CASE Resync
  <2> DEFINE r == [kind |-> "resync"]
             x == Interest(gen, dict)
             w == Append(wire, r)
  <2>1. /\ r \in PosePackets /\ x \in PosePackets
        /\ r.kind = "resync" /\ x.kind = "interest"
    BY <1>2 DEF Interest, PosePackets
  <2>2. wire' = Append(w, x) /\ base' = <<>> /\ gen' = gen /\ dict' = dict
        /\ Client' = Client /\ right' = right
    BY <1>2, <1>4, <2>1 DEF Resync, Client
  <2>3. /\ w \in Seq(PosePackets) /\ Len(w) = Len(wire) + 1 /\ Len(wire') + 1 = Len(w) + 2
        /\ DOMAIN w = 1 .. Len(w) /\ DOMAIN wire' = 1 .. Len(w) + 1
        /\ wire'[Len(w) + 1] = x
    BY <1>2, <2>1, <2>2, AppendedAt
  <2>4. \A n \in DOMAIN w : w[n].kind = "pose" => PoseFits(w, Client, n)
    BY <1>1, <2>1, OthersFit
  <2> HIDE DEF w, r
  <2>5. DictAt(wire', Client, Len(wire') + 1, gen, dict)
    BY <2>1, <2>2, <2>3, Announces
  <2>6. ASSUME NEW n \in DOMAIN wire', wire'[n].kind = "pose" PROVE PoseFits(wire', Client, n)
    <3>1. n \in 1 .. Len(w) /\ wire'[n] = w[n]
      BY <2>1, <2>2, <2>3, <2>6
    <3>2. PoseFits(w, Client, n)
      BY <2>3, <2>4, <2>6, <3>1
    <3> QED BY <2>1, <2>2, <2>3, <3>1, <3>2, FitsStay
  <2>7. ServerFits'
    BY <2>2, <2>5 DEF ServerFits
  <2> QED BY <1>1, <2>2, <2>6, <2>7 DEF InOrder
<1>5. ASSUME NEW p \in [Movers -> Points], FlushPose(p) PROVE InOrder'
  <2>1. /\ Client' = Client /\ right' = right /\ gen' = gen /\ dict' = dict
    BY <1>5 DEF FlushPose, Client
  <2>2. ASSUME NEW full \in BOOLEAN, NEW rows \in Blocks, DOMAIN rows \subseteq Mapped(p),
               wire' = Append(wire, PosePacket(full, rows, p)),
               DOMAIN base' \subseteq DOMAIN dict,
               \A j \in DOMAIN rows :
                 /\ full => rows[j] = p[dict[j]] /\ j \in DOMAIN base' /\ base'[j] = rows[j]
                 /\ ~full => j \in DOMAIN base /\ rows[j] = p[dict[j]] - base[j],
               \A j \in DOMAIN base' :
                 \/ full /\ j \in DOMAIN rows
                 \/ j \in DOMAIN base /\ base'[j] = base[j]
        PROVE  InOrder'
    <3> DEFINE x == PosePacket(full, rows, p)
    <3>1. x \in PosePackets
      BY <2>2, SentTypes
    <3>2. /\ x.kind = "pose" /\ x.gen = gen /\ x.full = full /\ x.rows = rows
          /\ DOMAIN x.of = DOMAIN rows
          /\ \A j \in DOMAIN rows : x.of[j] = <<dict[j], p[dict[j]]>>
      BY DEF PosePacket
    <3> HIDE DEF x
    <3>3. \A j \in DOMAIN rows : j \in DOMAIN dict /\ p[dict[j]] \in 0 .. MaxPose
      BY <2>2, RowsTypes
    <3>4. \A j \in DOMAIN base : base[j] \in 0 .. MaxPose
      BY DEF PoseTypes
    <3>5. \A j \in DOMAIN x.rows :
             /\ j \in DOMAIN dict /\ j \in DOMAIN x.of /\ x.of[j][1] = dict[j]
             /\ x.full => x.rows[j] = x.of[j][2] /\ j \in DOMAIN base' /\ base'[j] = x.rows[j]
             /\ ~x.full => j \in DOMAIN base /\ x.of[j][2] = base[j] + x.rows[j]
      BY <2>2, <3>2, <3>3, <3>4
    <3>6. wire' = Append(wire, x)
      BY <2>2 DEF x
    <3>7. /\ PoseFits(wire', Client, Len(wire) + 1)
          /\ DictAt(wire', Client, Len(wire') + 1, gen, dict)
          /\ \A j \in DOMAIN base' :
               BaseAt(wire', Client, Len(wire') + 1, gen, dict, j, base'[j])
      BY <1>1, <2>2, <3>1, <3>2, <3>5, <3>6, FlushFits
    <3>8. ServerFits'
      BY <2>1, <3>7 DEF ServerFits
    <3>9. \A n \in DOMAIN wire' : wire'[n].kind = "pose" => PoseFits(wire', Client, n)
      BY <1>1, <3>1, <3>6, <3>7, OthersFit
    <3> QED BY <1>1, <2>1, <3>8, <3>9 DEF InOrder
  <2>3. CASE MustSendFull(p)
    <3>1. wire' = Append(wire, PosePacket(TRUE, FullRows(p), p))
          /\ base' = Rebased(p)
      BY <1>5, <2>3, Zenon DEF FlushPose
    <3>2. /\ FullRows(p) \in Blocks /\ DOMAIN FullRows(p) = Mapped(p)
          /\ DOMAIN Rebased(p) \subseteq DOMAIN dict
      BY RowsTypes
    <3>3. \A j \in Mapped(p) :
            /\ FullRows(p)[j] = p[dict[j]]
            /\ j \in DOMAIN Rebased(p) /\ Rebased(p)[j] = FullRows(p)[j]
      BY DEF FullRows, Rebased
    <3>4. \A j \in DOMAIN Rebased(p) :
            \/ j \in Mapped(p)
            \/ j \in DOMAIN base /\ Rebased(p)[j] = base[j]
      BY DEF Rebased
    <3> QED BY <2>2, <3>1, <3>2, <3>3, <3>4
  <2>4. CASE ~MustSendFull(p)
    <3>1. wire' = Append(wire, PosePacket(FALSE, DeltaRows(p), p))
          /\ base' = base
      BY <1>5, <2>4, Zenon DEF FlushPose
    <3>2. /\ DeltaRows(p) \in Blocks /\ DOMAIN base \subseteq DOMAIN dict
          /\ \A j \in DOMAIN DeltaRows(p) :
               /\ j \in Mapped(p) /\ j \in DOMAIN base
               /\ DeltaRows(p)[j] = p[dict[j]] - base[j]
      BY <2>4, DeltaTypes DEF PoseTypes
    <3> QED BY <2>2, <3>1, <3>2
  <2> QED BY <2>3, <2>4
<1>6. CASE Tick
  <2>1. \A m \in Movers, x \in 0 .. MaxPose \union {None} :
          [pose EXCEPT ![m] = x] \in [Movers -> Points]
    BY DEF Points, PoseTypes
  <2>2. pose \in [Movers -> Points]
    BY DEF PoseTypes
  <2> QED BY <1>5, <1>6, <2>1, <2>2 DEF Tick
<1>7. CASE ComeToRest
  BY <1>1, <1>7 DEF ComeToRest, InOrder, ServerFits, Client
<1>8. CASE DeliverControl
  <2>1. PICK i \in DOMAIN wire :
          /\ Arrive(i) /\ right' = right
          /\ \/ wire[i].kind = "interest" /\ HandleInterest(wire[i])
             \/ wire[i].kind = "resync" /\ HandleResync
    BY <1>8 DEF DeliverControl
  <2> QED BY <2>1, ArrivesInOrder
<1>9. CASE DeliverFull \/ DeliverDelta
  <2>1. PICK i \in DOMAIN wire :
          Arrive(i) /\ wire[i].kind = "pose" /\ HandlePose(wire[i])
    BY <1>9 DEF DeliverFull, DeliverDelta, IsPose
  <2> QED BY <2>1, ArrivesInOrder
<1>10. CASE Lose
  BY <1>10 DEF Lose
<1> QED BY <1>3, <1>4, <1>6, <1>7, <1>8, <1>9, <1>10 DEF PoseNext

LEMMA InOrderStays ==
  ASSUME PoseInv, UNCHANGED <<poseVars, faults>> PROVE InOrder'
BY DEF PoseInv, InOrder, ServerFits, Client, poseVars, serverVars, clientVars

(* The inductive invariant of the pose stream.                             *)
THEOREM PoseSpecInv ==
  PoseSpec => []PoseInv
<1>1. PoseInit => PoseInv
  <2> SUFFICES ASSUME PoseInit PROVE PoseInv
    OBVIOUS
  <2>1. PoseTypes
    BY PoseTypesInit
  <2>2. right /\ wire = <<>> /\ base = <<>> /\ cgen = gen /\ cdict = dict
    BY DEF PoseInit
  <2>3. ServerFits
    BY <2>2 DEF ServerFits, DictAt, Quiet, Client
  <2> QED BY <2>1, <2>2, <2>3 DEF PoseInv, InOrder
<1>2. PoseInv /\ [Kept(PoseNext)]_<<poseVars, faults>> => PoseInv'
  <2> SUFFICES ASSUME PoseInv, [Kept(PoseNext)]_<<poseVars, faults>> PROVE PoseInv'
    OBVIOUS
  <2>1. CASE Kept(PoseNext)
    <3>1. PoseNext /\ UNCHANGED faults
      BY <2>1 DEF Kept
    <3>2. PoseTypes'
      BY <3>1, PoseTypesKept DEF PoseInv
    <3> QED BY <3>1, <3>2, InOrderKept DEF PoseInv
  <2>2. CASE UNCHANGED <<poseVars, faults>>
    BY <2>2, PoseTypesStay, InOrderStays DEF PoseInv
  <2> QED BY <2>1, <2>2
<1> QED BY <1>1, <1>2, PTL DEF PoseSpec

(* On the queue of the code every row of a pose reaches the mover it was   *)
(* made for and is decoded against the baseline it was made from, whatever *)
(* dictionaries and resyncs come in between (flush_pose, apply_pose_delta). *)
THEOREM PoseSpecRowsDecode ==
  PoseSpec => []RowsDecode
<1>1. PoseInv => RowsDecode
  BY DEF PoseInv, InOrder, RowsDecode
<1> QED BY <1>1, PoseSpecInv, PTL

(* On any transport the client's generation only moves forward, by less    *)
(* than half the circle.                                                   *)
THEOREM PoseSpecNoRollback ==
  PoseSpec => NoRollback
<1>1. ASSUME PoseInv, [Kept(PoseNext)]_<<poseVars, faults>>
      PROVE  [2 * ((cgen' - cgen) % GenMod) < GenMod]_cgen
  <2> SUFFICES ASSUME cgen' # cgen PROVE 2 * ((cgen' - cgen) % GenMod) < GenMod
    OBVIOUS
  <2>1. DeliverControl \/ DeliverFull \/ DeliverDelta
    BY <1>1 DEF Kept, PoseNext, poseVars, clientVars, SetInterest,
                Resync, Tick, FlushPose, ComeToRest, Lose
  <2>2. PICK i \in DOMAIN wire : wire[i].kind = "interest" /\ HandleInterest(wire[i])
    BY <2>1 DEF DeliverControl, DeliverFull, DeliverDelta,
                HandleResync, HandlePose
  <2>3. Accepts(cgen') /\ cgen' = wire[i].gen
    BY <2>2 DEF HandleInterest
  <2>4. cgen \in Gens /\ cgen' \in Gens
    BY <1>1, <2>2, <2>3, OnWire DEF PoseInv, PoseTypes
  <2>5. \/ cgen' = (cgen + 1) % GenMod
        \/ 2 * ((cgen' - cgen) % GenMod) < GenMod
    BY <2>3 DEF Accepts, GenOk
  <2>6. \A n \in Nat : \A x \in 0 .. n - 1 :
          n > 2 => 2 * ((((x + 1) % n) - x) % n) < n
    OBVIOUS
  <2> QED BY <2>4, <2>5, <2>6, PoseAssumption DEF Gens
<1> QED BY <1>1, PoseSpecInv, PTL DEF PoseSpec, NoRollback
==============================================================================
