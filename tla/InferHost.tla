----------------------------- MODULE InferHost ------------------------------
(***************************************************************************)
(* klotho-infer: the inference sidecar as klotho-runtime drives it.  The   *)
(* runtime's frame polls the host, steps the simulation and kicks one job  *)
(* with the snapshot of the new tick.  A job travels through a bounded     *)
(* channel to a writer thread, over a pipe to the child process, and its   *)
(* answer over a second pipe to a reader thread and an unbounded channel.  *)
(* The child may be slow, hang, or die at any moment.                      *)
(*                                                                         *)
(* A job is its id and the tick of its snapshot; what the model answers is *)
(* left out, and the framing: a frame arrives whole or does not decode.    *)
(* A child that cannot read or write any more exits, which is its dying.   *)
(***************************************************************************)
EXTENDS Integers, Sequences, FiniteSets, Functions

CONSTANTS
    Slo,        \* Budget::eval_slo_ticks
    IpcQueue,   \* IPC_QUEUE, slots of the request channel
    PipeCap,    \* whole frames an OS pipe holds before its writer blocks
    MaxJobs,    \* bound: jobs kicked
    MaxTick     \* where the tick saturates

ASSUME InferAssumption ==
    /\ Slo \in Nat /\ IpcQueue \in Nat \ {0} /\ PipeCap \in Nat \ {0}
    /\ MaxJobs \in Nat /\ MaxTick \in Nat

(* Every frame kicks, so all jobs are kicked, and age out, before the tick *)
(* saturates: what follows does not rest on the saturation.                *)
ASSUME TickAssumption == MaxTick > MaxJobs + Slo
Ids == 1 .. MaxJobs
Failed == 0                      \* Reply::Failed; JobIds start at 1

VARIABLES
    now,       \* the world's tick
    phase,     \* where the frame is: "poll", "step", "kick"
    enabled,   \* ~disabled
    pending,   \* submitted tick of every job not answered and not aged out
    next,      \* next JobId
    requests,  \* the request channel
    writer,    \* "up", "dead"
    writing,   \* the job the writer blocks on
    inpipe,    \* frames between writer and child
    child,     \* "up", "dead"
    filling,   \* the job the child works on
    outpipe,   \* frames between child and reader
    reader,    \* "up", "dead"
    replies,   \* the reply channel: ids and Failed
    born,      \* history: tick of the snapshot of every job submitted
    reports,   \* history: how often poll reported a job, fresh or stale
    ingested   \* history: <<id, tick>> of every intent handed to the sim

hostVars  == <<enabled, pending, next, requests>>
ipcVars   == <<writer, writing, inpipe, child, filling, outpipe, reader>>
histVars  == <<born, reports, ingested>>
vars == <<now, phase, hostVars, ipcVars, replies, histVars>>

(* InferHost::spawn has succeeded; the default host (new) never enables.   *)
Init ==
    /\ now = 0 /\ phase = "poll"
    /\ enabled = TRUE /\ pending = <<>> /\ next = 1 /\ requests = <<>>
    /\ writer = "up" /\ writing = <<>> /\ inpipe = <<>>
    /\ child = "up" /\ filling = <<>> /\ outpipe = <<>>
    /\ reader = "up" /\ replies = <<>>
    /\ born = <<>> /\ reports = [i \in Ids |-> 0] /\ ingested = {}

-----------------------------------------------------------------------------
(* Age of a job, Tick's saturating subtraction.                            *)
Age(t) == IF now >= t THEN now - t ELSE 0

Fresh(t) == Age(t) <= Slo

(* The replies poll reads: all of them, or those before the first Failed.  *)
Readable ==
    LET bad == {i \in DOMAIN replies : replies[i] = Failed}
    IN  {replies[i] : i \in {j \in DOMAIN replies : \A b \in bad : j < b}}

(* try_recv ends in Failed, or in Disconnected once both senders are gone. *)
Broken ==
    \/ \E i \in DOMAIN replies : replies[i] = Failed
    \/ writer = "dead" /\ reader = "dead"

(* Jobs answered, answered in time, and aged out without an answer.        *)
Answered == Readable \cap DOMAIN pending

InTime == {i \in Answered : Fresh(pending[i])}

NoneAgedOut == {}                \* mutant: no retain, unanswered jobs stay

AgedOut == {i \in DOMAIN pending \ Readable : ~Fresh(pending[i])}

Ingest(S) == ingested' = ingested \union {<<i, now>> : i \in S}
Report(S) == reports' = [i \in Ids |-> reports[i] + IF i \in S THEN 1 ELSE 0]

UnresolvedKept ==                \* mutant: get for remove
    DOMAIN pending \ AgedOut

(* What poll leaves of pending.                                            *)
Unresolved == DOMAIN pending \ (Answered \union AgedOut)

-----------------------------------------------------------------------------
(* poll, then phase Ingest of every fresh intent.                          *)
Poll ==
    /\ phase = "poll" /\ phase' = "step"
    /\ IF ~enabled
       THEN UNCHANGED <<enabled, pending, replies, reports, ingested>>
       ELSE /\ Ingest(InTime)
            /\ replies' = <<>>
            /\ enabled' = ~Broken
            /\ IF Broken
               THEN /\ pending' = <<>>            \* disable clears it unreported
                    /\ Report(Answered)
               ELSE /\ pending' = Restrict(pending, Unresolved)
                    /\ Report(Answered \union AgedOut)
    /\ UNCHANGED <<now, next, requests, ipcVars, born>>

(* Sim::tick; the tick saturates, at MaxTick instead of 2^64 - 1.          *)
SimTick ==
    /\ phase = "step" /\ phase' = "kick"
    /\ now' = IF now < MaxTick THEN now + 1 ELSE now
    /\ UNCHANGED <<hostVars, ipcVars, replies, histVars>>

With(f, i, t) == [j \in DOMAIN f \union {i} |-> IF j = i THEN t ELSE f[j]]

(* kick_infer: submit the snapshot of the tick just stepped.               *)
KickOff ==                       \* disabled, or the bound on jobs is reached
    /\ phase = "kick" /\ phase' = "poll"
    /\ ~enabled \/ next > MaxJobs
    /\ UNCHANGED <<now, hostVars, ipcVars, replies, histVars>>

Kick ==
    /\ phase = "kick" /\ phase' = "poll"
    /\ enabled /\ next \in Ids /\ next' = next + 1
    /\ writer = "up" /\ Len(requests) < IpcQueue
    /\ pending' = With(pending, next, now)
    /\ requests' = Append(requests, next)
    /\ born' = With(born, next, now)
    /\ UNCHANGED <<now, enabled, ipcVars, replies, reports, ingested>>

KickFullKept ==                  \* mutant: the refused job stays pending
    /\ phase = "kick" /\ phase' = "poll"
    /\ enabled /\ next \in Ids /\ next' = next + 1
    /\ writer = "up" /\ Len(requests) >= IpcQueue
    /\ pending' = With(pending, next, now)
    /\ UNCHANGED <<now, enabled, requests, ipcVars, replies, histVars>>

KickFull ==
    /\ phase = "kick" /\ phase' = "poll"
    /\ enabled /\ next \in Ids /\ next' = next + 1
    /\ writer = "up" /\ Len(requests) >= IpcQueue
    /\ UNCHANGED <<now, enabled, pending, requests, ipcVars, replies, histVars>>

KickDisconnected ==
    /\ phase = "kick" /\ phase' = "poll"
    /\ enabled /\ next \in Ids /\ next' = next + 1
    /\ writer = "dead"
    /\ enabled' = FALSE /\ pending' = <<>>
    /\ UNCHANGED <<now, requests, ipcVars, replies, histVars>>

-----------------------------------------------------------------------------
(* writer_loop: take a request, write its frame, give up on an error.      *)
WriterTakes ==
    /\ writer = "up" /\ writing = <<>> /\ requests # <<>>
    /\ writing' = <<Head(requests)>> /\ requests' = Tail(requests)
    /\ UNCHANGED <<now, phase, enabled, pending, next, writer, inpipe, child,
                   filling, outpipe, reader, replies, histVars>>

WriterWrites ==
    /\ writing # <<>> /\ child = "up" /\ Len(inpipe) < PipeCap
    /\ inpipe' = inpipe \o writing /\ writing' = <<>>
    /\ UNCHANGED <<now, phase, hostVars, writer, child, filling, outpipe,
                   reader, replies, histVars>>

WriterStops ==                   \* returning drops the receiver: queue is gone
    /\ writing # <<>>
    /\ writer' = "dead" /\ writing' = <<>> /\ requests' = <<>>
    /\ replies' = Append(replies, Failed)
    /\ UNCHANGED <<now, phase, enabled, pending, next, inpipe, child, filling,
                   outpipe, reader, histVars>>

WriterFails == child = "dead" /\ WriterStops

WriterEncodeFails == child = "up" /\ WriterStops

(* run_sidecar: read a request, fill it, write the answer; or die.         *)
ChildReads ==
    /\ child = "up" /\ filling = <<>> /\ inpipe # <<>>
    /\ filling' = <<Head(inpipe)>> /\ inpipe' = Tail(inpipe)
    /\ UNCHANGED <<now, phase, hostVars, writer, writing, child, outpipe,
                   reader, replies, histVars>>

ChildAnswers ==
    /\ filling # <<>> /\ Len(outpipe) < PipeCap
    /\ outpipe' = outpipe \o filling /\ filling' = <<>>
    /\ UNCHANGED <<now, phase, hostVars, writer, writing, inpipe, child,
                   reader, replies, histVars>>

ChildDies ==
    /\ child = "up" /\ child' = "dead"
    /\ inpipe' = <<>> /\ filling' = <<>>
    /\ UNCHANGED <<now, phase, hostVars, writer, writing, outpipe, reader,
                   replies, histVars>>

(* reader_loop: forward an answer; at end of file or a bad frame give up.  *)
ReaderForwards ==
    /\ reader = "up" /\ outpipe # <<>>
    /\ replies' = Append(replies, Head(outpipe)) /\ outpipe' = Tail(outpipe)
    /\ UNCHANGED <<now, phase, hostVars, writer, writing, inpipe, child,
                   filling, reader, histVars>>

ReaderFailsSilent ==             \* mutant: end of file is not reported
    /\ reader = "up" /\ child = "dead" /\ outpipe = <<>>
    /\ reader' = "dead"
    /\ UNCHANGED <<now, phase, hostVars, writer, writing, inpipe, child,
                   filling, outpipe, replies, histVars>>

ReaderFails ==
    /\ reader = "up" /\ child = "dead" /\ outpipe = <<>>
    /\ reader' = "dead" /\ replies' = Append(replies, Failed)
    /\ UNCHANGED <<now, phase, hostVars, writer, writing, inpipe, child,
                   filling, outpipe, histVars>>

ReaderRejects ==                 \* a frame that does not decode
    /\ reader = "up" /\ outpipe # <<>>
    /\ reader' = "dead" /\ replies' = Append(replies, Failed)
    /\ outpipe' = <<>>
    /\ UNCHANGED <<now, phase, hostVars, writer, writing, inpipe, child,
                   filling, histVars>>

-----------------------------------------------------------------------------
Frame == Poll \/ SimTick \/ KickOff \/ Kick \/ KickFull \/ KickDisconnected

Ipc == \/ WriterTakes \/ WriterWrites \/ WriterFails \/ WriterEncodeFails
       \/ ChildReads \/ ChildAnswers \/ ChildDies
       \/ ReaderForwards \/ ReaderFails \/ ReaderRejects

Next == Frame \/ Ipc

Spec == Init /\ [][Next]_vars

(* run() loops over frames and nothing in a frame waits for the child.     *)
(* The threads are scheduled; of the child nothing is assumed.             *)
FairSpec ==
    /\ Spec /\ WF_vars(Frame)
    /\ WF_vars(WriterTakes) /\ WF_vars(WriterFails)
    /\ WF_vars(ReaderForwards) /\ WF_vars(ReaderFails)

-----------------------------------------------------------------------------
Frames == Seq(Ids)

(* Types, the capacity of the channel and the pipes, and that no pending   *)
(* job carries a tick of the future.                                       *)
TypeOK ==
    /\ now \in 0 .. MaxTick /\ phase \in {"poll", "step", "kick"}
    /\ enabled \in BOOLEAN /\ next \in 1 .. MaxJobs + 1
    /\ DOMAIN pending \subseteq Ids
    /\ \A i \in DOMAIN pending : pending[i] \in 0 .. now
    /\ requests \in Frames /\ Len(requests) <= IpcQueue
    /\ {writer, child, reader} \subseteq {"up", "dead"}
    /\ writing \in Frames /\ Len(writing) <= 1
    /\ filling \in Frames /\ Len(filling) <= 1
    /\ inpipe \in Frames /\ Len(inpipe) <= PipeCap
    /\ outpipe \in Frames /\ Len(outpipe) <= PipeCap
    /\ replies \in Seq(Ids \union {Failed})

(* A job is reported at most once: an answer that comes after its job was  *)
(* reported stale is not served, and one that was served does not turn     *)
(* stale later (pending.remove and the retain of poll).                    *)
ReportedOnce == \A i \in Ids : reports[i] <= 1

(* No intent reaches the heap that was computed from a snapshot older than *)
(* the SLO (the age is judged by the host's map, not by the answer).       *)
NothingLateIngested ==
    \A e \in ingested : e[2] - born[e[1]] \in 0 .. Slo

(* Each job the host accepted leaves the map, whether the child answers,   *)
(* hangs or dies: nothing in the frame loop waits on the pipes.            *)
JobsResolve == \A i \in Ids : i \in DOMAIN pending ~> i \notin DOMAIN pending

(* A dead child turns inference off, though nothing watches the process:   *)
(* the reader's end of file or the writer's error has to come through.     *)
DeathDisables == child = "dead" ~> ~enabled

(* The host implements the desk: pipes, threads and the child are steps    *)
(* nobody sees, and poll, submit and disable are the desk's rounds.        *)
Desk == INSTANCE JobDesk
            WITH Jobs <- Ids, closed <- ~enabled, open <- DOMAIN pending, used <- ingested

ImplementsDesk == Desk!Spec

=============================================================================
