----------------------------- MODULE PoseStream -----------------------------
(***************************************************************************)
(* klotho-net: the pose stream from the dedicated server to one client.    *)
(* The server names movers by their index in an Interest dictionary, sends *)
(* a Full block as a baseline and then Deltas against it; the client holds *)
(* its own dictionary and baseline in its overlay.  A dictionary has a     *)
(* generation; a client that finds it has skipped one asks for a Resync.   *)
(*                                                                         *)
(* A pose is one integer instead of six, MaxDpose stands for the reach of  *)
(* an i16.  Trace deltas and the session are in NetSession.  The Wire of   *)
(* the code is a lossless queue; faults adds what the documents expect of  *)
(* a datagram transport.                                                   *)
(***************************************************************************)
EXTENDS Integers, Sequences, FiniteSets, SequencesExt

CONSTANTS
    Movers,    \* sigils of the hosts that move
    MaxPose,   \* poses are 0 .. MaxPose
    MaxDpose,  \* a delta is in -MaxDpose - 1 .. MaxDpose (i16)
    Refresh,   \* POSE_FULL_REFRESH_TICKS
    GenMod,    \* generations wrap here (u16)
    Skips,     \* by how much set_interest advances the generation
    MaxSets,   \* bound: calls of set_interest
    WireCap,   \* bound: packets on their way
    Transports \* sets of faults: of "loss" (a pose), "overtake" (pose
               \* against control), "shuffle" (control in any order)

(* A generation has its successor, which is not its predecessor (2^16).     *)
ASSUME PoseAssumption ==
    /\ IsFiniteSet(Movers)
    /\ MaxPose \in Nat /\ MaxDpose \in Nat /\ Refresh \in Nat \ {0}
    /\ GenMod \in Nat /\ GenMod > 2 /\ Skips \subseteq Nat
    /\ MaxSets \in Nat /\ WireCap \in Nat
    /\ Transports \subseteq SUBSET {"loss", "overtake", "shuffle"}

(* The dictionaries a caller may install.                                  *)
Dicts == UNION {Injection(1 .. n, Movers) : n \in 0 .. Cardinality(Movers)}

None == -1000                     \* no row, or a mover that is not there

VARIABLES
    pose,      \* the world: where each mover is
    still,     \* the world has come to rest
    gen, dict, \* Joined::interest
    base,      \* Joined::full_base, by index
    age,       \* ticks since full_at, as of the next flush
    sendFull,  \* Joined::send_full
    sets,      \* calls of set_interest so far
    wire,      \* packets in the order sent
    faults,    \* what the transport does, of Transports
    cgen, cdict, needs, awaiting,   \* Client::interest_gen, interest_sigils,
                                    \* needs_resync, awaiting_interest
    cbase,     \* Overlay::full_base, by mover
    applied,   \* Overlay::applied, by mover
    right      \* history: every row was decoded to the pose it was made of

serverVars == <<gen, dict, base, age, sendFull>>
clientVars == <<cgen, cdict, needs, awaiting, cbase, applied>>
poseVars == <<pose, still, serverVars, sets, wire, clientVars, right>>

(* A fresh join is at generation 0; after 2^16 dictionaries the generation *)
(* stands before its wrap.                                                 *)
PoseInit ==
    /\ pose = [m \in Movers |-> 0] /\ still = FALSE
    /\ gen \in {0, GenMod - 1} /\ cgen = gen
    /\ dict = <<>> /\ base = <<>> /\ age = 0 /\ sendFull = TRUE
    /\ sets = 0 /\ wire = <<>>
    /\ cdict = <<>> /\ needs = FALSE /\ awaiting = FALSE
    /\ cbase = [m \in Movers |-> None] /\ applied = cbase
    /\ faults \in Transports /\ right = TRUE

-----------------------------------------------------------------------------
(* The server.                                                             *)

Interest(g, d) == [kind |-> "interest", gen |-> g, dict |-> d]

(* set_interest; the caller chooses the generation.                        *)
SetInterest ==
    /\ ~still /\ sets < MaxSets /\ sets' = sets + 1 /\ Len(wire) < WireCap
    /\ \E d \in Dicts, k \in Skips :
        /\ gen' = (gen + k) % GenMod /\ dict' = d
        /\ sendFull' = TRUE /\ base' = <<>> /\ age' = 0
        /\ wire' = Append(wire, Interest(gen', d))
    /\ UNCHANGED <<pose, still, clientVars, right>>

(* resync, which the caller answers needs_resync with.                     *)
Resync ==
    /\ needs /\ Len(wire) < WireCap
    /\ sendFull' = TRUE /\ base' = <<>> /\ age' = 0
    /\ wire' = wire \o <<[kind |-> "resync"], Interest(gen, dict)>>
    /\ UNCHANGED <<pose, still, gen, dict, sets, clientVars, right>>

(* map_poses: the indices of the movers that have a pose.                  *)
Mapped(p) == {i \in DOMAIN dict : p[dict[i]] # None}

(* dpose6                                                                  *)
Reaches(from, to) == to - from \in -MaxDpose - 1 .. MaxDpose

MustSendFullOnce(p) ==            \* mutant: no periodic refresh
    \/ sendFull \/ base = <<>>
    \/ \E i \in Mapped(p) : i \notin DOMAIN base \/ ~Reaches(base[i], p[dict[i]])

MustSendFull(p) ==
    \/ sendFull \/ base = <<>> \/ age >= Refresh
    \/ \E i \in Mapped(p) : i \notin DOMAIN base \/ ~Reaches(base[i], p[dict[i]])

FullRows(p) == [i \in Mapped(p) |-> p[dict[i]]]

(* What a Full leaves out keeps its baseline.                              *)
Rebased(p) ==
    [i \in Mapped(p) \union DOMAIN base |->
        IF i \in Mapped(p) THEN p[dict[i]] ELSE base[i]]

DeltaRows(p) ==
    [i \in {j \in Mapped(p) : p[dict[j]] # base[j]} |-> p[dict[i]] - base[i]]

(* The field of is not sent: where the movers of the rows are.             *)
PosePacket(full, rows, p) ==
    [kind |-> "pose", gen |-> gen, full |-> full, rows |-> rows,
     of |-> [i \in DOMAIN rows |-> <<dict[i], p[dict[i]]>>]]

(* One tick: the world moves and flush_pose sends where everything is.     *)
FlushPose(p) ==
    /\ Len(wire) < WireCap
    /\ IF MustSendFull(p)
       THEN /\ base' = Rebased(p) /\ age' = 1
            /\ wire' = Append(wire, PosePacket(TRUE, FullRows(p), p))
       ELSE /\ base' = base /\ age' = IF age < Refresh THEN age + 1 ELSE age
            /\ wire' = Append(wire, PosePacket(FALSE, DeltaRows(p), p))
    /\ sendFull' = FALSE /\ pose' = p
    /\ UNCHANGED <<still, gen, dict, sets, clientVars, right>>

Tick ==
    \/ FlushPose(pose)
    \/ ~still /\ \E m \in Movers, x \in 0 .. MaxPose \union {None} :
                    FlushPose([pose EXCEPT ![m] = x])

(* From here on the world does not move and no dictionary is installed.    *)
ComeToRest ==
    /\ ~still /\ still' = TRUE
    /\ UNCHANGED <<pose, serverVars, sets, wire, clientVars, right>>

-----------------------------------------------------------------------------
(* The client.                                                             *)

GenOk(g) == g \in {cgen, (cgen + 1) % GenMod}

AcceptsAnyJump(g) ==              \* mutant: a backward jump is accepted too
    GenOk(g) \/ awaiting

Accepts(g) ==
    LET forward == (g - cgen) % GenMod
    IN  GenOk(g) \/ (awaiting /\ forward # 0 /\ 2 * forward < GenMod)

(* Overlay::retain                                                         *)
Retain(f, d) == [m \in Movers |-> IF m \in ToSet(d) THEN f[m] ELSE None]

HandleInterest(p) ==
    IF Accepts(p.gen)
    THEN /\ cgen' = p.gen /\ cdict' = p.dict /\ awaiting' = FALSE
         /\ cbase' = Retain(cbase, p.dict)
         /\ applied' = Retain(applied, p.dict)
         /\ UNCHANGED needs
    ELSE needs' = TRUE /\ UNCHANGED <<cgen, cdict, awaiting, cbase, applied>>

HandleResync ==
    /\ needs' = FALSE /\ awaiting' = TRUE
    /\ UNCHANGED <<cgen, cdict, cbase, applied>>

(* The rows of a block by mover; an index past the dictionary is ignored.  *)
Named(rows) == [i \in DOMAIN rows \intersect DOMAIN cdict |-> cdict[i]]

(* commit_server_pose of one row, or the old value f[m].                   *)
FromRow(p, f, m, Read(_, _)) ==
    LET at == {i \in DOMAIN Named(p.rows) : Named(p.rows)[i] = m}
    IN  IF at = {} THEN f[m] ELSE Read(m, p.rows[CHOOSE i \in at : TRUE])

Decode(p, m, x) ==
    IF p.full THEN x ELSE IF cbase[m] = None THEN applied[m] ELSE cbase[m] + x

NewBaseAdvancing(p, m) ==         \* mutant: a Delta moves the baseline
    FromRow(p, cbase, m, LAMBDA n, x : IF p.full THEN x ELSE Decode(p, n, x))

(* Only a Full moves the baseline.                                         *)
NewBase(p, m) ==
    FromRow(p, cbase, m, LAMBDA n, x : IF p.full THEN x ELSE cbase[n])

(* apply_pose_delta                                                        *)
ApplyPose(p) ==
    /\ cbase' = [m \in Movers |-> NewBase(p, m)]
    /\ applied' = [m \in Movers |->
                     FromRow(p, applied, m, LAMBDA n, x : Decode(p, n, x))]
    /\ right' = (right /\ \A i \in DOMAIN Named(p.rows) :
                    \/ ~p.full /\ cbase[cdict[i]] = None
                    \/ p.of[i] = <<cdict[i], applied'[cdict[i]]>>)

HandlePose(p) ==
    IF p.gen = cgen
    THEN ApplyPose(p) /\ UNCHANGED <<cgen, cdict, needs, awaiting>>
    ELSE /\ needs' = (needs \/ (~awaiting /\ ~GenOk(p.gen)))
         /\ UNCHANGED <<cgen, cdict, awaiting, cbase, applied, right>>

-----------------------------------------------------------------------------
(* The wire.                                                               *)

IsPose(i) == wire[i].kind = "pose"

(* Position i comes next: the head; with overtaking the first of its kind; *)
(* with shuffling any control packet.                                      *)
CanArrive(i) ==
    \/ i = 1
    \/ "overtake" \in faults /\ \A j \in 1 .. i - 1 : IsPose(j) # IsPose(i)
    \/ "shuffle" \in faults /\ ~IsPose(i)

Arrive(i) ==
    /\ CanArrive(i) /\ wire' = RemoveAt(wire, i)
    /\ UNCHANGED <<pose, still, serverVars, sets>>

DeliverControl ==
    \E i \in DOMAIN wire :
        /\ Arrive(i) /\ UNCHANGED right
        /\ \/ wire[i].kind = "interest" /\ HandleInterest(wire[i])
           \/ wire[i].kind = "resync" /\ HandleResync

DeliverFull == \E i \in DOMAIN wire :
    Arrive(i) /\ IsPose(i) /\ wire[i].full /\ HandlePose(wire[i])

DeliverDelta == \E i \in DOMAIN wire :
    Arrive(i) /\ IsPose(i) /\ ~wire[i].full /\ HandlePose(wire[i])

Lose ==
    /\ "loss" \in faults
    /\ \E i \in DOMAIN wire : IsPose(i) /\ Arrive(i) /\ UNCHANGED <<clientVars, right>>

PoseNext == \/ SetInterest \/ Resync \/ Tick \/ ComeToRest
        \/ DeliverControl \/ DeliverFull \/ DeliverDelta \/ Lose

Kept(A) == A /\ UNCHANGED faults

PoseSpec == PoseInit /\ [][Kept(PoseNext)]_<<poseVars, faults>>

(* The server flushes every tick and control packets arrive.  Fulls are    *)
(* sent again and again: not every one of them is lost.  WireCap is a     *)
(* bound of the model: a tick that fills the wire does not keep the caller *)
(* from its resync.                                                        *)
Fairness ==
    /\ WF_poseVars(Kept(Tick)) /\ SF_poseVars(Kept(Resync))
    /\ WF_poseVars(Kept(DeliverControl)) /\ WF_poseVars(Kept(DeliverDelta))
    /\ SF_poseVars(Kept(DeliverFull))

-----------------------------------------------------------------------------
(* On the wire of the code a row is given to the mover it was made for,    *)
(* decoded against the baseline it was made from, so that the overlay      *)
(* holds where the mover was when the packet was sent (flush_pose and      *)
(* apply_pose_delta agree).                                                *)
RowsDecode == faults = {} => right

(* A delayed dictionary does not roll the client back (the comment in      *)
(* Client::handle): its generation never moves backwards on the circle.    *)
NoRollback == [][2 * ((cgen' - cgen) % GenMod) < GenMod]_cgen

(* The client shows every mover of the dictionary where it is.             *)
Shows ==
    /\ cgen = gen /\ cdict = dict
    /\ \A m \in ToSet(dict) : pose[m] # None => applied[m] = pose[m]

(* Once the world rests the client comes to show it, and keeps showing it: *)
(* the refresh repairs lost datagrams, the Resync skipped dictionaries.    *)
Converges == "shuffle" \notin faults => [](still => <>[]Shows)
=============================================================================
