---------------------------- MODULE CommitKernel ----------------------------
(***************************************************************************)
(* klotho-commit: the one writer of the world.  Everyone else ingests      *)
(* proposals (grains); step sorts the batch by admit_key, folds equal keys *)
(* into classes and admits class by class against the live world, then     *)
(* publishes a snapshot.  The caller holds `&mut self`, so API calls do    *)
(* not interleave: between steps the phase is "idle", and one pass of the  *)
(* admission loop is one action.                                           *)
(*                                                                         *)
(* A locus is a natural (Sigil order matters to the key), a pose a member  *)
(* of a small set, the trace prefix hash the number of appended            *)
(* transactions (the hash chain is injective on prefixes of one trace).    *)
(* What a Law, a witness check or a rite's predicate says is Canon content *)
(* and left open: any proposal that passes the kernel's own checks may     *)
(* still be vetoed.                                                        *)
(***************************************************************************)
EXTENDS Integers, Sequences, FiniteSets, Functions, RewindRing

CONSTANTS
    Loci,        \* Sigils, as positive naturals
    Places,      \* the loci that are Places
    Bodies,      \* loci an island must drive: Relics, driven characters
    Driven,      \* loci with a character physics binding
    Hittable,    \* loci with the Hittable affordance
    Slots,       \* player slots
    IslandIds,   \* ids the partition hands out
    Poses,       \* poses
    Catalog,     \* Catalog[p]: the PlaceRows of p's PlaceSnap, by locus
    Start,       \* the seed world, likewise
    Grains,      \* grains a producer may hand to ingest
    SyncBatches, \* batches the sync proposers may return
    Regs,        \* proposer registration indices used by ingest
    Ticks,       \* dt.max(1) of a step
    Caps,        \* budget.rewind_ticks values of a step
    EvalSlo,     \* budget.eval_slo_ticks
    Period,      \* ISLAND_SNAP_PERIOD_TICKS
    Canons,      \* Canon hashes; the first one is Canon0
    Canon0,
    Omits,       \* rejects a partition may record: too large, too many
    MaxTick, MaxHeap, MaxEpoch   \* bounds of the model

None == 0
NoIsland == 65535

Verbs == {"use", "fire", "time", "talk"}
Targets == Loci \cup {None}

(* Proposal: what the kernel reads of each kind.                           *)
PlayerIntent == [kind : {"player"}, slot : Slots, verb : Verbs, at : Nat,
                 target : Targets, claimed : BOOLEAN]
MindIntent == [kind : {"mind"}, locus : Loci, verb : Verbs, target : Targets]
InferIntent == [kind : {"infer"}, locus : Targets, verb : Verbs,
                target : Targets, facts : BOOLEAN]
SpatialDelta == [kind : {"space", "motion"}, mover : Loci, pose : Poses,
                 island : IslandIds \cup {NoIsland}]
PhysIsland == [kind : {"phys"}, island : IslandIds, pose : Poses,
               epoch : Nat, tick : Nat, members : SUBSET Loci,
               bodies : SUBSET Loci]
Residency == [kind : {"residency"}, place : Places, op : {"load", "evict"},
              prefix : Nat, canon : Canons]

(* PlaceRow: pose, the Place it is Rel::In, its host, its island id.       *)
Row == [pose : Poses, within : Places \cup {None},
        parent : Loci \cup {None}, island : IslandIds \cup {NoIsland}]

(* Rows by locus.  Their relations may lead out: capture_place also takes   *)
(* the rows that migrate with a host outside the Place, and nothing that    *)
(* writes a snap asks whether the other end is there.                       *)
IsSnap(snap) ==
    /\ DOMAIN snap \subseteq Loci
    /\ \A l \in DOMAIN snap : snap[l] \in Row

Unstamped == PlayerIntent \cup MindIntent \cup InferIntent \cup SpatialDelta
Proposal == Unstamped \cup PhysIsland \cup Residency

ASSUME LociAssumption ==
    /\ Loci \subseteq Nat \ {0} /\ IsFiniteSet(Loci)
    /\ Places \subseteq Loci /\ Bodies \subseteq Loci
ASSUME CatalogAssumption ==
    \A p \in Places : p \in DOMAIN Catalog[p] /\ IsSnap(Catalog[p])
ASSUME StartAssumption == IsSnap(Start)
ASSUME CapsAssumption ==
    Caps \subseteq Nat /\ EvalSlo \in Nat /\ Ticks \subseteq Nat \ {0}
ASSUME GrainsAssumption ==
    /\ Grains \subseteq Unstamped
         \cup [kind : {"phys"}, island : IslandIds, pose : Poses]
         \cup [kind : {"residency"}, place : Places, op : {"load", "evict"}]
    /\ Regs \subseteq Nat
    /\ SyncBatches \subseteq Seq(Unstamped \X Nat)
ASSUME CanonAssumption == Canon0 \in Canons
ASSUME IslandAssumption == 0 \in IslandIds /\ IslandIds \subseteq Nat
ASSUME SlotsAssumption == Slots \subseteq Nat
ASSUME BoundsAssumption == MaxTick \in Nat /\ MaxEpoch \in Nat

VARIABLES
    phase,    \* "idle" between calls, "admit" inside step
    tick, epoch, canon, prefix,
    rows,     \* packed loci
    pose,     \* pose[l]
    within,   \* within[l]: the Place l is Rel::In
    parent,   \* parent[l]: PilotedBy / AttachedTo host
    island,   \* island[l]
    players,  \* players[s]: the locus slot s plays
    heap,     \* pending <<grain, reg>>
    partitionRejects,
    ring,     \* RewindRing
    rest,     \* step: the part of the sorted batch not yet admitted
    written,  \* step: <<locus, lane>> cells taken
    batch,    \* step: the whole sorted batch
    out,      \* step: outcomes, in order
    posed,    \* step: how many admitted grains moved, loaded or dropped l
    begun,    \* ghost, step: the prefix when it began
    published \* snapshots published in this epoch

world == <<rows, pose, within, parent, island>>
batchVars == <<rest, written, batch, out, posed, begun>>
vars == <<phase, tick, epoch, canon, prefix, world, players, heap,
          partitionRejects, ring, batchVars, published>>

Snapshot == [tick |-> tick, epoch |-> epoch, pose |-> pose]

Init ==
    /\ phase = "idle" /\ tick = 0 /\ epoch = 0 /\ canon = Canon0 /\ prefix = 0
    /\ rows = DOMAIN Start
    /\ pose \in [Loci -> Poses] /\ \A l \in rows : pose[l] = Start[l].pose
    /\ within = [l \in Loci |-> IF l \in rows THEN Start[l].within ELSE None]
    /\ parent = [l \in Loci |-> IF l \in rows THEN Start[l].parent ELSE None]
    /\ island = [l \in Loci |-> IF l \in rows THEN Start[l].island ELSE NoIsland]
    /\ players = [s \in Slots |-> None]
    /\ heap = <<>> /\ partitionRejects = {} /\ ring = EmptyRing(0)
    /\ rest = <<>> /\ written = {} /\ batch = <<>> /\ out = <<>>
    /\ posed = [l \in Loci |-> 0]
    /\ begun = 0 /\ published = {}

-----------------------------------------------------------------------------
(* Proposal::order_key, mover_raw, island and admit_key.                   *)
OrderKey(g) ==
    CASE g.kind = "player" -> 0 [] g.kind = "residency" -> 1
      [] g.kind = "phys" -> 2 [] g.kind = "space" -> 3
      [] g.kind = "motion" -> 4 [] g.kind = "mind" -> 5
      [] g.kind = "infer" -> 6

MoverRaw(g) ==
    CASE g.kind = "player" -> g.slot [] g.kind = "residency" -> g.place
      [] g.kind = "phys" -> IF g.members = {} THEN 0 ELSE Min(g.members)
      [] g.kind \in {"space", "motion"} -> g.mover
      [] g.kind \in {"mind", "infer"} -> g.locus

IslandOf(g) == IF g.kind \in {"phys", "space", "motion"} THEN g.island ELSE 0

AdmitKey(e) == <<OrderKey(e[1]), MoverRaw(e[1]), IslandOf(e[1]), e[2]>>

Before(k, l) ==
    \E i \in 1 .. 4 : k[i] < l[i] /\ \A j \in 1 .. i - 1 : k[j] = l[j]

ArrivalOrder(s, f) ==           \* mutant: no sort_by_key
    \A j \in DOMAIN s : f[j] = j

(* sort_by_key is stable: equal keys keep their arrival order.             *)
StableOrder(s, f) ==
    \A i, j \in DOMAIN s : i < j =>
        \/ Before(AdmitKey(s[f[i]]), AdmitKey(s[f[j]]))
        \/ AdmitKey(s[f[i]]) = AdmitKey(s[f[j]]) /\ f[i] < f[j]

(* The first n entries of rest are one producer-equivalence class.         *)
FrontClass(n) ==
    /\ \A i \in 1 .. n : AdmitKey(rest[i]) = AdmitKey(rest[1])
    /\ n < Len(rest) => AdmitKey(rest[n + 1]) # AdmitKey(rest[1])

Ambiguous(n) == \E i \in 1 .. n : rest[i][1] # rest[1][1]

-----------------------------------------------------------------------------
(* attached_children, the members of a Place, the rows evict_place drops:  *)
(* a row whose host is outside the Place migrates and stays.               *)
Attached(l) == {c \in rows \ {l} : parent[c] = l}

Members(p) == {l \in rows \ {p} : within[l] = p}

Dropped(p) ==
    {l \in Members(p) : parent[l] \in Members(p) \cup {p, None}}

IslandMembers(i) == {l \in rows : island[l] = i}

(* Members an island proposal must drive.                                  *)
Required(S) == {l \in S \cap Bodies : parent[l] = None}

Riders(g) == UNION {Attached(b) : b \in g.bodies}

Intent(g) == g.kind \in {"player", "mind", "infer"}

Actor(g) == IF g.kind = "player" THEN players[g.slot] ELSE g.locus

CellsBodiesOnly(g) ==           \* mutant: children not in the write set
    CASE Intent(g) -> {<<Actor(g), 1>>}
      [] g.kind \in {"space", "motion"} -> {g.mover} \X {0}
      [] g.kind = "phys" -> g.bodies \X {0}
      [] g.kind = "residency" ->
            ({g.place} \cup DOMAIN Catalog[g.place]
               \cup IF g.op = "evict" THEN Members(g.place) ELSE {}) \X {0}

(* write_cells and phys_write_cells: lane 0 spatial, lane 1 the action.    *)
Cells(g) ==
    CASE Intent(g) -> {<<Actor(g), 1>>}
      [] g.kind \in {"space", "motion"} ->
            ({g.mover} \cup Attached(g.mover)) \X {0}
      [] g.kind = "phys" -> (g.bodies \cup Riders(g)) \X {0}
      [] g.kind = "residency" ->
            ({g.place} \cup DOMAIN Catalog[g.place]
               \cup IF g.op = "evict" THEN Members(g.place) ELSE {}) \X {0}

Age(g) == IF tick >= g.at THEN tick - g.at ELSE 0

Combat(g) ==
    \/ g.verb = "fire"
    \/ g.verb = "use" /\ g.target \in Hittable \cap rows

(* ring.cap is this step's budget.rewind_ticks (set_cap ran in BeginStep). *)
Stale(g) == Age(g) > IF ring.cap > 0 /\ Combat(g) THEN ring.cap ELSE EvalSlo

Rewinds(g) == g.kind = "player" /\ g.verb = "fire" /\ ring.cap > 0

(* rewind_hitscan: the world a Fire is evaluated on; {} is StaleEpoch.     *)
Seen(g) == IF Age(g) = 0 THEN {Snapshot} ELSE Lookup(ring, tick, g.at)

PlayerRefused(g) ==
    \/ players[g.slot] = None
    \/ Stale(g)
    \/ g.verb = "time" /\ ~g.claimed
    \/ Rewinds(g) /\ Seen(g) = {}

IslandRefused(g) ==
    \/ g.epoch # epoch \/ g.tick # tick
    \/ g.island = NoIsland \/ g.members = {} \/ g.bodies = {}
    \/ g.members # IslandMembers(g.island)
    \/ ~ g.bodies \subseteq g.members
    \/ \E b \in g.bodies : parent[b] # None
    \/ ~ Required(g.members) \subseteq g.bodies
    \/ g.bodies \cap Riders(g) # {}

PlaceRefusedUnstamped(g) ==     \* mutant: the live prefix is not compared
    \/ g.canon # canon
    \/ g.op = "evict" /\ g.place \notin rows

PlaceRefused(g) ==
    \/ g.canon # canon \/ g.prefix # prefix
    \/ g.op = "evict" /\ g.place \notin rows

(* preflight, validate_phys_island and the write-cell conflict.            *)
Refused(g) ==
    \/ CASE g.kind = "player" -> PlayerRefused(g)
         [] g.kind = "mind" -> g.verb = "time"
         [] g.kind = "infer" -> g.verb = "time" \/ g.locus = None \/ g.facts
         [] g.kind = "residency" -> PlaceRefused(g)
         [] g.kind = "phys" -> IslandRefused(g)
         [] g.kind \in {"space", "motion"} ->
                g.mover \in Driven \/ g.mover \notin rows
    \/ Cells(g) \cap written # {}

-----------------------------------------------------------------------------
(* API calls between steps.                                                *)
BindPlayer(s, l) ==
    /\ phase = "idle"
    /\ players' = [players EXCEPT ![s] = l]
    /\ UNCHANGED <<phase, tick, epoch, canon, prefix, world, heap,
                   partitionRejects, ring, batchVars, published>>

(* Space and Motion skip rows that are attached already, and Motion skips  *)
(* what a character binding drives (propose_one).                          *)
Proposable(g) ==
    g.kind \in {"space", "motion"} =>
        g.mover \in rows \ Driven /\ parent[g.mover] = None

(* What a producer stamps on its grain: an island job proposes from the    *)
(* live membership for the next tick (ingest_island_jobs), residency       *)
(* carries the prefix at which it was decided (residency_proposals), and   *)
(* may be handed in after more events, within its Canon.                   *)
Stamp(g, held) ==
    CASE g.kind = "phys" ->
            LET S == IslandMembers(g.island)
            IN  [kind |-> "phys", island |-> g.island, pose |-> g.pose,
                 epoch |-> epoch, tick |-> tick + 1, members |-> S,
                 bodies |-> Required(S)]
      [] g.kind = "residency" ->
            [kind |-> "residency", place |-> g.place, op |-> g.op,
             prefix |-> held, canon |-> canon]
      [] OTHER -> g

Ingest(g, reg, held) ==
    /\ phase = "idle"
    /\ Len(heap) < MaxHeap /\ Proposable(g)
    /\ heap' = Append(heap, <<Stamp(g, held), reg>>)
    /\ UNCHANGED <<phase, tick, epoch, canon, prefix, world, players,
                   partitionRejects, ring, batchVars, published>>

(* partition: every row gets this tick's island id, NoIsland outside the   *)
(* islands; which groups there are is geometry.  A Place is never a body.  *)
Partition(a, omitted) ==
    /\ phase = "idle"
    /\ \A l \in Loci : a[l] # NoIsland => l \in rows \ Places
    /\ island' = a
    /\ partitionRejects' = omitted
    /\ UNCHANGED <<phase, tick, epoch, canon, prefix, rows, pose, within,
                   parent, players, heap, ring, batchVars, published>>

(* k transactions pushed events, which are appended to the trace.          *)
Emit(k) == prefix' = prefix + k

HeapKept == heap                \* mutant: heap not cleared

HeapAfterEpoch == <<>>

EpochRing(snap) == Push(EmptyRing(ring.cap), snap)

(* apply_canon_epoch with a pack whose ancestry matches; the refusals      *)
(* before it write nothing.  evicted: RiteEnded events of rites that could *)
(* not resume.                                                             *)
ApplyEpoch(c, evicted) ==
    /\ phase = "idle" /\ epoch < MaxEpoch
    /\ c # canon
    /\ epoch' = epoch + 1 /\ canon' = c
    /\ Emit(evicted)
    /\ heap' = HeapAfterEpoch /\ partitionRejects' = {}
    /\ LET snap == [Snapshot EXCEPT !.epoch = epoch + 1]
       IN  /\ ring' = EpochRing(snap)
           /\ published' = {snap}
    /\ UNCHANGED <<phase, tick, world, players, batchVars>>

(* step, up to the admission loop.                                         *)
BeginStep(dt, cap, sync) ==
    /\ phase = "idle" /\ tick + dt <= MaxTick
    /\ \A i \in DOMAIN sync : Proposable(sync[i][1])
    /\ phase' = "admit"
    /\ tick' = tick + dt
    /\ ring' = SetCap(ring, cap)
    /\ heap' = <<>> /\ partitionRejects' = {}
    /\ \E f \in Bijection(DOMAIN (heap \o sync), DOMAIN (heap \o sync)) :
        /\ StableOrder(heap \o sync, f)
        /\ batch' = [k \in 1 .. Len(heap \o sync) |-> (heap \o sync)[f[k]]]
    /\ rest' = batch'
    /\ written' = {} /\ out' = <<>> /\ posed' = [l \in Loci |-> 0]
    /\ begun' = prefix
    /\ UNCHANGED <<epoch, canon, prefix, world, players, published>>

-----------------------------------------------------------------------------
(* One pass of the loop over a class of n entries with first grain g.      *)
Outcome(e, verdict, seen, riders, k) ==
    [entry |-> e, verdict |-> verdict, seen |-> seen,
     riders |-> {<<c, parent[c]>> : c \in riders}, events |-> k]

Lost(e, verdict) == Outcome(e, verdict, {}, {}, 0)

Take(n, outcomes) ==
    /\ phase = "admit"
    /\ rest # <<>> /\ FrontClass(n)
    /\ rest' = SubSeq(rest, n + 1, Len(rest))
    /\ out' = out \o outcomes
    /\ UNCHANGED <<phase, tick, epoch, canon, players, heap,
                   partitionRejects, ring, batch, begun, published>>

NoWrite == UNCHANGED <<world, written, posed, prefix>>

(* A class of distinct grains: every member loses with Conflict.           *)
AdmitAmbiguous(n) ==
    /\ Ambiguous(n)
    /\ Take(n, [i \in 1 .. n |-> Lost(rest[i], "ambiguous")])
    /\ NoWrite

(* Refused by the kernel itself, or vetoed by a witness, Law or predicate. *)
AdmitRefused(n) ==
    /\ Take(n, <<Lost(rest[1], "rejected")>>)
    /\ ~Ambiguous(n)
    /\ NoWrite

(* The first of n identical grains is admitted; its transactions push k.   *)
Admit(n, seen, riders, k) ==
    /\ Take(n, <<Outcome(rest[1], "admitted", seen, riders, k)>>)
    /\ ~Ambiguous(n)
    /\ ~Refused(rest[1][1])
    /\ written' = written \cup Cells(rest[1][1])
    /\ Emit(k)

Writes(S) == posed' = [l \in Loci |-> IF l \in S THEN posed[l] + 1 ELSE posed[l]]

(* drive_rite: no rite starts, or one that only pushes its own events.     *)
AdmitIntent(n, g, k) ==
    /\ Intent(g)
    /\ Admit(n, IF Rewinds(g) THEN Seen(g) ELSE {}, {}, k)
    /\ UNCHANGED <<world, posed>>

(* drive_rite on a "use": possess (PilotedBy the target) or let go.        *)
AdmitPossess(n, g, host) ==
    /\ Intent(g) /\ g.verb = "use"
    /\ Actor(g) \in rows /\ host \in {None, g.target} \ {Actor(g), parent[Actor(g)]}
    /\ host \in rows \cup {None}
    /\ Admit(n, {}, {}, 1)
    /\ parent' = [parent EXCEPT ![Actor(g)] = host]
    /\ UNCHANGED <<rows, pose, within, island, posed>>

(* drive_rite, Spawn op: alloc_spawn_sigil takes the id above every live    *)
(* one, generation 0; the Relic appears where the actor stands, with the   *)
(* island id a row is born with.  Outside Bodies there is no Relic Sigil.  *)
AdmitSpawn(n, g, l, p) ==
    /\ Intent(g)
    /\ l \in Bodies \ Driven
    /\ l - 1 \in rows /\ \A r \in rows : r < l
    /\ Actor(g) \in rows => p = pose[Actor(g)]
    /\ Admit(n, IF Rewinds(g) THEN Seen(g) ELSE {}, {}, 1)
    /\ rows' = rows \cup {l}
    /\ pose' = [pose EXCEPT ![l] = p]
    /\ island' = [island EXCEPT ![l] = 0]
    /\ UNCHANGED <<within, parent, posed>>

AdmitPose(n, g) ==
    /\ g.kind \in {"space", "motion"}
    /\ Admit(n, {}, {}, 0)
    /\ pose' = [pose EXCEPT ![g.mover] = g.pose]
    /\ island' = [island EXCEPT ![g.mover] = g.island]
    /\ Writes({g.mover})
    /\ UNCHANGED <<rows, within, parent>>

(* admit_phys_island: bodies, then the attached children from the parent;  *)
(* k: broken constraints and contact rites push events.                    *)
AdmitIsland(n, g, k) ==
    /\ g.kind = "phys"
    /\ Admit(n, {}, Riders(g), k)
    /\ LET moved == g.bodies \cup Riders(g)
       IN  /\ pose' = [l \in Loci |-> IF l \in moved THEN g.pose ELSE pose[l]]
           /\ Writes(moved)
    /\ UNCHANGED <<rows, within, parent, island>>

(* apply_place_snap: every row of the snap, live rows overwritten.         *)
AdmitLoad(n, g) ==
    /\ g.kind = "residency" /\ g.op = "load"
    /\ Admit(n, {}, {}, 1)
    /\ LET snap == Catalog[g.place]
           S == DOMAIN snap
       IN  /\ rows' = rows \cup S
           /\ pose' = [l \in Loci |-> IF l \in S THEN snap[l].pose ELSE pose[l]]
           /\ within' = [l \in Loci |->
                            IF l \in S THEN snap[l].within ELSE within[l]]
           /\ parent' = [l \in Loci |->
                            IF l \in S THEN snap[l].parent ELSE parent[l]]
           /\ island' = [l \in Loci |->
                            IF l \in S THEN snap[l].island ELSE island[l]]
           /\ Writes(S)

ScrubOwn(rel, S) ==             \* mutant: relations to a dropped row stay
    [l \in Loci |-> IF l \in S THEN None ELSE rel[l]]

(* strip_packed_maps and scrub_incoming_set.                               *)
Scrub(rel, S) ==
    [l \in Loci |-> IF l \in S \/ rel[l] \in S THEN None ELSE rel[l]]

(* evict_place: the rows go, and every relation to them.                   *)
AdmitEvict(n, g) ==
    /\ g.kind = "residency" /\ g.op = "evict"
    /\ Admit(n, {}, {}, 1)
    /\ LET S == Dropped(g.place)
       IN  /\ rows' = rows \ S
           /\ within' = Scrub(within, S) /\ parent' = Scrub(parent, S)
           /\ island' = [l \in Loci |-> IF l \in S THEN NoIsland ELSE island[l]]
           /\ Writes(S)
    /\ UNCHANGED pose

(* step, after the loop: an IslandSnap event per island that is not wholly *)
(* asleep, snapshot, ring.                                                 *)
EndStep ==
    /\ phase = "admit" /\ rest = <<>>
    /\ phase' = "idle"
    /\ \E awake \in SUBSET ({island[l] : l \in rows} \ {NoIsland}) :
            Emit(IF tick % Period = 0 THEN Cardinality(awake) ELSE 0)
    /\ ring' = Push(ring, Snapshot)
    /\ published' = published \cup {Snapshot}
    /\ written' = {} /\ batch' = <<>> /\ out' = <<>>
    /\ posed' = [l \in Loci |-> 0] /\ begun' = 0
    /\ UNCHANGED <<tick, epoch, canon, world, players, heap, partitionRejects,
                   rest>>

Call ==
    \/ \E s \in Slots, l \in Loci : BindPlayer(s, l)
    \/ \E g \in Grains, reg \in Regs, held \in 0 .. prefix : Ingest(g, reg, held)
    \/ \E a \in [Loci -> IslandIds \cup {NoIsland}], o \in SUBSET Omits :
            Partition(a, o)
    \/ \E c \in Canons, k \in 0 .. 1 : ApplyEpoch(c, k)

AdmitClass ==
    \E n \in 1 .. Len(rest) : LET g == rest[1][1] IN
        \/ AdmitAmbiguous(n)
        \/ AdmitRefused(n)
        \/ \E k \in 0 .. 1 : AdmitIntent(n, g, k)
        \/ \E host \in Loci \cup {None} : AdmitPossess(n, g, host)
        \/ \E l \in Bodies, p \in Poses : AdmitSpawn(n, g, l, p)
        \/ AdmitPose(n, g)
        \/ \E k \in 0 .. 1 : AdmitIsland(n, g, k)
        \/ AdmitLoad(n, g)
        \/ AdmitEvict(n, g)

Step ==
    \/ \E dt \in Ticks, cap \in Caps, sync \in SyncBatches :
            BeginStep(dt, cap, sync)
    \/ AdmitClass
    \/ EndStep

Next == Call \/ Step

Spec == Init /\ [][Next]_vars
-----------------------------------------------------------------------------
Keys == {AdmitKey(batch[i]) : i \in DOMAIN batch}

ClassOf(k) == {i \in DOMAIN batch : AdmitKey(batch[i]) = k}

OutcomesOf(k) == {i \in DOMAIN out : AdmitKey(out[i].entry) = k}

Stamped(g) ==
    CASE g.kind = "phys" -> g.epoch = epoch
      [] g.kind = "residency" -> g.canon = canon
      [] OTHER -> TRUE

TypeOK ==
    /\ phase \in {"idle", "admit"}
    /\ tick \in 0 .. MaxTick /\ epoch \in 0 .. MaxEpoch
    /\ canon \in Canons /\ prefix \in Nat /\ begun \in Nat
    /\ rows \subseteq Loci /\ pose \in [Loci -> Poses]
    /\ within \in [Loci -> Places \cup {None}]
    /\ parent \in [Loci -> Loci \cup {None}]
    /\ island \in [Loci -> IslandIds \cup {NoIsland}]
    /\ players \in [Slots -> Loci \cup {None}]
    /\ partitionRejects \subseteq Omits
    /\ posed \in [Loci -> Nat]
    /\ ring.cap \in Nat /\ Len(ring.snaps) <= ring.cap

(***************************************************************************)
(* K55: at most one admitted proposal writes a locus' pose in a step.      *)
(* Rides on written, on cells computed against the world as it is when the *)
(* proposal's turn comes (a player may attach a rider in the same step),   *)
(* and on lane 0 being shared by islands, space, motion and residency.     *)
(***************************************************************************)
OnePoseWriter == \A l \in Loci : posed[l] <= 1

(***************************************************************************)
(* Rows come and go with their Places, and no relation or island outlives  *)
(* either end: what attached_children, evict_place's migration test and    *)
(* the membership check of the next island rely on.  Only a snap that was  *)
(* taken with the other end outside brings a relation to a locus that is   *)
(* not there; the kernel itself makes or leaves none.                      *)
(***************************************************************************)
LeadsOut(snap, l, to) ==
    l \in DOMAIN snap /\ to \in {snap[l].parent, snap[l].within} \ DOMAIN snap

NoDanglingRelation ==
    \A l \in Loci :
        /\ \A to \in {parent[l], within[l]} \ {None} :
              /\ l \in rows
              /\ \/ to \in rows
                 \/ LeadsOut(Start, l, to)
                 \/ \E p \in Places : LeadsOut(Catalog[p], l, to)
        /\ island[l] # NoIsland => l \in rows

(***************************************************************************)
(* A rider an island carried still sits at its host when the step's        *)
(* snapshot is taken: nothing admitted later in the step moved either.     *)
(***************************************************************************)
RidersStayAtHost ==
    \A i \in DOMAIN out : \A r \in out[i].riders : pose[r[1]] = pose[r[2]]

(***************************************************************************)
(* K18/K34: the verdicts do not depend on arrival order.  When the loop is *)
(* through, a class of identical grains has exactly one outcome (a retried *)
(* ingest has exactly-once effect) and every member of a class of distinct *)
(* grains lost as ambiguous, wherever they stood in the heap.              *)
(***************************************************************************)
ClassesDecidedOnce ==
    phase = "admit" /\ rest = <<>> =>
        \A k \in Keys :
            IF \A i, j \in ClassOf(k) : batch[i] = batch[j]
            THEN /\ Cardinality(OutcomesOf(k)) = 1
                 /\ \A i \in OutcomesOf(k) : out[i].verdict # "ambiguous"
            ELSE /\ Cardinality(OutcomesOf(k)) = Cardinality(ClassOf(k))
                 /\ \A i \in OutcomesOf(k) : out[i].verdict = "ambiguous"

(***************************************************************************)
(* A Fire that was admitted under rewind was judged on the newest world    *)
(* published at or before the tick the shooter claims, in this epoch and   *)
(* within the window, whatever the cap did between the steps; one that     *)
(* claims the present was judged on the live world.                        *)
(***************************************************************************)
RewoundToNewest ==
    \A i \in DOMAIN out : LET g == out[i].entry[1] IN
        out[i].verdict = "admitted" /\ g.kind = "player" /\ out[i].seen # {} =>
            \E s \in out[i].seen :
                \/ s.tick = tick /\ g.at >= tick
                \/ /\ s \in published
                   /\ s.tick <= g.at /\ s.tick + ring.cap >= tick
                   /\ \A p \in published :
                        p.tick \in s.tick .. g.at => p = s

(***************************************************************************)
(* Nothing from before a Canon epoch is used after it: the ring holds only *)
(* snapshots of the live epoch, the heap only grains stamped in it.        *)
(***************************************************************************)
NothingOutlivesEpoch ==
    /\ \A i \in DOMAIN ring.snaps : ring.snaps[i].epoch = epoch
    /\ \A i \in DOMAIN heap : Stamped(heap[i][1])
    /\ \A i \in DOMAIN rest : Stamped(rest[i][1])

(***************************************************************************)
(* A Place is loaded or evicted only on the prefix it was decided on: no   *)
(* event lies between the stamp and the step, however long the caller held *)
(* the proposal, and none of the same step was appended before it.  So a   *)
(* second residency of a step is never admitted.                           *)
(***************************************************************************)
ResidencyOnItsPrefix ==
    \A i \in DOMAIN out :
        out[i].verdict = "admitted" /\ out[i].entry[1].kind = "residency" =>
            /\ out[i].entry[1].prefix = begun
            /\ \A j \in 1 .. i - 1 : out[j].events = 0
=============================================================================
