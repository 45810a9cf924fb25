# Klotho: TLA+ models and proofs

Klotho is a game engine whose world is a ledger: every change is a *proposal*
that one commit kernel admits or rejects, and every admitted change is an event
of a trace from which replicas, saves and replays are rebuilt. Its studio lets
people and AI agents edit a project in isolated transactions that are merged,
evaluated and reviewed. This directory holds TLA+ modules for the parts of both
where order, concurrency, faults and stale data decide whether the program is
right, TLC configurations that check them on small instances, and TLAPS proofs
for every instance.

Run from this directory:

    tlc -workers 2 -config MCStealDeque_tso.cfg MCStealDeque
    tlc -workers 2 -config MCCommitKernel_mixes.cfg MCCommitKernel
    tlc -workers 2 -config InferHost_frames.cfg InferHost
    tlapm StealDequeProofs.tla        # also CommitKernelProofs, ProjectionProofs,
                                      # RiteBurstProofs, ChannelProofs,
                                      # IntentProofs, AuthorStoreProofs,
                                      # AuthoringProofs

## 1. The system and what can go wrong in it

### The tick

`klotho-sim` runs a fixed phase order: ingest, interest, partition, propose
(parallel jobs), join, step, inference kick, network flush. `klotho-runtime`
drives it with devices, capture and a server. All phases but the propose jobs
run on one thread and hold `&mut CommitKernel`; the parallelism of the tick is
inside `klotho-jobs`, and what happens between ticks (sidecar, network) talks
to the kernel only through proposals.

### The studio

`klotho-ai` keeps one `TransactionStore` on disk: transactions are private
snapshots with leases, a review queue and a sequence clock. A scheduler gives
each request the anchors of its scope; a service drives it through a model
backend into a transaction, repairs it, and has the farm seal evidence for it.
`klotho-editor` shows a candidate to the designer, who installs all or part of
it into a document he also edits by hand.

| Part | State | Operations | Hard behaviour | Correct when |
|---|---|---|---|---|
| klotho-jobs | one deque per worker (`top`, `bottom`), a buffer per worker | deal, pop, steal, join | lock-free deque with relaxed stores | no island lost; one thief; workers end |
| klotho-commit, kernel | heap, players, partition rejects, and the world | bind, ingest, partition, apply epoch, step | order of a batch, stale stamps, several writers of a pose | one pose writer; order-independent verdicts; nothing stale used |
| klotho-commit, rites | machine rows, step budget, contact windows | start, resume, recover, hit, collapse | bursts cut by a budget, one row moved from two sides | no row in the middle of a burst; one witnessed hit; actions end |
| klotho-world | packed columns, relations, island ids, snapshots, ring | spec / commit, place load and evict, snapshot | rows leave while relations name them, migration | no relation made to a row that is gone; rewind finds the newest snapshot |
| klotho-net, session | slots, epoch, prefix, wire | hello, join, intents, trace, resync, epoch | packets of the old epoch, skipped generations | one prefix; intents of this epoch, once; a way back |
| klotho-net, poses | dictionaries, baselines, overlay | set_interest, flush, apply, resync | lost and reordered packets | the client shows where the movers are |
| klotho-infer | pending map, disabled flag, channel, pipes | submit, poll, disable | late answers, full channel, hung or dead child | an answer is used once and in time |
| klotho-input | press buffer, support, action start | map a sample | presses that wait for a window | fired in time, legally |
| klotho-ai, store | memory image, meta file, transaction files, leases | create, apply, rebase, lease, submit, cancel, resume | kill between two files, failed write | durable; queue exact; one holder |
| klotho-ai, merge | none | classify, merge, diff, rebase | two authors of one object | symmetric; nothing lost |
| klotho-ai, agents | rows, anchor owners, evidence | enqueue, drive, repair, evaluate, attach, cancel | many error paths, late evidence | owners are the active; evidence is fresh |
| klotho-editor | document, reviews (and cook, overlay) | open, select, rerun, install, reject | copies of a moving candidate, a selection that fails half-way | what is installed was evaluated |
| klotho-runtime | frame loop, halted epoch | stamp, poll, kick, apply epoch | | as its parts |
| klotho-trace, -canon and -core (but for what `Projection` uses), -prove, -ir, -geom, -anim, -manifest | values, a log, pure functions | | numeric | unit tests |
| klotho-interest, -stream, -save | a pass over one view, files read once, one retained blob | | nothing in the frame loop calls them yet | unit tests |
| klotho-live, -release | fixtures and records | match, reconnect, deploy, sync | grants used twice | single-threaded, unit tests |
| klotho-motion, -space, -phys, -mind | none between ticks | propose | none: pure functions of a view | proposals match the view |
| klotho-render, -audio, -ui, -vfx, -cinematic, -debug, -platform, -compile; studio -dcc, -dialogue, -eval, -pattern, -schema, -kai-bench, -worker | presentation, batch tools | read, cook | none writes the world | |

`PROJECT.json` lists each with its status, and under `hazards` the lines where
these behaviours bite, with the properties that cover them.

### How the modelled parts interact

`partition` gives every row its island id; the runtime asks the jobs for a
proposal per island, stamped with epoch, next tick and live membership;
`step` sorts everything pending, admits it and publishes a snapshot into the
rewind ring, from which the next steps judge shots. `StealDeque` is the jobs,
`CommitKernel` the kernel with its world, `RewindRing` the ring, `RiteBurst`
what one admitted intent or island does to the rite machines. An island claimed
twice (run `steal_dup`) gives two equal proposals with equal keys, which
`ClassesDecidedOnce` shows to be decided as one. `InferHost` contains the frame
that polls, steps and kicks; what it ingests are the inference grains of
`CommitKernel`. `NetSession` ships the delta of each step, which is what was
appended, and `PoseStream` runs beside it under the same generations.
`Distaff` EXTENDS `AuthorAgents`: the editor's review reads the candidate the
service goes on changing. The transactions of the agents are those of
`AuthorStore` with the files left out, and what a rebase there merges is
`AuthorMerge`.

## 2. Modules

### StealDeque, IslandPool (klotho-jobs: steal.rs, lib.rs)

`propose_parallel` deals the islands round robin, spawns the workers and joins
their buffers. `top`, `bottom` are the atomics, `pc[w]` the next atomic access
of worker w, `tt`, `bb` its locals, `victim` the loop variable of
`next_island`, `chunks` the buffers. An island is the slot it was dealt to.

| Action | Code |
|---|---|
| PopBottomEmpty, PopBottom | load and store of `bottom` in `pop_bottom` |
| PopOvertaken, PopTake, PopLast | load of `top` and its three cases |
| PopCasWon, PopCasLost | the compare_exchange on the last item and the restore of `bottom` |
| StealTop, StealEmpty, StealBottom | the two loads of `steal` |
| StealWon, StealLost | its compare_exchange |
| ScanSelf, ScanEnd | the loop of `next_island`; `None` ends the worker |
| Drain | hardware: a buffered store reaches memory |

`pop_bottom` stores `bottom` relaxed and loads `top` with no fence between, so
each worker has a store buffer `sb[w]` and a compare_exchange waits until it is
empty. This is x86-TSO; Rust's memory model and ARM allow more, so what is
violated here is violated there, and what holds here is claimed for TSO.
`StoreBuffering = FALSE` gives sequential consistency.

`IslandPool` is what the deques promise: a worker takes an island of its own at
most once, another's only if no thief has, and nobody leaves while an island of
its own is with nobody. `ImplementsPool` maps `left` to the workers that are
done; every atomic access but a successful claim and a worker's end is a
stutter.

### CommitKernel, RewindRing (klotho-commit: kernel.rs, proposal.rs; klotho-world: proj.rs, spec.rs, rewind.rs)

Calls cannot interleave (`&mut self`), so a call is one action, except `step`,
which is cut at the passes of its admission loop: `BeginStep` (tick, ring cap,
batch taken and sorted), one `Admit...` action per class, `EndStep` (island
snaps, snapshot, ring). The world is `rows`, `pose`, `within` (Rel::In),
`parent` (PilotedBy or AttachedTo) and `island`. `RewindRing` is the ring as
pure operators on a record of the cap and the sequence of snapshots.

| Action | Code |
|---|---|
| BindPlayer, Ingest, Partition, ApplyEpoch | the calls of that name |
| AdmitAmbiguous | a class of distinct grains: all lose with Conflict |
| AdmitRefused | preflight, island validation, cell conflict, or a veto |
| AdmitIntent | a player, mind or inference intent: no rite, or one with events only |
| AdmitPossess, AdmitSpawn | a rite's RelAdd/RelDel of a host; its Spawn |
| AdmitPose | a Space or Motion delta |
| AdmitIsland | `admit_phys_island`: bodies and their attached children |
| AdmitLoad, AdmitEvict | a residency: `apply_place_snap`, `evict_place` |

Data is abstracted so: the prefix hash is the number of transactions that
appended something (the chain is injective along one trace); a pose is one of
two values; a Sigil is a natural, its id, and the loci in `Bodies` are Relics;
what a Law, a witness or a rite's predicate says is Canon content, so
`AdmitRefused` may refuse any proposal. `batch`, `out`, `posed`, `begun` and
`published` are history variables: the sorted batch, the outcomes with the
transactions each appended, how many grains wrote a locus' pose through lane 0,
the prefix when the step began, and the snapshots of the epoch. `posed` does not
count the pose a spawn gives the row it creates.

Grains are handed to `Ingest` unstamped and get there what their producer
stamps (`Stamp`: epoch, next tick and members for an island, prefix and Canon
for a residency), so a stale stamp only arises the way it does in the program:
by what happens between stamp and admission. The caller may hold a residency
and hand it in after more events (`held`), within the Canon it was stamped in.
Space and Motion propose only for what `Proposable` says.

A snap is any rows with any relations (`IsSnap`): `capture_place` also takes
the rows that migrate with a host outside the Place, and `apply_place_snap` asks
of no relation whether its other end is there. So a load may bring a relation to
a locus that is gone, and a row spawned later may take that very id.

Left out: budgets (a free veto here), contacts and motion windows (both in
`RiteBurst`), constraints and breakage fragments, `sleep_ticks` except that a
sleeping island pushes no IslandSnap, `phys_req`, saturation at 2^64, the
offset of a rider (it is placed at its host's pose), the two relations to a
host held at once, and rites that write more than one of the modelled
relations.

### Projection, LocusRows (klotho-world: proj.rs, grid.rs, spec.rs, mutate.rs, world.rs; klotho-canon: epoch.rs)

What `CommitKernel` takes for a function from loci to rows is packed: `proj`
has the columns, the maps keyed by packed index and the table of indices,
`space` the grids of hulls per Place, `home` telling which grid an index is in.
Calls come one at a time and each is an action: the setters (`InsertLocus`,
`SetAffordance`, `SetHull`, `SetPose`, `SetBody`, `SetMap`), the relations
(`AddRel`, `DelRel`, `AddIn`, `DelIn`), the events that create rows
(`IslandSnap`, `Spawn`), `RemoveLocus`, `CapturePlace`, `EvictPlace`,
`LoadCooked`, `LoadHeld`, `Reload` (encode, decode, resume) and `ApplyEpoch`.
A refused call changes nothing and is left out. Space has one axis; columns
nothing here reads are one column.

`LocusRows` is the promise: a map of rows. A setter changes the row it names,
rows that go leave no reference behind, a snapshot is applied whole, a save
gives back the same rows, an epoch carries each row over by authoring names.
`ImplementsRows` maps its `rows` to what `capture_snap_row` reads of each locus.

### RiteBurst (klotho-commit: rite.rs, motion_contact.rs, kernel.rs; klotho-world: proj.rs)

A rite is a sequence of ops, a burst runs it from its pc to the next WAIT, its
end or the end of the step's `rite_steps` inside one speculative delta, which
`Judge` commits or drops whole. `rite` holds the machine rows, `written` the
cells of this step, `stage` the admission order (players, islands, minds),
`deeds` what the trace says of each action. A `SpecDelta` also holds the
registers of its present burst (`run`, `pc`, `target`); `Turn` is one turn of
the loop of `run_burst`. Quantities are integers, as in the code, and a WAIT of
no ticks is legal. SETQ, REL_ADD and REL_DEL write through any slot (the actor,
the target, a name, one that names nothing and fails), and BIND takes the actor,
the target or a related locus.

| Action | Code |
|---|---|
| PlayerIntent, MindIntent | `drive_rite`: start, resume, the hit of melee or fire, collapse |
| IslandProposal | `admit_motion_windows` of each body in Sigil order, with the contacts claimed, then the cells |
| Step | the tick of the kernel: clocks, budget, cells |
| ApplyEpoch | `apply_canon_epoch` with `remap_epoch`: a row stays if its rite and pc exist |

`Canons` are cooked graphs (`CookAssumption` is what cfg.rs checks); a contact
track binds one WAIT of one rite of an actor. The clock of a wait is an age.
One resource stands for health and integrity, one relation, PartOf, for them
all, so BIND of any related locus reads it too; of several hosts `CHOOSE` takes
one, where the code takes the one added first. The rites the VM knows by name
have one numbering in all Canons (`RiteOrder`, their places in the list), so the
fallback of `pick_start_rite` and `first_rite` agree on the order. Of the verbs
there are three: `use` (a hittable target starts melee, else the fallback),
`fire` (the rite of that name or the fallback), and `steer`, for the verbs with
no fallback. Whether a sweep meets a hull and what a Law says is open.

### InferHost, JobDesk (klotho-infer, klotho-runtime: main.rs)

`Poll`, `SimTick` and one of four `Kick...` actions are the frame; the writer
thread, the child, the reader thread and the pipes have actions of their own
(`WriterTakes` ... `ReaderRejects`), and the child may answer, hang or die
between any two. `replies` is the unbounded channel, `requests` the one of
`IPC_QUEUE` slots. A job is its id and the tick of its snapshot.

`JobDesk` is the promise: a job is submitted once, settled or abandoned, used
only within its SLO; after each round none out of time is on the desk; a closed
desk is empty for ever. `ImplementsDesk` maps `open` to the domain of `pending`
and `closed` to the disabled flag.

### PoseStream (klotho-net: server.rs, session.rs, overlay.rs)

The server's dictionary, baseline, `send_full` and refresh age; the client's
generation, dictionary, `needs_resync`, `awaiting_interest`, baseline and
overlay; the wire as a sequence. `FlushPose` decides between Full and Delta as
`flush_pose` does, `Accepts` is the generation window, `ApplyPose` decodes by
baseline. The `Wire` of the code is a lossless queue; `faults` adds what the
documents expect of a datagram transport: lost poses, poses that overtake
control packets, control packets in any order.

### NetSession (klotho-net: server.rs, session.rs; klotho-runtime: epoch.rs)

`SayHello`, `SendIntent`, `InstallDownloaded` are the client's callers;
`HandleHello` and `HandleIntent` the server's pump; `Consume`, `FlushDelta`,
`SetInterest`, `Resync`, `InstallEpoch`, `RecordDesync` the server's callers;
`ClientPump` the client's. A prefix is the sequence of events folded into it,
and `at` remembers the server's at every epoch and tick.

### FeelMapper (klotho-input: feel.rs, lib.rs; klotho-ir: feel.rs)

`Sample` is one call of `FeelMapper::map`: the support is noted, `Overdue`
fails the sample, else the press is appended, the oldest legal one leaves
(`Release`), and the first starts the action whose windows rule from then on.

### AuthorStore, AuthorMerge (klotho-ai: store.rs, lease.rs, cells.rs, conflict.rs, merge.rs, exec.rs; klotho-author: apply.rs)

In `AuthorStore` every handler changes the memory image, then writes the
transaction's file, then the meta file. `PersistBoth` has the outcomes: both
written; killed in between; the first or second write fails, the caller gets
Err and the memory image stays changed. `Open` is `resume`. `acked` and `gone`
are what callers were told.

`AuthorMerge` has an operation's cells (`Writes`, `Involved`), the conflict
matrix (`Conflicts`), the edits with their preconditions (`ApplyOp`), the
canonical order and the merge (`Arranged`, `MergeOps`), the diff as far as it
sees (`Changes`) and the rebase (`CheckPrepared`, `Rebase`). Two authors edit copies
of a base; the invariants compare what each saw with what the merge would be.

### AuthorAgents, Distaff (klotho-ai: agent.rs, service.rs, evaluation.rs; klotho-editor: session.rs, assistant.rs)

`AuthorAgents` has one action per outcome of the scheduler and the service:
`Enqueue`; the five ways a drive ends (`DriveFails`, `DriveTimesOut`,
`DriveStops`, `DriveInvalid`, `DriveSucceeds`); `Pause`, `Resume`, `Cancel`;
`Submit`, `Evaluate`, `AttachEvidence`, `Repair`, `RepairOverBudget`. `Distaff`
adds the review (`Open`, `SelectGroups`, `SelectRefused`, `Rerun`,
`AttachRerun`, `PinReview`, `Reject`) and the document it installs.
The content of a snapshot is the sequence of anchors written into it. A
selection is the operations picked, by index, and is its own hash; `Broken` are
those that do not apply to the base or do not flatten. The review keeps the
document it last made (`doc`) beside the selection (`sel`): `SelectRefused` is
the early return that has changed the second and not the first, and `PinReview`
installs the first. What the designer edits by hand is left out.

## 3. What the runs check

Several MC modules have a variable `mix`: the initial state chooses one kind of
traffic or transport, which is kept, so that the spaces of the scenarios add up
instead of multiplying.

| Run | Question | Bounds |
|---|---|---|
| steal_tso | Do the deques implement the pool (no island lost, one thief, its owner once) with buffered stores, and do the workers end? | 3 workers; 4 islands: deques of 2, 1 and 1; or 2: one empty |
| steal_dup | violation: `claims <= 1` of loom_deque.rs under buffering | 2 workers, 3 islands |
| kernel_mixes | One pose writer, riders, retries and ambiguous classes, rewound shots, epochs, residencies | 5 mixes; 2 to 3 grains, 1 to 4 ticks, 2 Places, a snap whose vehicle hangs on a host outside, residencies held for one transaction, caps 0 and 2, 2 epochs |
| projection_mixes | Is the packed world a map of rows, is its spatial index exact, does a Place come back as it went? | 3 mixes of 4 or 5 calls; a Place of 3, a host outside, caps 3 and 5, 2 Canons, cells of 3 |
| rite_mixes | No row in the middle of a burst, one witnessed hit, one collapse, WAIT yields, actions end | 6 mixes of Canon, partition, budget, veto and pack; 2 actors, a host and its part; use, fire (by fallback) and steer |
| infer_frames | Answers used once and in time, no job stuck, a dead child noticed, the desk implemented | 5 jobs, SLO 2, pipes of one frame, channel of 2 |
| pose_mixes | Rows decode, no rollback, convergence | 2 movers lossless; 1 mover with loss and overtaking; 1 with shuffled control; 3 dictionaries, wire of 2 |
| net_mixes | Prefix in step, intents in epoch and in order, the way back | 3 mixes; 4 ticks, 2 intents, 2 epochs, 2 dictionaries |
| feel_mixes | Fired in time, legally, and an overdue press is final | 2 contracts, ticks 0 to 5, 2 samples a tick |
| author_mixes | Durable answers, exact queue, one lease holder | 2 transactions, 2 objects, 2 kills; or 2 transactions and the 2 roots `x` and `module` for leases, 1 kill or failed write |
| merge_pairs | Symmetric merge, nothing lost by merge or rebase | 2 bases, 4 operations in all out of 28 |
| distaff_mixes | Owners, fresh evidence, evaluated installs | 2 requests over 2 anchors; or 1 request under review, 2 repairs, a second operation that does not stand alone |

`CHECK_DEADLOCK FALSE` is set where the model stops at a bound that exists only
to make it finite (ticks, jobs, sequence numbers) or where the program ends
(the workers).

Why the bounds are enough to be interesting. The races of the deque need an
owner, a thief on the last slot and a second thief; a longer deque repeats the
middle case (`PopTake`), which two items reach. In the kernel a conflict needs
two grains and a third whose turn lies between or after them. The ring needs a
cap smaller than the number of published snapshots and ticks that are skipped.
The projection needs a row that is last and one that is not, a row keyed in every
map, a hull that crosses a cell, a full table, and a row that migrates between
capture and load: capture, evict and load leave two calls for what comes between.
A rite needs a WAIT before and behind the contact window (`ember`, `cleave`), a
rite that emits before its window and after its hit and binds something else than
what it met (`hook`), a FIRE with no fire rite, a budget that ends mid-rite, and
two actors on one and on two islands. The inference host needs more jobs in flight than its channel and
pipes hold (2 + 1 + 1 + 1) and ticks past the SLO of the last. A pose stream
needs a Full that is lost, a Delta against it, a refresh, and a generation that
wraps. The session needs traffic of the old epoch on the wire in both
directions. The press buffer needs a press that waits, one behind it that may
go first, and a tick at which the first is overdue. The store needs a kill or a
failed write between the two files of each handler and a handler after it. The
merge needs two operations of each author, so that the second depends on the
first. The review needs a repair, an evaluation or a cancellation between its
copy and its install, and a selection that fails between two that do not.

### Fairness

* `StealDeque!Fairness`: every worker keeps running (the OS schedules the
  threads of the scope) and a store buffer drains.
* `InferHost!FairSpec`: the frame loop and the two threads run, and take a step
  they can take. Of the child nothing is assumed: it may hang in any state.
* `PoseStream!Fairness`: the server flushes every tick, control packets and
  Deltas arrive; strong fairness on `DeliverFull` says only that not every
  refresh is lost, and on `Resync` because the wire's bound may hold it up.
* `MixSpec` of `MCNetSession`: both ends pump in their frames, the client
  downloads packs and says Hello.
* `ActionsEnd` of `RiteBurst` assumes none but is conditional: the island of
  the actor is admitted again and again. The kernel gives no such guarantee (a
  Law may veto for ever, a sleeping island proposes nothing, a member's intents
  may take the lanes), so the assumption is in the property.
* The other modules need none: calls end by themselves.

### What the violation means

**steal_dup.** The owner's decremented `bottom` is still in its store buffer
when it loads `top`; a thief reads the old `bottom`, wins the exchange on the
slot the owner takes without one. `tests/loom_deque.rs` asserts at most one
claim. The effect is bounded: `SpecOneThiefAndOwnerOnce` says one owner and one
thief, and the kernel folds the two equal proposals.

### What else the models show of the code

Behaviour that differs from a document, or that a reader may not expect; the
modules have it, and the properties are stated so as to be true of it.

Kernel and world
* A player who boards in a step is still moved by a Motion delta of that step
  when the vehicle's island was not admitted first (kernel.rs:859; K55 of the
  HLD says otherwise).
* `evict_place` drops rows by the snap the runtime made before; what changed
  since is gone on the next load (kernel.rs:389).
* Spawned ids are one above the largest live id, so a Sigil may be used again
  while its first owner is away with its Place (rite.rs:698; id.rs of
  klotho-core says never).
* A Place captured while a row of it was attached outside and loaded when that
  host is gone comes back with the relation to it (proj.rs:324, 641):
  `NoDanglingRelation` says that nothing else leaves one.
* A residency decided behind any other event of its step is stale and refused;
  under steady traffic with smaller keys it may never be admitted
  (kernel.rs:753). No property says otherwise.
* An island with a tracked body takes lane 1 of every locus it writes, so a
  player's intent for any member keeps the island out of that step
  (kernel.rs:524).

* A row that stays behind when its Place is evicted is still in the snapshot
  captured before, so the load puts it back where it was (proj.rs:359); and
  a captured rite comes back running although the evict wrote RiteEnded
  (spec.rs:196).
* A world that is read back has the process cap on rows, not its own
  (proj.rs:737).

Rites
* The WAIT, the claims and the window of a rite that no track binds are not
  enforced when a player resumes it (rite.rs:398, view.rs:476).
* When the budget ends inside `apply_hit` before the relation is deleted, the
  next hit collapses the locus again (rite.rs:595): `CollapsedOnce` excepts
  loci whose own `apply_hit` or `collapse` ever ran out of steps.
* A pack that adds or changes a track leaves a row inside its WAIT
  (proj.rs:225 looks at the pc only): `NoHalfBurst` speaks of the first epoch.
* The cook lets a track bind any rite whose WAIT matches (cook.rs:235). One on
  another rite than melee is not kept to its window, so the accounts of a
  bound action are kept only by tracks on melee rites (`MeleeTracks`).
* FIRE hits as the rite starts, whatever the rite is (rite.rs:474), and where a
  Canon has no rite named fire it starts the first of its list (rite.rs:508).
  A tracked melee begun so hits at once with no contact, if it emits before its
  first WAIT, and once more in its window, although the doc comment of
  `admit_motion_windows` says that the profile "consumes a one-target action at
  its first validated hit" (rite.rs:706). `OneHitPerAction` and
  `HitsAreWitnessed` therefore speak of actions begun otherwise; the ghost
  `bound` tells them apart.
* What a bound action strikes is what it met: after an admitted contact a WAIT
  or BIND that would change the row's target is refused (rite.rs:145, 201), so
  what the code binds before that contact does not matter, nor what the player
  aimed at.
* A burst that runs out of steps keeps what it did, relations and emissions
  included (K21, rite.rs:37); what is atomic is the end of its row, and
  `NoHalfBurst` says no more.
* A pack that drops a track leaves its action running and anybody's to resume;
  a later pack that restores the track makes it a bound action again, with the
  hits it had in between. So the accounts are kept if no second pack follows or
  no pack drops a track (`TracksKept`; without it and with `MaxEpoch = 2`, TLC
  finds a hit no contact witnessed).
* Nothing forbids a WAIT in `apply_hit` or `collapse`; the victim's row would
  then stay and be moved with the actor's; nor a WAIT of no ticks, which would
  be passed in its own step. The Canons of the run have neither, like the
  fixtures of the engine (`WaitsAreReal`).
* Any Emitted event counts as the hit.

Network
* A Delta leaves out a mover that is back at its baseline (server.rs:513), and
  a lost Full spoils the Deltas up to the next refresh (server.rs:336);
  `Converges` holds because the refresh comes.
* A trace delta dropped after a skipped generation makes the next one a desync
  (session.rs:714) unless the Resync comes first.
* A client that installs a pack with deltas of the old epoch unread
  disconnects: `Rejoins` assumes a caller who empties the wire first.

Input
* An overdue press is never dropped, so the mapper fails from then on, and the
  action start is never reset, so later presses outside the first action's
  windows never fire (feel.rs:341, 361).

Authoring
* A kill between the files of `submit` can leave a submitted transaction
  without its queue entry, and after a failed write `cancel` can publish an
  entry no file backs (store.rs:324, 352): `QueueFrozen` is claimed for kills.
* A rebase does not see pattern instances, and a rebase onto an unchanged base
  is not the identity (merge.rs:77).
* A merge takes an operation once, where it comes first (merge.rs:43), so of a
  value set, overwritten and set again by one author it keeps the one in
  between. `NothingLost` leaves such lists out (`Repeats`).
* A failed validation leaves its transaction behind (service.rs:262; hld-ai.md
  says it is discarded), and a repair refused for its tokens is not counted
  (service.rs:500).
* A selection that is refused leaves its hash beside the document, evidence and
  state of the one before (assistant.rs:311, 337, against 319 and 338): a record
  sealed for the refused selection can then be attached, and a Pin installs the
  earlier document behind it, although the evidence is documented as "bound to
  the currently selected operation set" (assistant.rs:296).
  `InstallsEvidenced` excepts records of selections that do not apply; nobody
  would seal one for them, but nothing in the code forbids it.
* A review's install replaces the designer's own pins (editor session.rs:119);
  not modelled.

## 4. What is proved

TLAPS checks every leaf; the proofs hold for any world, any grains, any number
of workers, islands, jobs, anchors and requests, and any bounds that meet the
modules' ASSUMEs.

**StealDequeProofs.** The inductive invariant `IInv` has five parts. `TypeOK`;
`LocalsOK` (what `tt` and `bb` say of the deque at each `pc`); `EndsOK` (the
only values a buffered or stored `bottom` may have: the owner's end, or one
below while a pop is under way); `Covered` (every slot between the ends is
still to be claimed, every slot outside has a chunk or a claim in progress);
`Exclusive` (slots below `top` went to one thief or the owner's exchange, the
owner's side to the owner). It is needed because each property speaks of
chunks, but what keeps them true is where the ends are and what is still
buffered. `SpecNoIslandLost`, `SpecOneThiefAndOwnerOnce` follow for either
memory model; `SCClaimedOnce` adds `Apart` (the owner's slot is never below
`top` once its store is visible), which only holds without buffering.
`SpecImplementsPool` is the refinement: `ClaimTakes` turns a claim into a
`Take` the pool allows (by `Exclusive`), and a worker's end into a `Leave` (by
`Covered`).

**CommitKernelProofs** proves the types (`Types`, `SpecTypeOK`) from lemmas on
the ring, on taking a class off the batch and on an admission, and eight
invariants, each with its strengthening:

* `SpecOnePoseWriter`, `SpecRidersStayAtHost` by `PoseInv`: a pose written in
  this step has its cell taken, and both ends of a carried pair are rows with
  their cells taken. `WriteSet` says once what each admission writes and that
  it lies in its cells; a spawn writes a row that did not exist.
* `SpecNothingOutlivesEpoch` and `SpecNoDanglingRelation` are inductive with the
  types; the second assumes nothing of the snaps but their types, and says of a
  relation whose other end is gone which snap brought it.
* `SpecResidencyOnItsPrefix` by `PrefixInv`: stamps never run ahead of the
  prefix with which the step began, and the prefix is past it as soon as an
  outcome of the step pushed an event, from when on no stamp fits.
* `SpecRewoundToNewest` by `RingInv`: the ring is the newest part of what was
  published in this epoch, in strictly increasing ticks (`Newest`), which trim
  and push keep (`TrimNewestPart`, `PushNewest`) and from which a lookup finds
  the newest (`LookupNewest`).
* `SpecClassesDecidedOnce`: the batch is sorted, so grains of equal key are
  contiguous; what is decided are the grains of whole classes, class by class,
  with one verdict each.

**ProjectionProofs.** Each call on the packed world is shown to do to the map of
rows what the abstract world's does: `SpecImplementsRows`. The invariant is
`Packed`: columns are of one length, the table names exactly their rows, an
anchor or a keyed entry is of a row that is there. The calls that loop over rows
(evict, load, rebuild) are followed turn by turn and the end is reached by the
least turn at which a claim would fail. `SpecPagingKeeps` adds `Paged`, what the
captured rows are of. `SpecCandidatesExact` follows from
`IndexInv`, by which grids, hulls, bounds and homes are exactly what the rows
say (`Exact(space, Seen(proj, canon))`): taking a row out of the index and
putting it in keep that (`UnindexExact`, `IndexExact`), a rebuild makes it
(`RebuildExact`), and an exact grid answers with the rows that meet the box
(`GridAnswers`).

**ChannelProofs.** For the inference host `IInv` says, beside the types, that births lie below the
next id and not in the future and that a pending job's stamp is its birth
(`Book`), that what is pending or was never submitted has not been reported and
nothing is reported twice (`Told`), and that what was ingested was born and in
time (`Used`). `SpecReportedOnce` and `SpecNothingLateIngested`
follow, and `SpecImplementsDesk`: a poll is a round of the desk or its closing,
a kick a submission, everything on the pipes a stutter. A refused job stutters
because it is gone from the map in the same call.

For the pose stream `PoseInv` says of every pose on the wire, and of the
one the server would make next, that the dictionary and the baselines it is for
are those the client will have when it comes to it (`DictAt`, `BaseAt`: from the
last Interest and the last Full before it, or else from the client as it is).
What is appended leaves that alone (`DictStays`, `BaseStays`, `FlushFits`) and
taking the head hands it on to the client (`DictArrives`, `BaseArrives`):
`PoseSpecRowsDecode`. `PoseSpecNoRollback` holds on every transport.

**IntentProofs.** From the session, upwards the order of numbers and epochs is enough:
`UpOrder`, `SlotOrder` and `UsedOrder` say that what is on the wire, in the slot
and used lie one behind the other, from which `SpecEpochIntents` and
`SpecConsumedInOrder` follow. Downwards no field of a packet says which session
it belongs to, so the proof carries a witness that does, the epoch each packet
was sent in (its era): eras never decrease along the wire, and no delta of a
later era arrives before the snapshot that opens it (`EraOrder`, `ServerEra`,
`ClientEra`). So a client only folds deltas of its own session: `SpecInStep`.

From the mapper: the buffer is in the order of the presses, so its front is
the one that waits longest (`OldestFirst`), and the mapper's registers are what
the ghosts remember of support and action (`Remembered`): `SpecFiredLegally`
follows, and the action property `SpecOverdueIsFinal`.

**AuthorStoreProofs.** The invariants say of the memory image, and of what the
files would resume to, what the properties say of the memory: `SpecOneHolder`
(two transactions never hold a root), `SpecDurable` (what was answered Ok
survives every kill and failed write) and, without failed writes,
`SpecQueueFrozen` (the review queue proposes what its transactions hold).

**AuthoringProofs.** `AInv` adds to the types that a row with a transaction is a
candidate or cancelled and that evidence is only of such rows. `OwnersFollow`
says what a change of one row's state does to the owners; each outcome of a
drive is then an instance. `SpecOwnersAreActive` and `SpecEvidenceFresh` hold
whatever the editor does, since its steps leave the service's state alone.
`SpecInstallsEvidenced` follows a review from its copy to its install: its
document always applies, its evidence was sealed or rerun for that document or
is a record of a selection that does not apply, and a state of ReadyToPin has
evidence.

Of the merge, `SpecMergeSymmetric`: the matrix is symmetric (`EditsClash`,
`Conflicts`), and both orders sort and apply the same tagged operations.
`SpecNothingLost` and `SpecRebaseKeeps` rest on three things. What an operation
does is stated field by field (`Did`); only an `Opposed` one undoes it
(`Undoes`), and what was done and is gone comes back only when it is done again
(`DoneAgain`): so `Ran`, the invariant of one author's list, says what may stand
opposed in which order. The merge is followed from the first operation to the
last: `Arranged` lists the tagged operations in the canonical order, which is
total (`ArrangedIs`), the fold of apply_ops goes through the snapshots one by
one (`ApplyAllRuns`, `MergeRun`), and what is done stays unless something
opposed comes later (`HeldOn`). Last, what stands opposed to an operation of the
other side is refused by the matrix (`OpposedConflicts`), except for a rename of
an instance the other side made, which sorts before it (`RenameFirst`). For a
rebase the lists are the diffs: every change of the base is in its diff, pattern
instances aside (`ChangeSeen`), and no two of one diff stand opposed
(`NoneOpposed`), so neither their order nor the repeats matter.

**RiteBurstProofs.** A transaction is followed through its `SpecDelta`, from
one instruction up. `ExecMoves` says what an instruction may do to rows,
ghosts, budget and cells; a burst is a loop of them, whose end is reached by
the least turn at which the claim would fail (`LoopRuns`, `BurstMoves`);
whatever slots its code names; `ApplyHitFit` adds the hit and the collapse,
`DriveRiteFit` an intent with its fallback,
`AdmitWindowsFit` an island, whose bodies are a second loop and in which what
one body does spares the rows of the later ones (`Spares`). `IInv` has beside
the types five parts: `Placed` (a row is at an instruction of its rite),
`Resting` (it stands behind a WAIT), `Booked` (a bound action FIRE did not begin
has no hit while it runs, its contacts lie in its window, and a row that has met
one keeps its target), and `Dated` (a row that
began its WAIT in this step has its actor's lane taken, so that a contact that
is admitted is at least one tick old). `SpecNoHalfBurst` needs no more than the
cook. `SpecOneHitPerAction` and `SpecHitsAreWitnessed` assume `MeleeTracks`
and `TracksKept`, for the reasons of section 3; TLC evaluates both hypotheses
on the run's Canons and packs (`FixturesAssumption`).

The action property `SpecWaitTakesAStep` follows the same transactions again,
through the rows alone, under `WaitsAreReal` (evaluated with the others): a
burst leaves no row of a rite the VM drives on a victim (`Gone`), touches the
rows of its actor only (`Keeps`), and stalls in a WAIT none of which has passed
(`Timely`). Its invariant `Yields` says that whatever began its WAIT in this
step has its actor's lane taken, and that its island would leave it alone or
has been judged. So neither a second intent of any source nor the island can
move it; a vetoed or failed transaction changes nothing (`JudgeYields`).

`SpecCollapsedOnce` follows them a third time, through the health and the
PartOf pair of the destructibles. What the code of `apply_hit` does is a
parameter of the model, so the theorem says what it needs of it. An outline
names for every pc what may have become of the victim there: whole, dying
(spent, still part of its host) or gone (spent and torn from it). `HitsSettle`
asks that the outline begins with whole and gone, follows the code (a guard
on `spent` is answered by the fate, a skill check may go either way) and is
nowhere dying where the rite completes, and that of destructibles the rite sets
only its victim's health, to zero, and deletes only its pair with itself. The
argument is an abstract interpretation of the rite, sound for every `apply_hit`
that has an outline (`ExecLeads`, `BurstSettles`). `SeededWhole` and `OnlyHitsHarm` say that a
destructible starts healthy and part of itself only, that `collapse` exists
where `apply_hit` does, that the fallback starts some other rite, and
that in no rite but `apply_hit` a SPEND is made by a destructible or a slot of
SETQ, REL_ADD or REL_DEL reaches one (`Reach`: a target may be anybody, the actor
whoever runs the rite, a name itself): such a rite harms nobody (`Quiet`), and
`apply_hit` nobody but its victim (`Selfish`). The invariant is `Standing`: the
fate of a destructible (`Fate`, read off its health and its `Ties`) is whole and
it has not collapsed, or gone and it has collapsed once, unless its own
`apply_hit` or `collapse` ever ran out of steps (section 3): those are the loci
the theorem says nothing of, and section 3 tells what becomes of them. Then a hit on
what is gone finds no pair to delete and drives no collapse, and a hit that
takes the last health tears the pair and collapses in the same transaction
(`ApplyHitUpright`); whatever fails or is vetoed in between leaves nothing.
TLC evaluates the hypotheses, with the outline `HitOutline`, on the Canons of
the run, whose `apply_hit` is that of the fixture `ember.ron`.

Only model-checked: every liveness property (`WorkersFinish`, `JobsResolve`,
`DeathDisables`, `Converges`, `Rejoins`, `ActionsEnd`: fairness and ENABLED are
outside the prover), and the violation.

Proofs rest on the ASSUMEs only: loci are finitely many positive naturals,
Places and Bodies among them, snaps and the seed hold rows of the declared type
and a Place's snap the Place, caps and strides
are naturals, island 0 is an id (rows are born with it), grains are of the
declared kinds, island ids and slots are naturals (`IslandAssumption`,
`SlotsAssumption`); the bound on ticks lies
past the last job's SLO; scopes are sets of anchors; a lease lasts a natural
number of ticks (`StoreAssumption`); a contract's buffer and coyote are at most
8 ticks (`FeelAssumption`, as the IR checks); there are finitely many movers,
and more than two generations (`PoseAssumption`); a grid's cells have a width
and packed rows and names are what the snapshots hold (`CellAssumption`,
`RowsAssumption`); an operation names an object and a value that is there, and a
base has no facts about what was removed from it (`AnchorsAssumption`,
`EditsAssumption`); the loci of a rite world are in one Sigil order, none is the
absent target and a step takes a tick at least (`WorldAssumption`), the rites'
numbers differ (`RiteAssumption`), and a Canon is what the cook accepts
(`CookAssumption`).

## 5. Not modelled

* Pure, numeric or parsing code: geometry, animation, physics solver, planner,
  the Law and predicate evaluator, codecs, schemas, cookers, pattern expansion,
  dialogue lowering. Their verdicts are free choices where a module needs one.
* Presentation and operating system I/O: render, audio, ui, vfx, cinematic,
  debug, platform, the DCC worker.
* klotho-interest, klotho-stream and klotho-save: no state that changes between
  calls but a blob that is replaced; the frame loop does not emit residency
  proposals yet, so the pager there is nobody's behaviour. Residencies are free
  grains of `CommitKernel`.
* klotho-live and klotho-release: single-threaded fixtures and records.
* Of the modelled crates: the byte codec of snapshots, constraint rows, chunks
  shared between snapshots, wrapping of coordinates, the wire format and signatures, replay files, the listen host,
  the context builder, model router and bulk review of klotho-ai, several
  modules and Canon patches of klotho-author, hand edits, play, pause and
  dashboards of klotho-editor.

## 6. Plan

1. An abstract `AtomicWorld` (a world changed by whole proposals, one writer per
   locus and step) that `CommitKernel` implements under a refinement mapping.
2. `CommitKernel`'s residencies over `LocusRows`, whose rows hold every column.
3. The composition of `AuthorStore` with `AuthorAgents`: a kill in the middle
   of a drive.
4. Matchmaking and reconnect grants (klotho-live), cloud saves (klotho-release).
