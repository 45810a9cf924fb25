----------------------------- MODULE RiteBurst ------------------------------
(***************************************************************************)
(* klotho-commit, rite.rs and motion_contact.rs: the Rite VM.  A burst     *)
(* runs a rite from its pc to the next WAIT or to its end inside one       *)
(* speculative delta, which the kernel commits whole or drops whole.       *)
(* Players and Minds start and resume rites (drive_rite); the WAITs of a   *)
(* rite that a Canon contact track binds are moved by nobody but the       *)
(* actor's island (admit_motion_windows), and its hit needs a contact the  *)
(* kernel admitted inside the window.                                      *)
(*                                                                         *)
(* A pc is a position in the rite, as the cook orders them.  The absolute  *)
(* clock wait_at is an age, which grows with every step up to MaxAge.      *)
(* One resource stands for health and integrity and one relation, PartOf,  *)
(* for them all, so BIND Related reads it too; of several hosts CHOOSE     *)
(* takes one, where the code takes the one added first.  Ops that write    *)
(* columns no rite of the model reads (SPAWN, AWAKE, PHYS_REQ) take a step *)
(* and do no more.  Whether a sweep meets the target's hull, what a Law    *)
(* says and whether pred_ops last is left open: any transaction may be     *)
(* vetoed.                                                                 *)
(***************************************************************************)
EXTENDS Integers, Sequences, FiniteSets, Functions

CONSTANTS
    Actors,      \* loci that act, with a character physics binding
    Props,       \* the other loci: Relics
    SigilOrder,  \* all loci as a sequence, in Sigil order
    Canons,      \* Canons[c]: [code, cap, track] of Canon c
    Packs,       \* the <<from, to>> Canon epoch packs
    Partitions,  \* island of every body, one function per world
    Hittable, Destructible,  \* affordances
    PartOf,      \* seeded PartOf pairs
    RiteOrder,   \* the id of a rite, its place in the Canon's list
    Health,      \* seeded quantity
    RiteSteps,   \* budget.rite_steps values of a step
    Ticks,       \* dt values of a step
    Orders,      \* what an intent may say: [verb, target, claimed]
    Claimable,   \* motion-contact claims a proposer may make
    MaxAge,      \* bound: a clock stops here, past every WAIT
    MaxEpoch     \* bound on epochs

Loci == Actors \cup Props
None == "none"
Targets == Loci \cup {None}
Sources == {"player", "mind"}
Verbs == {"use", "fire", "steer"}
Channels == {"timing", "aim", "spend", "dialogue"}

(* The rites the VM knows by name, numbered alike in every Canon.          *)
RiteNames == {"melee", "fire", "apply_hit", "collapse"}
ASSUME RiteAssumption == RiteOrder \in [RiteNames -> Nat] /\ IsInjective(RiteOrder)

(* A slot names a locus, or none: OTHER, and a name no pin is bound to.    *)
Slots == {"this", "target"} \cup Targets

(* The instructions, pcs being naturals.                                   *)
Predicates == [pred : {"skill"}, ch : Channels] \cup [pred : {"spent", "destructible"}]
Instructions ==
    [op : {"complete", "emit", "spawn"}]
      \cup [op : {"guard"}, pred : Predicates, fail : Nat]
      \cup [op : {"branch"}, pred : Predicates, yes : Nat, no : Nat]
      \cup [op : {"spend"}, amount : Int, fail : Nat]
      \cup [op : {"setq"}, slot : Slots, to : Int]
      \cup [op : {"reladd", "reldel"}, x : Slots, y : Slots]
      \cup [op : {"bind"}, src : {"this", "target", "related"}]
      \cup [op : {"wait"}, ticks : Nat, ch : Channels \cup {None}]

(* A MotionContact: on what, at which sample boundary, and whether its     *)
(* rite_instance is the running one.                                       *)
Claim == [target : Loci, boundary : 0 .. MaxAge, live : BOOLEAN]
ASSUME InputAssumption ==
    /\ Claimable \subseteq Claim
    /\ Orders \subseteq [verb : Verbs, target : Targets, claimed : SUBSET Channels]

(* Loci are Sigils, so none is the absent target or a word for a slot; a   *)
(* Canon knows where every body of a world is; a step takes a tick at      *)
(* least (dt.0.max(1)).                                                    *)
ASSUME WorldAssumption ==
    /\ Loci \cap {None, "this", "target"} = {}
    /\ SigilOrder \in Seq(Loci) /\ Range(SigilOrder) = Loci /\ IsInjective(SigilOrder)
    /\ PartOf \subseteq Loci \X Loci /\ Health \in [Loci -> Int]
    /\ \A f \in Partitions : DOMAIN f = Loci
    /\ RiteSteps \subseteq Nat /\ Ticks \subseteq Nat \ {0}
    /\ MaxAge \in Nat \ {0} /\ MaxEpoch \in Nat

(* cfg.rs: targets exist, nothing falls off the end, the graph is a DAG;   *)
(* a track names a WAIT of its rite, by its ticks and channel.             *)
Jumps(i) ==
    CASE i.op \in {"guard", "spend"} -> {i.fail}
      [] i.op = "branch" -> {i.yes, i.no} [] OTHER -> {}
ASSUME CookAssumption ==
    \A c \in DOMAIN Canons : LET canon == Canons[c] IN
      /\ canon.cap \in Nat /\ DOMAIN canon.code \subseteq RiteNames
      /\ \A r \in DOMAIN canon.code : LET code == canon.code[r] IN
           /\ code \in Seq(Instructions) /\ code # <<>>
           /\ code[Len(code)].op = "complete"
           /\ \A pc \in DOMAIN code : Jumps(code[pc]) \subseteq pc + 1 .. Len(code)
      /\ \A a \in DOMAIN canon.track : LET t == canon.track[a] IN
           /\ a \in Actors /\ t.ticks > 0 /\ t.ch \in Channels
           /\ t.rite \in DOMAIN canon.code /\ t.wait \in DOMAIN canon.code[t.rite]
           /\ canon.code[t.rite][t.wait] =
                [op |-> "wait", ticks |-> t.ticks, ch |-> t.ch]

VARIABLES
    canon, epoch,
    island,   \* the partition
    rite,     \* RiteMachine rows by <<actor, rite>>
    qty,      \* the resource
    parts,    \* PartOf pairs
    left,     \* rite_steps of this step not yet used
    written,  \* cells <<locus, lane>> taken in this step
    stage,    \* how far the step is in admit_key order
    done,     \* islands judged in this step
    deeds     \* ghost: what the trace says of every action, see Deeds

world == <<rite, qty, parts, deeds>>
vars == <<canon, epoch, island, world, left, written, stage, done>>

Code(r) == Canons[canon].code[r]
Rites == DOMAIN Canons[canon].code
Track == Canons[canon].track
Tracked == DOMAIN Track

(* The rites a contact track binds.                                        *)
Bound(a, r) == a \in Tracked /\ Track[a].rite = r

(* What the trace says: hits and admitted contacts of the actor's present  *)
(* action, whether a track bound it when it began and no FIRE began it,    *)
(* what its last contact was on and its last hit aimed at, collapses of a  *)
(* locus (2: or more), loci whose own rite ran out of steps.               *)
Deeds == [hits : [Actors -> Nat], met : [Actors -> SUBSET (0 .. MaxAge)],
          bound : [Actors -> BOOLEAN],
          touched : [Actors -> Targets], struck : [Actors -> Targets],
          falls : [Loci -> 0 .. 2], cut : SUBSET Loci]

Init ==
    /\ canon \in DOMAIN Canons /\ epoch = 0 /\ island \in Partitions
    /\ rite = <<>> /\ qty = Health /\ parts = PartOf
    /\ left = 0 /\ written = {} /\ stage = 3 /\ done = {}
    /\ deeds = [hits |-> [a \in Actors |-> 0], met |-> [a \in Actors |-> {}],
                bound |-> [a \in Actors |-> FALSE],
                touched |-> [a \in Actors |-> None],
                struck |-> [a \in Actors |-> None],
                falls |-> [l \in Loci |-> 0], cut |-> {}]

-----------------------------------------------------------------------------
(* SpecDelta: the overlay a transaction works on, its written loci, how    *)
(* many Emitted events it holds, and whether it failed; and the registers  *)
(* of its present burst (run, pc, target).                                 *)
BeginSpec ==
    [rite |-> rite, qty |-> qty, parts |-> parts, deeds |-> deeds, left |-> left,
     writes |-> {}, emits |-> 0, err |-> FALSE,
     run |-> FALSE, pc |-> 1, target |-> None]

(* Op(x), with x evaluated once.                                           *)
Once(x, Op(_)) == CHOOSE y \in {Op(v) : v \in {x}} : TRUE

Fail(s) == [s EXCEPT !.err = TRUE]
Wrote(s, l) == [s EXCEPT !.writes = @ \cup {l}]
Drop(f, k) == Restrict(f, DOMAIN f \ {k})
Put(s, k, m) ==
    [s EXCEPT !.rite = [j \in DOMAIN @ \cup {k} |-> IF j = k THEN m ELSE @[j]]]
Has(s, a, r) == <<a, r>> \in DOMAIN s.rite

(* The row of a machine, and WorldView::rite, which finds the channel of a *)
(* waiting row again in the code: where the view has one, which that of a  *)
(* SpecDelta has not.                                                      *)
Fresh(target) ==
    [agency |-> None, hit |-> FALSE, age |-> 0, pc |-> 1, left |-> 0,
     target |-> target, ch |-> None]
Machine(s, a, r) ==
    LET m == s.rite[<<a, r>>] IN
    IF m.ch = None /\ m.left > 0 /\ m.pc > 1 /\ Code(r)[m.pc - 1].op = "wait"
    THEN [m EXCEPT !.ch = Code(r)[m.pc - 1].ch] ELSE m

(* Projection::apply_event.                                                *)
Began(s, a, r, target) == Wrote(Put(s, <<a, r>>, Fresh(target)), a)

Ended(s, a, r) == Wrote([s EXCEPT !.rite = Drop(@, <<a, r>>)], a)

Advanced(s, a, r, pc, wait) ==
    LET m == s.rite[<<a, r>>]
        restart == m.pc # pc \/ m.left = 0 \/ wait > m.left
    IN Wrote(Put(s, <<a, r>>, [m EXCEPT !.age = IF restart THEN 0 ELSE @,
                                        !.pc = pc, !.left = wait]), a)

Admitted(s, a, r, target) ==
    LET m == s.rite[<<a, r>>] IN
    [Wrote(Put(s, <<a, r>>, [m EXCEPT !.hit = @ \/ m.target = target]), a)
       EXCEPT !.deeds.met[a] = @ \cup {m.age}, !.deeds.touched[a] = target]

-----------------------------------------------------------------------------
(* eval_guard.  in_window asks whether ANY locus waits in the rite: not    *)
(* whose WAIT it is, nor how far it has run.                               *)
Holds(s, e, p) ==
    CASE p.pred = "skill" ->
           /\ e.source = "player" /\ p.ch \in e.claimed
           /\ \E k \in DOMAIN s.rite : k[2] = e.r /\ s.rite[k].left > 0
      [] p.pred = "spent" -> s.qty[e.a] <= 0
      [] p.pred = "destructible" -> e.a \in Destructible

(* A put_rite of the running machine: an admitted contact pins its target. *)
Rebound(b, e, pc, wait, ch) ==
    LET old == IF Has(b, e.a, e.r) THEN b.rite[<<e.a, e.r>>] ELSE Fresh(None)
        new == [old EXCEPT !.age = 0, !.pc = pc, !.left = wait,
                           !.target = b.target, !.ch = ch]
    IN IF old.hit /\ old.target # b.target THEN Fail(b)
       ELSE Wrote(Put(b, <<e.a, e.r>>, new), e.a)

(* WAIT: a contact-bound rite waits only for a Player who claimed its      *)
(* channel, and the first WAIT authorizes the action.                      *)
Authorized(b, e) ==
    LET k == <<e.a, e.r>> IN
    IF ~Bound(e.a, e.r) THEN b
    ELSE IF \/ e.source # "player" \/ Track[e.a].ch \notin e.claimed
            \/ ~Has(b, e.a, e.r) THEN Fail(b)
    ELSE IF b.rite[k].agency # None THEN b
    ELSE Wrote(Put(b, k, [b.rite[k] EXCEPT !.agency = Track[e.a].ch]), e.a)

Stall(b, e, i) ==
    IF b.err THEN b
    ELSE [Rebound(IF Has(b, e.a, e.r)
                  THEN Advanced(b, e.a, e.r, b.pc + 1, i.ticks) ELSE b,
                  e, b.pc + 1, i.ticks, i.ch) EXCEPT !.run = FALSE]
Wait(b, e, i) == Stall(Authorized(b, e), e, i)

(* resolve_slot, and the host a locus is part of.                          *)
Resolve(b, e, slot) ==
    CASE slot = "this" -> e.a [] slot = "target" -> b.target [] OTHER -> slot
Related(s, l) ==
    IF \E p \in Loci : <<l, p>> \in s.parts
    THEN CHOOSE p \in Loci : <<l, p>> \in s.parts ELSE None

(* QtyChanged, RelAdd and RelDel; a slot that names nothing is an error.   *)
SetQty(b, l, to) ==
    IF l = None THEN Fail(b) ELSE Wrote([b EXCEPT !.qty[l] = to], l)
SetParts(b, x, y, parts1) ==
    IF None \in {x, y} THEN Fail(b)
    ELSE Wrote(Wrote([b EXCEPT !.parts = parts1], x), y)

(* One instruction of run_burst.                                           *)
Exec(b, e) ==
    LET i == Code(e.r)[b.pc]
        next(c) == [c EXCEPT !.pc = @ + 1]
        goto(pc) == [b EXCEPT !.pc = pc]
    IN CASE i.op = "complete" -> [Ended(b, e.a, e.r) EXCEPT !.run = FALSE]
         [] i.op = "guard" -> IF Holds(b, e, i.pred) THEN next(b) ELSE goto(i.fail)
         [] i.op = "branch" -> goto(IF Holds(b, e, i.pred) THEN i.yes ELSE i.no)
         [] i.op = "spend" ->
              IF b.qty[e.a] < i.amount THEN goto(i.fail)
              ELSE next(Wrote([b EXCEPT !.qty[e.a] = @ - i.amount], e.a))
         [] i.op = "wait" -> Wait(b, e, i)
         [] i.op = "emit" -> next([b EXCEPT !.emits = @ + 1])
         [] i.op = "bind" ->
              LET t == CASE i.src = "this" -> e.a
                         [] i.src = "target" -> b.target
                         [] i.src = "related" -> Related(b, e.a)
              IN next(Rebound([b EXCEPT !.target = t], e, b.pc + 1, 0, None))
         [] i.op = "setq" -> next(SetQty(b, Resolve(b, e, i.slot), i.to))
         [] i.op \in {"reladd", "reldel"} ->
              LET x == Resolve(b, e, i.x)
                  y == Resolve(b, e, i.y)
                  pair == {<<x, y>>}
              IN next(SetParts(b, x, y, IF i.op = "reladd" THEN b.parts \cup pair
                                        ELSE b.parts \ pair))
         [] i.op = "spawn" -> next(b)

(* run_burst: rite-step exhaustion ends the rite and keeps what it did.    *)
\* mutant: running out of steps stops the burst and leaves the machine
HaltSilent(b, e) == [b EXCEPT !.run = FALSE]

OutOfSteps(b, e) ==
    [Ended(b, e.a, e.r) EXCEPT !.run = FALSE, !.deeds.cut = @ \cup {e.a}]

Turn(b, e, n, last) ==
    IF ~b.run \/ b.err THEN b
    ELSE IF n > last THEN OutOfSteps(b, e)
    ELSE Exec([b EXCEPT !.left = @ - 1], e)

Burst(s, e, pc, target) ==
    LET cap == Canons[canon].cap
        last == IF cap < s.left THEN cap ELSE s.left
        run[n \in 0 .. last + 1] ==
            IF n = 0 THEN [s EXCEPT !.run = TRUE, !.pc = pc, !.target = target]
            ELSE Once(run[n - 1], LAMBDA b : Turn(b, e, n, last))
    IN run[last + 1]

-----------------------------------------------------------------------------
(* hittable, part_of_parent, may_collapse.                                 *)
HittableAt(s, t) ==
    t \in Hittable \/ \E p \in Hittable : <<t, p>> \in s.parts
Parent(s, t) ==
    IF \E p \in Loci \ {t} : <<t, p>> \in s.parts
    THEN CHOOSE p \in Loci \ {t} : <<t, p>> \in s.parts ELSE t

\* mutant: a destroyed victim may collapse again
CollapseAny(s, v) == v \in Destructible

MayCollapse(s, v) == v \in Destructible /\ \E p \in Loci : <<v, p>> \in s.parts

(* A rite the VM itself starts on the victim.                              *)
Driven(s, e, v, r) ==
    Burst(Began(s, v, r, v), [e EXCEPT !.a = v, !.r = r], 1, v)

(* drive_collapse.                                                         *)
Collapse(s, e, v) ==
    IF v \notin Destructible \/ s.qty[v] > 0 \/ "collapse" \notin Rites THEN s
    ELSE Driven([s EXCEPT !.deeds.falls[v] = IF @ < 2 THEN @ + 1 ELSE 2], e, v, "collapse")

(* drive_apply_hit: only a burst that emitted hits, and the part's host    *)
(* takes it.  apply_hit tears PartOf down, so it is sampled before.        *)
Struck(s, e, target, v) ==
    LET t == [s EXCEPT !.deeds.hits[e.a] = @ + 1, !.deeds.struck[e.a] = target]
    IN IF "apply_hit" \in Rites THEN Driven(t, e, v, "apply_hit") ELSE t
AndFalls(s, e, v, falls) == IF falls /\ ~s.err THEN Collapse(s, e, v) ELSE s
HitOn(s, e, target, v) ==
    AndFalls(Struck(s, e, target, v), e, v, MayCollapse(s, v))
ApplyHit(s, e, target) ==
    IF s.err \/ target = None \/ s.emits = 0 THEN s
    ELSE HitOn(s, e, target, Parent(s, target))

(* pick_start_rite, pick_use_rite: where no rite of the model answers the  *)
(* verb, the first of the Canon does, but for STEER.                       *)
Fallback == {r \in Rites : \A q \in Rites : RiteOrder[r] <= RiteOrder[q]}
StartRite(s, verb, target) ==
    CASE verb = "steer" -> {}
      [] /\ verb = "use" /\ "melee" \in Rites
         /\ target # None /\ HittableAt(s, target) -> {"melee"}
      [] verb = "fire" /\ "fire" \in Rites -> {"fire"}
      [] OTHER -> Fallback

(* drive_rite: resume the actor's rite or start one.                       *)
FirstRite(s, a) ==
    CHOOSE r \in Rites : /\ Has(s, a, r)
                        /\ \A q \in Rites : Has(s, a, q) => RiteOrder[r] <= RiteOrder[q]

MeleeHit(b, e, target, may) == IF may THEN ApplyHit(b, e, target) ELSE b

Resume(s, e, m, target) ==
    IF Bound(e.a, e.r) \/ (m.ch # None /\ e.source # "player") THEN Fail(s)
    ELSE MeleeHit(Burst(s, e, m.pc, target), e, target, e.r = "melee")

(* (The ghost opens an account.)                                           *)
Opened(s, e, verb) ==
    [s EXCEPT !.deeds.hits[e.a] = 0, !.deeds.met[e.a] = {},
              !.deeds.bound[e.a] = Bound(e.a, e.r) /\ verb # "fire",
              !.deeds.touched[e.a] = None, !.deeds.struck[e.a] = None]

Start(s, e, verb, target) ==
    MeleeHit(Burst(Opened(Began(s, e.a, e.r, target), e, verb), e, 1, target),
             e, target, verb = "fire" \/ (e.r = "melee" /\ e.a \notin Tracked))

DriveRite(s, e, verb, target) ==
    IF \E r \in Rites : Has(s, e.a, r)
    THEN LET r == FirstRite(s, e.a)
             m == s.rite[<<e.a, r>>]
         IN Resume(s, [e EXCEPT !.r = r], m, IF m.target = None THEN target ELSE m.target)
    ELSE IF StartRite(s, verb, target) = {} THEN s
    ELSE Start(s, [e EXCEPT !.r = CHOOSE r \in StartRite(s, verb, target) : TRUE],
               verb, target)

-----------------------------------------------------------------------------
(* admit_one of an intent: the actor's action lane, one transaction.  A    *)
(* rejection drops everything but the steps it used.                       *)
\* mutant: an intent does not take the actor's lane
LanelessCells(a) == {}

WriteCells(a) == {<<a, 1>>}

Judge(s, cells, veto) ==
    /\ left' = s.left
    /\ IF s.err \/ veto
       THEN UNCHANGED <<world, written>>
       ELSE /\ rite' = s.rite /\ qty' = s.qty /\ parts' = s.parts
            /\ deeds' = s.deeds
            /\ written' = written \cup cells

Intent(source, a, verb, target, claimed, veto) ==
    /\ stage <= (IF source = "player" THEN 0 ELSE 2)
    /\ stage' = IF source = "player" THEN 0 ELSE 2
    /\ WriteCells(a) \cap written = {}
    /\ Judge(DriveRite(BeginSpec,
                       [a |-> a, r |-> None, source |-> source, claimed |-> claimed],
                       verb, target), WriteCells(a), veto)
    /\ UNCHANGED <<canon, epoch, island, done>>

-----------------------------------------------------------------------------
(* WorldView::contact_window and contact_boundary.                         *)
ContactWindow(s, a) ==
    /\ a \in Tracked /\ Has(s, a, Track[a].rite)
    /\ LET t == Track[a]
           m == Machine(s, a, t.rite)
       IN /\ m.agency = t.ch /\ ~m.hit /\ m.pc = t.wait + 1
          /\ m.left \in 1 .. t.ticks /\ m.age <= t.ticks /\ m.ch = t.ch

Boundary(m) == IF m.age = 0 THEN 0 ELSE m.age - 1

(* motion_contact::validate, all but the geometry.                         *)
ValidClaim(s, a, claim) ==
    /\ ContactWindow(s, a)
    /\ LET m == Machine(s, a, Track[a].rite) IN
       /\ claim.live /\ claim.target = m.target /\ claim.target # a
       /\ claim.boundary = Boundary(m)

\* mutant: the hit leaves the action running
StillActing(s, a, r) == s

Finished(s, a, r) == IF ~s.err /\ Has(s, a, r) THEN Ended(s, a, r) ELSE s

(* A burst of the island, on behalf of the player who started the action,  *)
(* and its hit, which ends the action.                                     *)
HitIf(b, e, target, may) ==
    IF may /\ ~b.err THEN Finished(ApplyHit(b, e, target), e.a, e.r) ELSE b
IslandBurst(s, e, target, mayHit) ==
    Once(Burst(s, e, s.rite[<<e.a, e.r>>].pc, target),
         LAMBDA b : HitIf(b, e, target, mayHit /\ b.emits > s.emits))
OnBehalf(a) ==
    [a |-> a, r |-> Track[a].rite, source |-> "player", claimed |-> {Track[a].ch}]

\* mutant: a WAIT outside the window hits with no admitted contact
ClockUnproved(s, a, m) ==
    LET r == Track[a].rite
        i == Code(r)[m.pc - 1]
    IN IF m.pc = 1 \/ i.op # "wait" THEN Fail(s)
       ELSE IF m.age < i.ticks THEN Advanced(s, a, r, m.pc, i.ticks - m.age)
       ELSE IslandBurst(s, OnBehalf(a), m.target, TRUE)

(* A WAIT before or after the window runs by its absolute clock; what      *)
(* follows it hits only on the strength of an admitted contact.            *)
Clock(s, a, m) ==
    LET r == Track[a].rite
        i == Code(r)[m.pc - 1]
    IN IF m.pc = 1 \/ i.op # "wait" THEN Fail(s)
       ELSE IF m.age < i.ticks THEN Advanced(s, a, r, m.pc, i.ticks - m.age)
       ELSE IslandBurst(s, OnBehalf(a), m.target, m.hit)

(* The window's own WAIT: a claim, or one more tick, or a miss.            *)
InsideWindow(s, a, m, claims) ==
    LET t == Track[a] IN
    IF a \in DOMAIN claims
    THEN IF ~HittableAt(s, claims[a].target) THEN Fail(s)
         ELSE IslandBurst(Admitted(s, a, t.rite, claims[a].target),
                          OnBehalf(a), claims[a].target, TRUE)
    ELSE IF m.age < t.ticks THEN Advanced(s, a, t.rite, m.pc, t.ticks - m.age)
    ELSE Ended(s, a, t.rite)

\* mutant: a missed action stays in its window
AdmitLenient(s, a, claims) ==
    LET t == Track[a]
        m == s.rite[<<a, t.rite>>]
    IN IF s.err \/ a \notin Tracked \/ ~Has(s, a, Track[a].rite) THEN s
       ELSE IF m.agency # t.ch THEN Fail(s)
       ELSE IF m.pc = t.wait + 1 /\ m.age > t.ticks THEN s
       ELSE IF m.pc # t.wait + 1 THEN Clock(s, a, m)
       ELSE InsideWindow(s, a, m, claims)

(* admit_motion_windows for one body.                                      *)
AdmitWindow(s, a, claims) ==
    LET t == Track[a]
        m == s.rite[<<a, t.rite>>]
    IN IF s.err \/ a \notin Tracked \/ ~Has(s, a, Track[a].rite) THEN s
       ELSE IF m.agency # t.ch THEN Fail(s)
       ELSE IF m.pc = t.wait + 1 /\ m.age > t.ticks THEN Ended(s, a, t.rite)
       ELSE IF m.pc # t.wait + 1 THEN Clock(s, a, m)
       ELSE InsideWindow(s, a, m, claims)

(* admit_phys_island: claims first, then the bodies in order; the cells it *)
(* takes are those of every locus it wrote.                                *)
Bodies(i) == {l \in Loci : island[l] = i}

AdmitBody(i, s, l, claims) == IF l \in Bodies(i) THEN AdmitWindow(s, l, claims) ELSE s

AdmitWindows(i, claims) ==
    LET run[n \in 0 .. Len(SigilOrder)] ==
            IF n = 0 THEN [BeginSpec EXCEPT !.writes = Bodies(i)]
            ELSE Once(run[n - 1], LAMBDA s : AdmitBody(i, s, SigilOrder[n], claims))
    IN run[Len(SigilOrder)]

Claims(i) == UNION {[who -> Claimable] : who \in SUBSET (Bodies(i) \cap Tracked)}

IslandCells(i, s) ==
    (s.writes \X {0})
      \cup {<<l, 1>> : l \in {b \in s.writes : Bodies(i) \cap Tracked # {}}}

JudgeIsland(i, s, veto) ==
    Judge([s EXCEPT !.err = @ \/ IslandCells(i, s) \cap written # {}],
          IslandCells(i, s), veto)

AdmitIsland(i, claims, veto) ==
    LET taken == written \cap
            ((Bodies(i) \X {0}) \cup {<<a, 1>> : a \in {b \in Bodies(i) :
                                                     ContactWindow(BeginSpec, b)}})
        valid == \A a \in DOMAIN claims : ValidClaim(BeginSpec, a, claims[a])
    IN /\ stage <= 1 /\ stage' = 1 /\ i \notin done /\ done' = done \cup {i}
       /\ IF taken # {} \/ ~valid
          THEN UNCHANGED <<world, left, written>>
          ELSE JudgeIsland(i, AdmitWindows(i, claims), veto)
       /\ UNCHANGED <<canon, epoch, island>>

-----------------------------------------------------------------------------
(* A step: the clock of every row runs on.  (The ghost forgets the deeds   *)
(* of actions that have ended.)                                            *)
Idle(a) == \A k \in DOMAIN rite : k[1] # a
Forget(f, none) == [a \in Actors |-> IF Idle(a) THEN none ELSE f[a]]

Older(age, dt) == IF age + dt > MaxAge THEN MaxAge ELSE age + dt

Step(dt, steps) ==
    /\ stage' = 0 /\ done' = {} /\ written' = {} /\ left' = steps
    /\ rite' = [k \in DOMAIN rite |-> [rite[k] EXCEPT !.age = Older(@, dt)]]
    /\ deeds' = [deeds EXCEPT !.hits = Forget(@, 0), !.met = Forget(@, {}),
                              !.bound = Forget(@, FALSE), !.touched = Forget(@, None),
                              !.struck = Forget(@, None)]
    /\ UNCHANGED <<canon, epoch, island, qty, parts>>

(* apply_canon_epoch and remap_epoch, between two steps: a row goes on     *)
(* when its rite and its pc are in the new Canon.                          *)
ApplyEpoch(c) ==
    /\ epoch < MaxEpoch /\ <<canon, c>> \in Packs
    /\ canon' = c /\ epoch' = epoch + 1 /\ stage' = 3
    /\ rite' = Restrict(rite, {k \in DOMAIN rite :
                 /\ k[2] \in DOMAIN Canons[c].code
                 /\ rite[k].pc \in DOMAIN Canons[c].code[k[2]]})
    /\ UNCHANGED <<island, qty, parts, deeds, left, written, done>>

PlayerIntent(veto) ==
    \E a \in Actors, o \in Orders :
        Intent("player", a, o.verb, o.target, o.claimed, veto)
MindIntent(veto) ==
    \E a \in Actors, o \in Orders : Intent("mind", a, o.verb, o.target, {}, veto)
IslandProposal(i, veto) == \E claims \in Claims(i) : AdmitIsland(i, claims, veto)

Islands == {island[l] : l \in Loci}

Next ==
    \/ \E veto \in BOOLEAN : PlayerIntent(veto) \/ MindIntent(veto)
    \/ \E i \in Islands, veto \in BOOLEAN : IslandProposal(i, veto)
    \/ \E dt \in Ticks, steps \in RiteSteps : Step(dt, steps)
    \/ \E c \in DOMAIN Canons : ApplyEpoch(c)

Spec == Init /\ [][Next]_vars

-----------------------------------------------------------------------------
(* Properties.                                                             *)

TypeOK ==
    /\ DOMAIN rite \subseteq Loci \X Rites
    /\ \A k \in DOMAIN rite :
         /\ rite[k].pc \in DOMAIN Code(k[2]) /\ rite[k].age \in 0 .. MaxAge
         /\ rite[k].target \in Targets
    /\ qty \in [Loci -> Int] /\ parts \subseteq Loci \X Loci /\ left \in Nat
    /\ deeds \in Deeds /\ written \subseteq Loci \X {0, 1} /\ stage \in 0 .. 3

(* Nobody sees half a burst: whatever ended it (a WAIT, the end of the     *)
(* rite, the step budget), a row in the world stands behind a WAIT and has *)
(* no more to wait than that WAIT says, and something if it says anything, *)
(* until a pack changes the code under it (run_burst, K21).                *)
Stands(m, i) == i.op = "wait" /\ m.left <= i.ticks /\ (i.ticks > 0 => m.left > 0)
NoHalfBurst ==
    epoch = 0 => \A k \in DOMAIN rite :
        rite[k].pc > 1 /\ Stands(rite[k], Code(k[2])[rite[k].pc - 1])

(* What the accounts of a bound action take of Canons and packs.  A track  *)
(* on another rite than melee is not kept to its window; an action whose   *)
(* track a pack drops is anybody's, and is none the less still running     *)
(* when a later pack restores the track.                                   *)
MeleeTracks ==
    \A c \in DOMAIN Canons :
        \A a \in DOMAIN Canons[c].track : Canons[c].track[a].rite = "melee"
TracksKept ==
    /\ \A p \in Packs : LET old == Canons[p[1]].track
                            new == Canons[p[2]].track IN
         \A a \in DOMAIN old \cap DOMAIN new : old[a].ticks = new[a].ticks
    /\ MaxEpoch <= 1 \/ \A p \in Packs :
         DOMAIN Canons[p[1]].track \subseteq DOMAIN Canons[p[2]].track

(* What WaitTakesAStep takes of the Canons: a WAIT says a tick at least,    *)
(* and the rites the VM drives on a victim have none.                      *)
WaitsAreReal ==
    \A c \in DOMAIN Canons : \A r \in DOMAIN Canons[c].code :
        \A pc \in DOMAIN Canons[c].code[r] : LET i == Canons[c].code[r][pc] IN
            i.op = "wait" => i.ticks > 0 /\ r \notin {"apply_hit", "collapse"}

(* What CollapsedOnce takes of Canons and worlds.  A destructible is seeded *)
(* whole, tied to itself and to nothing else; where there is a hit there is *)
(* a collapse; and nothing else harms it: no other rite spends its health,  *)
(* sets it or moves its ties, and none but a hit starts apply_hit.          *)
SeededWhole ==
    /\ Destructible \subseteq Loci
    /\ \A v \in Destructible :
         Health[v] > 0 /\ \A p \in Loci : <<v, p>> \in PartOf <=> p = v

(* Who may run a rite, and whom a slot of it may name.                     *)
Runners(r) == IF r = "collapse" THEN Loci ELSE Actors
Reach(slot, r) ==
    CASE slot = "this" -> Runners(r) [] slot = "target" -> Loci [] OTHER -> {slot}
Harmless(i, r) ==
    /\ i.op = "spend" => Runners(r) \cap Destructible = {}
    /\ i.op = "setq" => Reach(i.slot, r) \cap Destructible = {}
    /\ i.op \in {"reladd", "reldel"} => Reach(i.x, r) \cap Destructible = {}
OnlyHitsHarm ==
    \A c \in DOMAIN Canons : LET code == Canons[c].code IN
      /\ "apply_hit" \in DOMAIN code =>
           /\ "collapse" \in DOMAIN code
           /\ \E r \in DOMAIN code : RiteOrder[r] < RiteOrder["apply_hit"]
      /\ \A r \in DOMAIN code \ {"apply_hit"} :
           \A pc \in DOMAIN code[r] : Harmless(code[r][pc], r)

(* apply_hit leaves its victim whole, or spent and torn from its host: an  *)
(* outline says of every pc what may have become of the victim there.      *)
Fates == {"whole", "dying", "gone"}
Answers(p, fate) ==
    CASE p.pred = "skill" -> BOOLEAN
      [] p.pred = "spent" -> {fate # "whole"}
      [] p.pred = "destructible" -> {TRUE}
Leads(i, pc, fate) ==
    CASE i.op = "guard" ->
           {<<IF yes THEN pc + 1 ELSE i.fail, fate>> : yes \in Answers(i.pred, fate)}
      [] i.op = "branch" ->
           {<<IF yes THEN i.yes ELSE i.no, fate>> : yes \in Answers(i.pred, fate)}
      [] i.op = "spend" ->
           {<<i.fail, fate>>, <<pc + 1, fate>>,
            <<pc + 1, IF fate = "whole" THEN "dying" ELSE fate>>}
      [] i.op = "setq" /\ i.slot = "this" ->
           {<<pc + 1, IF fate = "whole" THEN "dying" ELSE fate>>}
      [] i.op = "reldel" /\ i.x = "this" ->
           {<<pc + 1, IF fate = "whole" THEN "torn" ELSE "gone">>}
      [] OTHER -> {<<pc + 1, fate>>}
Outlines(outline, code) ==
    /\ {"whole", "gone"} \subseteq outline[1]
    /\ \A pc \in DOMAIN code : LET i == code[pc] IN
         /\ outline[pc] \subseteq Fates
         /\ i.op = "spend" => i.amount >= 0
         /\ i.op = "setq" =>
              (i.slot = "this" /\ i.to = 0) \/ i.slot \in Targets \ Destructible
         /\ i.op \in {"reladd", "reldel"} =>
              \/ i.op = "reldel" /\ i.x = "this" /\ i.y = "this"
              \/ i.x \in Targets \ Destructible
         /\ i.op = "complete" => "dying" \notin outline[pc]
         /\ i.op # "complete" => \A fate \in outline[pc] :
              \A next \in Leads(i, pc, fate) : next[2] \in outline[next[1]]
HitsSettle(outline) ==
    \A c \in DOMAIN Canons : "apply_hit" \in DOMAIN Canons[c].code =>
        Outlines(outline[c], Canons[c].code["apply_hit"])

(* An action a contact track binds hits at most once, whatever its code    *)
(* emits after the hit and whatever is claimed again (the hit ledger).     *)
(* FIRE hits as it starts, with no contact, and leaves the window its own: *)
(* of what it begins nothing is said.                                      *)
OneHitPerAction ==
    \A a \in Tracked : deeds.bound[a] => deeds.hits[a] <= 1

(* It hits only on an admitted contact, inside the window it was admitted  *)
(* in (neither in the step that began the WAIT nor after it ran out), and  *)
(* what it strikes, then or in a later recovery, is what that contact was  *)
(* on, whatever the rite has bound since (K64).                            *)
HitsAreWitnessed ==
    \A a \in Tracked : deeds.bound[a] =>
        /\ \A age \in deeds.met[a] : age \in 1 .. Track[a].ticks
        /\ deeds.hits[a] > 0 =>
             deeds.met[a] # {} /\ deeds.struck[a] = deeds.touched[a]

(* A destroyed locus collapses once, with the hit that destroys it, however *)
(* many strike it later.  Left out are those whose own apply_hit or        *)
(* collapse ever ran out of steps: a hit cut between the last blow and the *)
(* REL_DEL leaves a host that may collapse again.                          *)
CollapsedOnce ==
    \A v \in Destructible \ deeds.cut :
        deeds.falls[v] = (IF qty[v] = 0 THEN 1 ELSE 0)

(* A WAIT yields: nothing moves a machine in the step that stalled it,     *)
(* neither a second intent for its actor nor its island.                   *)
WaitTakesAStep ==
    [][\A k \in DOMAIN rite : rite[k].age = 0 /\ epoch' = epoch =>
         /\ k \in DOMAIN rite'
         /\ rite'[k] = [rite[k] EXCEPT !.age = rite'[k].age]]_vars

(* Every bound action comes to its end, hit or missed, though no player    *)
(* can move it on: provided the island of its actor is admitted again and  *)
(* again (it is awake, no Law refuses it for ever, the intents of its      *)
(* members do not take its lanes in every step).                           *)
IslandAdmitted(i) == i \in done' \ done /\ written' # written
Acts(a) == a \in Tracked /\ <<a, Track[a].rite>> \in DOMAIN rite
ActionsEnd ==
    \A a \in Actors :
        []<><<IslandAdmitted(island[a])>>_vars => (Acts(a) ~> ~Acts(a))
=============================================================================
