----------------------------- MODULE StealDeque -----------------------------
(***************************************************************************)
(* klotho-jobs: the parallel island proposal.  propose_parallel deals the  *)
(* islands round robin onto one deque per worker, every worker loops on    *)
(* next_island (pop its own deque at the bottom, else steal from the top   *)
(* of the others) and keeps a chunk per claimed island in a private        *)
(* buffer; after the thread scope ends the buffers are joined.             *)
(*                                                                         *)
(* Each atomic access of pop_bottom and steal is a step of its own.        *)
(* pop_bottom stores bottom with Ordering::Relaxed and then loads top with *)
(* no SeqCst fence in between, so the store may still sit in the owner's   *)
(* store buffer when the load is served, and thieves may read the old      *)
(* bottom: sb[w] is that buffer.  A compare_exchange is a locked           *)
(* instruction and drains it.  This is x86-TSO; C11 Relaxed and weaker     *)
(* machines allow every behaviour of this module and more.  With           *)
(* StoreBuffering = FALSE each store reaches memory at once (sequential    *)
(* consistency, the model one has in mind when reading the code).          *)
(***************************************************************************)
EXTENDS Integers, Sequences, FiniteSets

CONSTANTS
    NWorkers,        \* worker threads, n_workers after its clamp
    Count,           \* Count[w]: how many islands worker w is dealt
    StoreBuffering   \* whether an owner's stores to bottom are buffered

Workers == 0 .. NWorkers - 1

ASSUME WorkersAssumption == NWorkers \in Nat \ {0}
ASSUME CountAssumption == Count \in [Workers -> Nat]
ASSUME BufferingAssumption == StoreBuffering \in BOOLEAN

(* An island is the slot it was dealt to: deque d, index k of d's buffer.  *)
Islands == UNION {{d} \X (0 .. Count[d] - 1) : d \in Workers}

VARIABLES
    top,     \* top[d]: next index thieves claim
    bottom,  \* bottom[d]: the owner's end, as memory has it
    sb,      \* sb[d]: owner's stores to bottom not yet in memory
    pc,      \* pc[w]: the next access of worker w
    tt,      \* tt[w]: local t of pop_bottom or steal, 0 outside
    bb,      \* bb[w]: local b of pop_bottom, 0 outside
    victim,  \* victim[w]: the deque next_island is scanning
    chunks   \* chunks[w][i]: how many chunks for island i bufs[w] holds

vars == <<top, bottom, sb, pc, tt, bb, victim, chunks>>

Labels == {"popBottom", "popTop", "popCas", "scan", "stealBottom", "stealCas",
           "done"}

(***************************************************************************)
(* with_cap and push_bottom ran for every dealt island before the workers  *)
(* were spawned; spawning publishes them, so all buffers start empty.      *)
(***************************************************************************)
Init ==
    /\ top = [d \in Workers |-> 0]
    /\ bottom = Count
    /\ sb = [d \in Workers |-> <<>>]
    /\ pc = [w \in Workers |-> "popBottom"]
    /\ tt = [w \in Workers |-> 0]
    /\ bb = [w \in Workers |-> 0]
    /\ victim = [w \in Workers |-> 0]
    /\ chunks = [w \in Workers |-> [i \in Islands |-> 0]]

(* The owner reads its own newest store first (store forwarding).          *)
OwnBottom(w) == IF sb[w] = <<>> THEN bottom[w] ELSE sb[w][Len(sb[w])]

StoreBottom(w, v) ==
    IF StoreBuffering
    THEN sb' = [sb EXCEPT ![w] = Append(@, v)] /\ UNCHANGED bottom
    ELSE bottom' = [bottom EXCEPT ![w] = v] /\ UNCHANGED sb

(* The hardware retires the oldest buffered store of w.                    *)
Drain(w) ==
    /\ sb[w] # <<>>
    /\ bottom' = [bottom EXCEPT ![w] = Head(sb[w])]
    /\ sb' = [sb EXCEPT ![w] = Tail(@)]
    /\ UNCHANGED <<top, pc, tt, bb, victim, chunks>>

(* pop_bottom or steal returns: its locals are gone.                       *)
ReturnLocals(w) ==
    /\ tt' = [tt EXCEPT ![w] = 0]
    /\ bb' = [bb EXCEPT ![w] = 0]

(* next_island returned Some(d's slot k): propose, push the chunk, loop.   *)
Claim(w, d, k) ==
    /\ chunks' = [chunks EXCEPT ![w][<<d, k>>] = @ + 1]
    /\ pc' = [pc EXCEPT ![w] = "popBottom"]
    /\ victim' = [victim EXCEPT ![w] = 0]
    /\ ReturnLocals(w)

(* This attempt returned None: go on with the deque v of the scan.         *)
Scan(w, v) ==
    /\ pc' = [pc EXCEPT ![w] = "scan"]
    /\ victim' = [victim EXCEPT ![w] = v]
    /\ ReturnLocals(w)
    /\ UNCHANGED chunks

(* pop_bottom: load bottom, None at 0, else store the decremented value.   *)
PopBottomEmpty(w) ==
    /\ pc[w] = "popBottom"
    /\ OwnBottom(w) = 0
    /\ Scan(w, 0)
    /\ UNCHANGED <<top, bottom, sb>>

PopBottom(w) ==
    /\ pc[w] = "popBottom"
    /\ OwnBottom(w) # 0
    /\ bb' = [bb EXCEPT ![w] = OwnBottom(w) - 1]
    /\ StoreBottom(w, OwnBottom(w) - 1)
    /\ pc' = [pc EXCEPT ![w] = "popTop"]
    /\ UNCHANGED <<top, tt, victim, chunks>>

PopOvertakenLast(w) ==          \* mutant: b <= t for b < t
    /\ pc[w] = "popTop"
    /\ bb[w] <= top[w]
    /\ StoreBottom(w, bb[w] + 1)
    /\ Scan(w, 0)
    /\ UNCHANGED top

(* pop_bottom loads top: overtaken, or free to take, or the last item.     *)
PopOvertaken(w) ==
    /\ pc[w] = "popTop"
    /\ bb[w] < top[w]
    /\ StoreBottom(w, bb[w] + 1)
    /\ Scan(w, 0)
    /\ UNCHANGED top

PopTake(w) ==
    /\ pc[w] = "popTop"
    /\ bb[w] > top[w]
    /\ Claim(w, w, bb[w])
    /\ UNCHANGED <<top, bottom, sb>>

PopLast(w) ==
    /\ pc[w] = "popTop"
    /\ bb[w] = top[w]
    /\ tt' = [tt EXCEPT ![w] = top[w]]
    /\ pc' = [pc EXCEPT ![w] = "popCas"]
    /\ UNCHANGED <<top, bottom, sb, bb, victim, chunks>>

(* pop_bottom on the last item: compare_exchange top, restore bottom.      *)
PopCasWon(w) ==
    /\ pc[w] = "popCas"
    /\ sb[w] = <<>>
    /\ top[w] = tt[w]
    /\ top' = [top EXCEPT ![w] = @ + 1]
    /\ StoreBottom(w, bb[w] + 1)
    /\ Claim(w, w, bb[w])

PopCasLost(w) ==
    /\ pc[w] = "popCas"
    /\ sb[w] = <<>>
    /\ top[w] # tt[w]
    /\ StoreBottom(w, bb[w] + 1)
    /\ Scan(w, 0)
    /\ UNCHANGED top

(* next_island: i == self_ix is skipped; past the last deque the loop ends *)
(* with None and so does the worker.                                       *)
ScanSelf(w) ==
    /\ pc[w] = "scan"
    /\ victim[w] = w
    /\ Scan(w, w + 1)
    /\ UNCHANGED <<top, bottom, sb>>

ScanEndRetry(w) ==              \* mutant: None restarts the scan
    /\ pc[w] = "scan"
    /\ victim[w] = NWorkers
    /\ Scan(w, 0)
    /\ UNCHANGED <<top, bottom, sb>>

ScanEnd(w) ==
    /\ pc[w] = "scan"
    /\ victim[w] = NWorkers
    /\ pc' = [pc EXCEPT ![w] = "done"]
    /\ UNCHANGED <<top, bottom, sb, tt, bb, victim, chunks>>

(* steal: load top, then bottom; None when empty; else CAS top.            *)
StealTop(w) ==
    /\ pc[w] = "scan"
    /\ victim[w] \in Workers \ {w}
    /\ tt' = [tt EXCEPT ![w] = top[victim[w]]]
    /\ pc' = [pc EXCEPT ![w] = "stealBottom"]
    /\ UNCHANGED <<top, bottom, sb, bb, victim, chunks>>

StealEmpty(w) ==
    /\ pc[w] = "stealBottom"
    /\ tt[w] >= bottom[victim[w]]
    /\ Scan(w, victim[w] + 1)
    /\ UNCHANGED <<top, bottom, sb>>

StealBottom(w) ==
    /\ pc[w] = "stealBottom"
    /\ tt[w] < bottom[victim[w]]
    /\ pc' = [pc EXCEPT ![w] = "stealCas"]
    /\ UNCHANGED <<top, bottom, sb, tt, bb, victim, chunks>>

StealWon(w) ==
    /\ pc[w] = "stealCas"
    /\ sb[w] = <<>>
    /\ top[victim[w]] = tt[w]
    /\ top' = [top EXCEPT ![victim[w]] = @ + 1]
    /\ Claim(w, victim[w], tt[w])
    /\ UNCHANGED <<bottom, sb>>

StealLost(w) ==
    /\ pc[w] = "stealCas"
    /\ sb[w] = <<>>
    /\ top[victim[w]] # tt[w]
    /\ Scan(w, victim[w] + 1)
    /\ UNCHANGED <<top, bottom, sb>>

Step(w) ==
    \/ PopBottomEmpty(w) \/ PopBottom(w)
    \/ PopOvertaken(w) \/ PopTake(w) \/ PopLast(w)
    \/ PopCasWon(w) \/ PopCasLost(w)
    \/ ScanSelf(w) \/ ScanEnd(w)
    \/ StealTop(w) \/ StealEmpty(w) \/ StealBottom(w)
    \/ StealWon(w) \/ StealLost(w)

Next == \E w \in Workers : Step(w) \/ Drain(w)

(* Threads are scheduled and stores reach memory eventually.               *)
Fairness == \A w \in Workers : WF_vars(Step(w)) /\ WF_vars(Drain(w))

Spec == Init /\ [][Next]_vars
FairSpec == Spec /\ Fairness

-----------------------------------------------------------------------------
AllDone == \A w \in Workers : pc[w] = "done"

(* join_sorted groups the chunks of all buffers by island: the workers     *)
(* that proposed island i.                                                 *)
ChunksOf(i) == {w \in Workers : chunks[w][i] > 0}

TypeOK ==
    /\ top \in [Workers -> Nat]
    /\ bottom \in [Workers -> Nat]
    /\ sb \in [Workers -> Seq(Nat)]
    /\ pc \in [Workers -> Labels]
    /\ tt \in [Workers -> Nat]
    /\ bb \in [Workers -> Nat]
    /\ victim \in [Workers -> Nat]
    /\ chunks \in [Workers -> [Islands -> Nat]]

(***************************************************************************)
(* No island is dropped: when every worker has left its loop, some buffer  *)
(* holds a chunk for each dealt island, although a failed compare_exchange *)
(* or an overtaken pop ends an attempt with None and next_island returning *)
(* None ends a worker for good.                                            *)
(***************************************************************************)
NoIslandLost == AllDone => \A i \in Islands : ChunksOf(i) # {}

(***************************************************************************)
(* The top side is exact whatever the memory order: an island goes to at   *)
(* most one thief and to it once, because only a successful CAS on top     *)
(* hands it out; and the owner never takes the same slot twice although it *)
(* restores bottom after an overtaken or a contested pop.                  *)
(***************************************************************************)
OneThiefAndOwnerOnce ==
    \A i \in Islands :
        /\ \A w \in Workers : chunks[w][i] <= 1
        /\ \A v, w \in ChunksOf(i) \ {i[1]} : v = w

(***************************************************************************)
(* An island is claimed at most once (the assertion of                     *)
(* tests/loom_deque.rs, `claims <= 1`).  True when stores to bottom reach  *)
(* memory at once.                                                         *)
(***************************************************************************)
ClaimedOnce ==
    \A i \in Islands :
        /\ \A w \in Workers : chunks[w][i] <= 1
        /\ \A v, w \in ChunksOf(i) : v = w

(* The deques implement the pool: an owner and at most one thief take an   *)
(* island, and a worker that leaves leaves none of its own behind.         *)
Pool == INSTANCE IslandPool
            WITH Owner <- [i \in Islands |-> i[1]], left <- {w \in Workers : pc[w] = "done"}

ImplementsPool == Pool!Spec

(* thread::scope returns: every worker leaves its loop.                    *)
WorkersFinish == <>AllDone
=============================================================================
