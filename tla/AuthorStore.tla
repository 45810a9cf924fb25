----------------------------- MODULE AuthorStore -----------------------------
(***************************************************************************)
(* klotho-ai: the TransactionStore (store.rs) and its leases (lease.rs).   *)
(* A transaction is a private snapshot of the project; every handler       *)
(* changes the memory image, then writes the transaction's own file        *)
(* (persist_tx), then the store's meta file (persist).  Each write is      *)
(* atomic (write_atomic renames), the pair is not: the process may be      *)
(* killed between them and a write may fail.  resume() rebuilds memory     *)
(* from the two files.                                                     *)
(*                                                                         *)
(* A snapshot is the set of objects of one module; the only operation      *)
(* applied is AddLocus.  The sequence number is the store's clock.         *)
(***************************************************************************)
EXTENDS Naturals, Sequences, FiniteSets

CONSTANTS Objects,      \* objects a transaction may add to the module
          LeaseTtl,     \* DEFAULT_LEASE_TTL, 32 in the code
          Roots,        \* anchors a lease may be asked for
          MaxOps,       \* TxBudget::max_ops
          MaxSeq,       \* bound on the sequence clock
          MaxTxs,       \* bound on transactions alive at once
          MaxFaults,    \* bound on kills and failed writes in one behaviour
          Faults        \* subset of {"crash", "io"}

ASSUME StoreAssumption == LeaseTtl \in Nat

VARIABLES live,         \* the live project, written by others only
          mem,          \* the open store: up, seq, txs, leases, review
          meta,         \* store.ron: seq, the ids of txs, leases, review
          files,        \* tx/<id>/tx.ron
          acked,        \* ghost: the ops of each transaction whose apply was answered Ok
          faults,       \* kills and failed writes so far
          gone          \* ghost: transactions whose cancel was answered Ok

vars == <<live, mem, meta, files, acked, faults, gone>>

Module == "module"
Empty == [x \in {} |-> x]
Down == [up |-> FALSE, seq |-> 0, txs |-> Empty, leases |-> {}, review |-> <<>>]
Meta(m) == [seq |-> m.seq, txs |-> DOMAIN m.txs, leases |-> m.leases, review |-> m.review]
Put(f, k, v) == [x \in DOMAIN f \cup {k} |-> IF x = k THEN v ELSE f[x]]
Drop(f, k) == [x \in DOMAIN f \ {k} |-> f[x]]

\* The subtree of a root in a snapshot: the module covers the objects it has there.
Subtree(snap, root) == {root} \cup (IF root = Module THEN snap ELSE {})
Expired(lease, now) == now >= lease.exp

Fault(kind) == kind \in Faults /\ faults < MaxFaults /\ faults' = faults + 1
NoFault == UNCHANGED faults

Init ==
    /\ live = {}
    /\ mem = [Down EXCEPT !.up = TRUE]
    /\ meta = Meta(mem)
    /\ files = Empty
    /\ acked = Empty
    /\ gone = {}
    /\ faults = 0

\* resume: transactions whose file is missing are skipped, everything else is as in the files.
Open ==
    /\ ~mem.up
    /\ mem' = [up |-> TRUE, seq |-> meta.seq, leases |-> meta.leases, review |-> meta.review,
               txs |-> [id \in meta.txs \cap DOMAIN files |-> files[id]]]
    /\ UNCHANGED <<live, meta, files, acked, faults, gone>>

\* Drop for TransactionStore persists the meta file.
Close ==
    /\ mem.up
    /\ mem' = Down
    /\ meta' = Meta(mem)
    /\ UNCHANGED <<live, files, acked, faults, gone>>

Crash ==
    /\ mem.up /\ Fault("crash")
    /\ mem' = Down
    /\ UNCHANGED <<live, meta, files, acked, gone>>

\* mutant: store.ron is written before the transaction's file
PersistMetaFirst(m, id) ==
    \/ /\ NoFault
       /\ mem' = m /\ files' = Put(files, id, m.txs[id]) /\ meta' = Meta(m)
       /\ acked' = Put(acked, id, m.txs[id].ops)
    \/ /\ Fault("crash")
       /\ mem' = Down /\ meta' = Meta(m)
       /\ UNCHANGED <<files, acked>>

\* mutant: the transaction's file is not written
PersistMetaOnly(m, id) ==
    /\ NoFault
    /\ mem' = m /\ meta' = Meta(m) /\ UNCHANGED files
    /\ acked' = Put(acked, id, m.txs[id].ops)

\* persist_tx(id), then persist(): both done and the caller answered Ok; killed in
\* between; or the first or the second write fails, the caller is answered Err and the
\* memory image stays changed.
PersistBoth(m, id) ==
    \/ /\ NoFault
       /\ mem' = m /\ files' = Put(files, id, m.txs[id]) /\ meta' = Meta(m)
       /\ acked' = Put(acked, id, m.txs[id].ops)
    \/ /\ Fault("crash")
       /\ mem' = Down /\ files' = Put(files, id, m.txs[id])
       /\ UNCHANGED <<meta, acked>>
    \/ /\ Fault("io")
       /\ mem' = m
       /\ files' \in {files, Put(files, id, m.txs[id])}
       /\ UNCHANGED <<meta, acked>>

\* persist() alone.
PersistMeta(m) ==
    /\ mem' = m
    /\ \/ NoFault /\ meta' = Meta(m)
       \/ Fault("io") /\ UNCHANGED meta
    /\ UNCHANGED <<files, acked, gone>>

IsOpen(id) == mem.up /\ id \in DOMAIN mem.txs /\ mem.txs[id].status = "Open"

\* The id is derived from the base and the sequence number.
Create ==
    /\ mem.up /\ mem.seq + 2 <= MaxSeq
    /\ Cardinality(DOMAIN mem.txs) < MaxTxs
    /\ LET id == <<live, mem.seq + 1>>
           tx == [status |-> "Open", base |-> live, cur |-> live, ops |-> {}, lease |-> <<>>]
       IN PersistBoth([mem EXCEPT !.seq = @ + 2, !.txs = Put(@, id, tx)], id)
    /\ UNCHANGED <<live, gone>>

\* AddLocus fails on an occupied anchor.
Apply(id, object) ==
    /\ IsOpen(id) /\ mem.seq + 1 <= MaxSeq
    /\ Cardinality(mem.txs[id].ops) < MaxOps
    /\ object \notin mem.txs[id].cur
    /\ PersistBoth([mem EXCEPT !.seq = @ + 1, !.txs[id].cur = @ \cup {object},
                                              !.txs[id].ops = @ \cup {object}], id)
    /\ UNCHANGED <<live, gone>>

\* The prepared ops must still apply to the new base; base, current and proposed merge.
Rebase(id) ==
    /\ IsOpen(id) /\ mem.seq + 1 <= MaxSeq
    /\ mem.txs[id].base # live
    /\ mem.txs[id].ops \cap live = {}
    /\ PersistBoth([mem EXCEPT !.seq = @ + 1, !.txs[id].base = live,
                       !.txs[id].cur = live \cup (@ \ mem.txs[id].base)], id)
    /\ UNCHANGED <<live, gone>>

\* Submitted refuses; the file goes first, then the meta file.  A failed delete returns
\* before the meta file is written.
Cancel(id) ==
    /\ mem.up /\ id \in DOMAIN mem.txs /\ mem.txs[id].status # "Submitted"
    /\ mem.seq + 1 <= MaxSeq
    /\ LET dropped == [mem EXCEPT !.txs = Drop(@, id), !.leases = {l \in @ : l.tx # id}]
           m == [dropped EXCEPT !.seq = @ + 1]
       IN \/ /\ NoFault
             /\ mem' = m /\ meta' = Meta(m) /\ files' = Drop(files, id)
             /\ gone' = gone \cup {id}
          \/ /\ Fault("crash")
             /\ mem' = Down /\ files' = Drop(files, id) /\ UNCHANGED <<meta, gone>>
          \/ /\ Fault("io")
             /\ \/ mem' = dropped /\ UNCHANGED files
                \/ mem' = m /\ files' = Drop(files, id)
             /\ UNCHANGED <<meta, gone>>
    /\ acked' = Drop(acked, id)
    /\ UNCHANGED live

Submit(id) ==
    /\ IsOpen(id) /\ mem.seq + 2 <= MaxSeq
    /\ LET tx == mem.txs[id]
           entry == [tx |-> id, base |-> tx.base, proposed |-> tx.cur]
       IN PersistBoth([mem EXCEPT !.seq = @ + 2, !.txs[id].status = "Submitted",
                                  !.review = Append(@, entry)], id)
    /\ UNCHANGED <<live, gone>>

\* mutant: the holder's own leases are looked at, the others' are passed over
BlockersByOwner(id, root, now) ==
    {l \in mem.leases : ~Expired(l, now) /\ l.tx = id /\ l.root = root}

\* The unexpired leases of other transactions that overlap; one whose transaction is gone
\* is passed over.
Blockers(id, root, now) ==
    {l \in mem.leases : /\ ~Expired(l, now) /\ l.tx # id
                        /\ l.tx \in DOMAIN mem.txs
                        /\ Subtree(mem.txs[id].cur, root)
                             \cap Subtree(mem.txs[l.tx].cur, l.root) # {}}

AcquireLease(id, root) ==
    /\ IsOpen(id) /\ mem.seq + 2 <= MaxSeq
    /\ LET now == mem.seq + 1
           lease == [tx |-> id, root |-> root, id |-> <<id, root, now>>, exp |-> now + LeaseTtl]
           kept == {l \in mem.leases : l.id # mem.txs[id].lease}
       IN IF Blockers(id, root, now) # {}
          THEN /\ mem' = [mem EXCEPT !.seq = now]       \* LeaseHeld: only the clock moved
               /\ UNCHANGED <<meta, files, acked, faults>>
          ELSE PersistBoth([mem EXCEPT !.seq = now + 1, !.leases = kept \cup {lease},
                                       !.txs[id].lease = lease.id], id)
    /\ UNCHANGED <<live, gone>>

\* Another's lease is refused with the clock moved; an expired one is audited and refused.
RenewLease(id, lease) ==
    /\ IsOpen(id) /\ mem.seq + 2 <= MaxSeq
    /\ LET now == mem.seq + 1
       IN \/ /\ lease.tx # id
             /\ mem' = [mem EXCEPT !.seq = now]
             /\ UNCHANGED <<meta, files, acked, faults, gone>>
          \/ /\ lease.tx = id /\ Expired(lease, now)
             /\ PersistMeta([mem EXCEPT !.seq = now + 1])
          \/ /\ lease.tx = id /\ ~Expired(lease, now)
             /\ PersistMeta([mem EXCEPT !.seq = now + 1,
                    !.leases = (@ \ {lease}) \cup {[lease EXCEPT !.exp = now + LeaseTtl]}])
    /\ UNCHANGED live

AdvanceClock ==
    /\ mem.up /\ mem.seq + LeaseTtl <= MaxSeq
    /\ PersistMeta([mem EXCEPT !.seq = @ + LeaseTtl])
    /\ UNCHANGED live

\* Someone accepts another change into the live project.
LiveMoves(object) ==
    /\ object \notin live
    /\ live' = live \cup {object}
    /\ UNCHANGED <<mem, meta, files, acked, faults, gone>>

Next ==
    \/ Open \/ Close \/ Crash \/ Create \/ AdvanceClock
    \/ \E o \in Objects : LiveMoves(o)
    \/ \E id \in DOMAIN mem.txs :
          \/ Rebase(id) \/ Cancel(id) \/ Submit(id)
          \/ \E o \in Objects : Apply(id, o)
          \/ \E r \in Roots : AcquireLease(id, r)
          \/ \E l \in mem.leases : RenewLease(id, l)

Spec == Init /\ [][Next]_vars
-----------------------------------------------------------------------------
(* Properties.                                                             *)

\* What was answered Ok survives every later fault: a transaction the caller was told of is
\* there with at least the ops he was told of, and a cancelled one does not come back.
Durable ==
    mem.up =>
        /\ \A id \in DOMAIN acked : id \in DOMAIN mem.txs /\ acked[id] \subseteq mem.txs[id].ops
        /\ gone \cap DOMAIN mem.txs = {}

\* The review queue proposes exactly what the transaction holds: it is closed, and stays
\* closed across restarts, from the moment its entry can be seen.
ReviewFrozen ==
    mem.up => \A i \in DOMAIN mem.review :
        LET e == mem.review[i]
        IN /\ e.tx \in DOMAIN mem.txs
           /\ mem.txs[e.tx].status = "Submitted"
           /\ mem.txs[e.tx].cur = e.proposed /\ mem.txs[e.tx].base = e.base

\* Two transactions never hold unexpired leases on the same root, whatever was renewed,
\* refused, torn or restarted in between.
OneHolder ==
    mem.up => \A k, l \in mem.leases :
        /\ k.tx # l.tx /\ k.root = l.root
        /\ k.tx \in DOMAIN mem.txs /\ l.tx \in DOMAIN mem.txs
        => Expired(k, mem.seq) \/ Expired(l, mem.seq)
=============================================================================
