-------------------------- MODULE AuthorStoreProofs --------------------------
(***************************************************************************)
(* Proofs about AuthorStore for any objects, roots, budgets and lease      *)
(* times, whatever is killed or fails to write: what was answered Ok is    *)
(* durable and a root has one holder.  Without failed writes the review    *)
(* queue proposes what its transactions hold.                              *)
(***************************************************************************)
EXTENDS MCAuthorStore, TLAPS

Ids == (SUBSET Objects) \X Nat

Leases == [tx : Ids, root : Roots, id : Ids \X Roots \X Nat, exp : Nat]

Txs == [status : {"Open", "Submitted"}, base : SUBSET Objects, cur : SUBSET Objects,
        ops : SUBSET Objects, lease : {<<>>} \union (Ids \X Roots \X Nat)]

Entries == [tx : Ids, base : SUBSET Objects, proposed : SUBSET Objects]

IsTxs(f) == DOMAIN f \subseteq Ids /\ \A id \in DOMAIN f : f[id] \in Txs

IsStore(m) ==
    /\ DOMAIN m = {"up", "seq", "txs", "leases", "review"}
    /\ m.up \in BOOLEAN /\ m.seq \in Nat /\ IsTxs(m.txs) /\ m.leases \subseteq Leases
    /\ m.review \in Seq(Entries)

IsMeta(m) ==
    /\ m.seq \in Nat /\ m.txs \subseteq Ids /\ m.leases \subseteq Leases
    /\ m.review \in Seq(Entries)

TypeOK ==
    /\ live \subseteq Objects
    /\ IsStore(mem) /\ IsMeta(meta) /\ IsTxs(files)
    /\ gone \subseteq Ids /\ faults \in Nat

-----------------------------------------------------------------------------
(* No transaction or lease is of a later time than the clock: the next id  *)
(* is new, and a lease left behind by a lost transaction stays without one.*)
Known(seq, txs, leases) ==
    /\ \A id \in txs : id[2] <= seq
    /\ \A l \in leases : l.tx[2] <= seq

Clock ==
    /\ Known(mem.seq, DOMAIN mem.txs, mem.leases)
    /\ Known(meta.seq, meta.txs, meta.leases)
    /\ mem.up => meta.seq <= mem.seq
    /\ \A id \in gone : id[2] <= meta.seq

Alone(seq, txs, leases) ==
    \A k, l \in leases :
        k.tx # l.tx /\ k.root = l.root /\ k.tx \in txs /\ l.tx \in txs
          => Expired(k, seq) \/ Expired(l, seq)

(* One holder in memory and in store.ron, from which memory is rebuilt.    *)
Holders ==
    /\ Alone(mem.seq, DOMAIN mem.txs, mem.leases)
    /\ Alone(meta.seq, meta.txs, meta.leases)

(* What was answered is in the files, and memory is at least as far.       *)
Backed ==
    /\ \A id \in DOMAIN acked :
         /\ id \in meta.txs /\ id \in DOMAIN files /\ acked[id] \subseteq files[id].ops
         /\ mem.up => id \in DOMAIN mem.txs /\ files[id].ops \subseteq mem.txs[id].ops
    /\ gone \cap meta.txs = {} /\ gone \cap DOMAIN mem.txs = {}

IInv == TypeOK /\ Clock /\ Holders /\ Backed

(* The transaction of an entry is submitted with what the entry proposes.  *)
Holds(e, txs) ==
    /\ e.tx \in DOMAIN txs /\ txs[e.tx].status = "Submitted"
    /\ txs[e.tx].cur = e.proposed /\ txs[e.tx].base = e.base

(* The queue of store.ron is backed by the files and is that of memory.    *)
Frozen ==
    /\ \A i \in DOMAIN meta.review :
         meta.review[i].tx \in meta.txs /\ Holds(meta.review[i], files)
    /\ mem.up => /\ meta.review = mem.review
                 /\ \A i \in DOMAIN mem.review : Holds(mem.review[i], mem.txs)

MixFrozen == ~mix.io => Frozen
-----------------------------------------------------------------------------
LEMMA StoreFields ==
  ASSUME NEW m, IsStore(m)
  PROVE  IsMeta(Meta(m)) /\ DOMAIN m.txs = Meta(m).txs
         /\ Meta(m).seq = m.seq /\ Meta(m).leases = m.leases /\ Meta(m).review = m.review
  BY DEF IsStore, IsTxs, IsMeta, Meta

LEMMA DownStore ==
  IsStore(Down) /\ ~Down.up /\ Down.seq = 0 /\ DOMAIN Down.txs = {} /\ Down.leases = {}
<1>1. DOMAIN Empty = {}
  BY DEF Empty
<1> QED BY <1>1 DEF Down, IsStore, IsTxs

THEOREM Initial == Init => IInv
<1> SUFFICES ASSUME Init PROVE IInv
  OBVIOUS
<1>1. /\ mem.up /\ mem.seq = 0 /\ DOMAIN mem.txs = {} /\ mem.leases = {}
      /\ IsStore(mem)
  <2>1. mem = [up |-> TRUE, seq |-> 0, txs |-> Empty, leases |-> {}, review |-> <<>>]
    BY DEF Init, Down
  <2>2. DOMAIN Empty = {}
    BY DEF Empty
  <2> QED BY <2>1, <2>2 DEF IsStore, IsTxs
<1>2. /\ meta.seq = 0 /\ meta.txs = {} /\ meta.leases = {} /\ IsMeta(meta)
  BY <1>1, StoreFields DEF Init
<1>3. DOMAIN files = {} /\ DOMAIN acked = {} /\ gone = {}
  BY DEF Init, Empty
<1>4. TypeOK
  BY <1>1, <1>2, <1>3 DEF Init, TypeOK, IsTxs
<1> QED BY <1>1, <1>2, <1>3, <1>4 DEF IInv, Clock, Known, Holders, Alone, Backed

-----------------------------------------------------------------------------
(* The change of a handler that persists both files: one transaction new   *)
(* or still open, the others as they were, and the clock has moved.        *)
Grows(m, id) ==
    /\ IsStore(m) /\ m.up /\ mem.up /\ m.seq > mem.seq
    /\ id \in DOMAIN m.txs /\ DOMAIN m.txs = DOMAIN mem.txs \union {id}
    /\ \A x \in DOMAIN mem.txs \ {id} : m.txs[x] = mem.txs[x]
    /\ id \in DOMAIN mem.txs =>
         mem.txs[id].status = "Open" /\ mem.txs[id].ops \subseteq m.txs[id].ops
    /\ id \notin DOMAIN mem.txs => mem.seq < id[2] /\ id[2] <= m.seq
    /\ Known(m.seq, {}, m.leases)
    /\ Alone(m.seq, DOMAIN m.txs, m.leases)

(* It appends at most the entry of its transaction to the queue.           *)
Queues(m, id) ==
    \/ m.review = mem.review
    \/ \E e \in Entries : /\ m.review = Append(mem.review, e)
                          /\ e.tx = id /\ Holds(e, m.txs)

(* Expired leases stay expired, and a lease without its transaction is no  *)
(* holder.                                                                 *)
LEMMA AloneLater ==
  ASSUME NEW s \in Nat, NEW t \in Nat, s <= t, NEW txs, NEW later,
         NEW leases, leases \subseteq Leases, NEW kept, kept \subseteq leases,
         \A l \in kept : l.tx \in later => l.tx \in txs,
         Alone(s, txs, leases)
  PROVE  Alone(t, later, kept)
<1>1. \A l \in leases : l.exp \in Nat
  BY DEF Leases
<1> QED BY <1>1 DEF Alone, Expired

LEMMA IdTime == \A id \in Ids : id[2] \in Nat
  BY DEF Ids

LEMMA LeaseTime == \A l \in Leases : l.tx \in Ids /\ l.tx[2] \in Nat /\ l.exp \in Nat
  BY DEF Leases, Ids

(* Whatever happens to the two writes of such a change.                    *)
LEMMA BothPreserve ==
  ASSUME IInv, NEW m, NEW id, Grows(m, id), PersistBoth(m, id), UNCHANGED <<live, gone>>
  PROVE  IInv'
<1> DEFINE filed == Put(files, id, m.txs[id])
<1>0. /\ IsStore(m) /\ IsStore(mem) /\ IsMeta(meta) /\ IsTxs(files) /\ IsTxs(m.txs)
      /\ m.seq \in Nat /\ mem.seq \in Nat /\ meta.seq \in Nat
      /\ id \in Ids /\ m.txs[id] \in Txs /\ m.leases \subseteq Leases
      /\ mem.leases \subseteq Leases /\ meta.leases \subseteq Leases
      /\ DOMAIN mem.txs \subseteq Ids /\ meta.txs \subseteq Ids /\ gone \subseteq Ids
      /\ DOMAIN m.txs \subseteq Ids /\ faults \in Nat
      /\ mem.up /\ m.up /\ mem.seq < m.seq /\ meta.seq <= mem.seq
  BY DEF IInv, TypeOK, Clock, Grows, IsStore, IsTxs, IsMeta
<1>1. /\ IsTxs(filed) /\ DOMAIN filed = DOMAIN files \union {id}
      /\ filed[id] = m.txs[id] /\ \A x \in DOMAIN files \ {id} : filed[x] = files[x]
  <2>1. /\ DOMAIN filed = DOMAIN files \union {id} /\ filed[id] = m.txs[id]
        /\ \A x \in DOMAIN files \ {id} : filed[x] = files[x]
    BY DEF Put
  <2> HIDE DEF filed
  <2> QED BY <1>0, <2>1 DEF IsTxs
<1>2. /\ Known(m.seq, DOMAIN m.txs, m.leases)
      /\ \A x \in gone : x[2] <= mem.seq /\ x[2] \in Nat
      /\ \A x \in DOMAIN mem.txs : x[2] <= mem.seq /\ x[2] \in Nat
      /\ \A x \in meta.txs : x[2] <= mem.seq /\ x[2] \in Nat
  BY <1>0, IdTime DEF IInv, Clock, Known, Grows
<1>3. /\ gone \cap DOMAIN m.txs = {}
      /\ \A x \in DOMAIN acked : x \in DOMAIN m.txs /\ (x = id => id \in DOMAIN mem.txs)
  BY <1>0, <1>2 DEF IInv, Backed, Grows
<1>4. /\ \A x \in DOMAIN acked :
           /\ x \in meta.txs /\ x \in DOMAIN filed /\ acked[x] \subseteq filed[x].ops
           /\ filed[x].ops \subseteq m.txs[x].ops /\ files[x].ops \subseteq m.txs[x].ops
      /\ \A x \in DOMAIN acked : x \in DOMAIN files /\ acked[x] \subseteq files[x].ops
  BY <1>0, <1>1, <1>3 DEF IInv, Backed, Grows
<1> HIDE DEF filed
<1>5. CASE /\ NoFault /\ mem' = m /\ files' = filed /\ meta' = Meta(m)
           /\ acked' = Put(acked, id, m.txs[id].ops)
  <2>1. /\ IsMeta(meta') /\ meta'.txs = DOMAIN m.txs /\ meta'.seq = m.seq
        /\ meta'.leases = m.leases
    BY <1>0, <1>5, StoreFields
  <2>2. /\ DOMAIN acked' = DOMAIN acked \union {id} /\ acked'[id] = m.txs[id].ops
        /\ \A x \in DOMAIN acked \ {id} : acked'[x] = acked[x]
    BY <1>5 DEF Put
  <2>3. TypeOK'
    BY <1>0, <1>1, <1>5, <2>1 DEF IInv, TypeOK, NoFault
  <2>4. Clock'
    BY <1>0, <1>2, <1>5, <2>1 DEF Clock
  <2>5. Holders'
    BY <1>5, <2>1 DEF Grows, Holders
  <2>6. Backed'
    BY <1>0, <1>1, <1>3, <1>4, <1>5, <2>1, <2>2 DEF Backed, Grows
  <2> QED BY <2>3, <2>4, <2>5, <2>6 DEF IInv
<1>6. CASE /\ Fault("crash") /\ mem' = Down /\ files' = filed
           /\ UNCHANGED <<meta, acked>>
  <2>1. TypeOK'
    BY <1>0, <1>1, <1>6, DownStore DEF IInv, TypeOK, Fault
  <2>2. Clock' /\ Holders'
    BY <1>0, <1>6, DownStore DEF IInv, Clock, Known, Holders, Alone
  <2>3. Backed'
    BY <1>4, <1>6, DownStore DEF IInv, Backed
  <2> QED BY <2>1, <2>2, <2>3 DEF IInv
<1>7. CASE /\ Fault("io") /\ mem' = m /\ files' \in {files, filed}
           /\ UNCHANGED <<meta, acked>>
  <2>1. TypeOK'
    BY <1>0, <1>1, <1>7 DEF IInv, TypeOK, Fault
  <2>2. Clock'
    BY <1>0, <1>2, <1>7 DEF IInv, Clock
  <2>3. Holders'
    BY <1>7 DEF IInv, Holders, Grows
  <2>4. Backed'
    BY <1>3, <1>4, <1>7 DEF IInv, Backed
  <2> QED BY <2>1, <2>2, <2>3, <2>4 DEF IInv
<1> QED BY <1>5, <1>6, <1>7 DEF PersistBoth, filed

(* The same for a change of the clock and the leases alone.                *)
LEMMA MetaPreserve ==
  ASSUME IInv, NEW m, IsStore(m), mem.up, m.up, mem.seq <= m.seq, m.txs = mem.txs,
         Known(m.seq, {}, m.leases), Alone(m.seq, DOMAIN m.txs, m.leases),
         mem' = m, meta' \in {meta, Meta(m)}, faults' \in Nat,
         UNCHANGED <<live, files, acked, gone>>
  PROVE  IInv'
<1>0. /\ IsStore(mem) /\ IsMeta(meta) /\ m.seq \in Nat /\ mem.seq \in Nat
      /\ meta.seq \in Nat /\ meta.seq <= mem.seq
      /\ DOMAIN mem.txs \subseteq Ids /\ gone \subseteq Ids
  BY DEF IInv, TypeOK, Clock, IsStore, IsTxs, IsMeta
<1>1. /\ IsMeta(Meta(m)) /\ Meta(m).txs = DOMAIN mem.txs /\ Meta(m).seq = m.seq
      /\ Meta(m).leases = m.leases
  BY StoreFields
<1>2. TypeOK'
  BY <1>1 DEF IInv, TypeOK
<1>3. Clock'
  BY <1>0, <1>1, IdTime DEF IInv, Clock, Known
<1>4. Holders'
  BY <1>1 DEF IInv, Holders
<1>5. Backed'
  BY <1>1 DEF IInv, Backed
<1> QED BY <1>2, <1>3, <1>4, <1>5 DEF IInv
-----------------------------------------------------------------------------
(* The handlers make such changes.                                         *)

LEMMA OpenStore ==
  ASSUME IInv
  PROVE  /\ IsStore(mem) /\ mem.seq \in Nat /\ live \subseteq Objects
         /\ IsTxs(mem.txs) /\ mem.leases \subseteq Leases /\ mem.review \in Seq(Entries)
         /\ Known(mem.seq, DOMAIN mem.txs, mem.leases)
         /\ Alone(mem.seq, DOMAIN mem.txs, mem.leases)
         /\ \A id \in DOMAIN mem.txs :
              /\ id \in Ids /\ mem.txs[id] \in Txs
              /\ id[2] <= mem.seq /\ id[2] \in Nat
  BY IdTime DEF IInv, TypeOK, Clock, Holders, IsStore, IsTxs, Known

(* A store with the fields given.                                          *)
Store(m, up, seq, txs, leases, review) ==
    /\ DOMAIN m = {"up", "seq", "txs", "leases", "review"}
    /\ m.up = up /\ m.seq = seq /\ m.txs = txs /\ m.leases = leases /\ m.review = review

(* One transaction is replaced.                                            *)
LEMMA TxsExcept ==
  ASSUME NEW f, IsTxs(f), NEW id \in DOMAIN f, NEW g,
         DOMAIN g = DOMAIN f, g[id] \in Txs,
         \A x \in DOMAIN f \ {id} : g[x] = f[x]
  PROVE  IsTxs(g)
  BY DEF IsTxs

LEMMA CreateGrows ==
  ASSUME IInv, Create
  PROVE  \E m, id : Grows(m, id) /\ Queues(m, id) /\ PersistBoth(m, id)
<1> DEFINE id == <<live, mem.seq + 1>>
           tx == [status |-> "Open", base |-> live, cur |-> live, ops |-> {},
                  lease |-> <<>>]
           t  == Put(mem.txs, id, tx)
           m  == [mem EXCEPT !.seq = @ + 2, !.txs = Put(@, id, tx)]
<1>1. mem.up /\ PersistBoth(m, id)
  BY DEF Create
<1>2. /\ IsStore(mem) /\ mem.seq \in Nat /\ IsTxs(mem.txs) /\ mem.leases \subseteq Leases
      /\ Known(mem.seq, DOMAIN mem.txs, mem.leases)
      /\ Alone(mem.seq, DOMAIN mem.txs, mem.leases) /\ live \subseteq Objects
  BY OpenStore
<1>3. id \in Ids /\ id[2] = mem.seq + 1 /\ tx \in Txs
  BY <1>2 DEF Ids, Txs
<1> HIDE DEF id, tx
<1>4. /\ DOMAIN t = DOMAIN mem.txs \union {id} /\ t[id] = tx
      /\ \A x \in DOMAIN mem.txs \ {id} : t[x] = mem.txs[x]
  BY DEF Put
<1>5. Store(m, mem.up, mem.seq + 2, t, mem.leases, mem.review)
  BY <1>2 DEF IsStore, Store
<1>6. IsTxs(t)
  BY <1>2, <1>3, <1>4 DEF IsTxs
<1> HIDE DEF m, t
<1>7. /\ m.up /\ m.seq = mem.seq + 2 /\ m.txs = t /\ m.leases = mem.leases
      /\ m.review = mem.review /\ m.seq \in Nat
  BY <1>1, <1>2, <1>5 DEF Store
<1>8. IsStore(m)
  BY <1>2, <1>5, <1>6, <1>7 DEF IsStore, Store
<1>9. id \notin DOMAIN mem.txs
  BY <1>2, <1>3 DEF Known
<1>10. \A l \in mem.leases : l.tx[2] <= mem.seq /\ l.tx[2] \in Nat /\ l.tx # id
  BY <1>2, <1>3, LeaseTime DEF Known
<1>11. Known(m.seq, {}, m.leases)
  BY <1>2, <1>7, <1>10 DEF Known
<1>12. Alone(m.seq, DOMAIN m.txs, m.leases)
  <2>1. \A l \in mem.leases : l.tx \in DOMAIN m.txs => l.tx \in DOMAIN mem.txs
    BY <1>4, <1>7, <1>10
  <2> QED BY <1>2, <1>7, <2>1, AloneLater
<1>13. Grows(m, id)
  BY <1>1, <1>2, <1>3, <1>4, <1>7, <1>8, <1>9, <1>11, <1>12 DEF Grows
<1> QED BY <1>1, <1>7, <1>13 DEF Queues

(* A change of one open transaction and of nothing else.                   *)
LEMMA EditGrows ==
  ASSUME IInv, NEW id, IsOpen(id), NEW t, DOMAIN t = DOMAIN mem.txs, t[id] \in Txs,
         \A x \in DOMAIN mem.txs \ {id} : t[x] = mem.txs[x],
         mem.txs[id].ops \subseteq t[id].ops, NEW s \in Nat, s > mem.seq, NEW r,
         \/ r = mem.review
         \/ \E e \in Entries : r = Append(mem.review, e) /\ e.tx = id /\ Holds(e, t),
         NEW leases, leases \subseteq Leases, Known(s, {}, leases),
         Alone(s, DOMAIN mem.txs, leases), NEW m,
         Store(m, mem.up, s, t, leases, r)
  PROVE  Grows(m, id) /\ Queues(m, id)
<1>1. /\ IsStore(mem) /\ mem.up /\ mem.seq \in Nat /\ IsTxs(mem.txs)
      /\ mem.review \in Seq(Entries)
      /\ id \in DOMAIN mem.txs /\ mem.txs[id].status = "Open"
  BY OpenStore DEF IsOpen
<1>2. IsTxs(t)
  BY <1>1, TxsExcept
<1>3. r \in Seq(Entries)
  BY <1>1
<1>4. /\ m.up /\ m.seq = s /\ m.txs = t /\ m.leases = leases /\ m.review = r
      /\ m.up \in BOOLEAN
  BY <1>1 DEF Store
<1>5. IsStore(m)
  BY <1>2, <1>3, <1>4 DEF IsStore, Store
<1>6. Grows(m, id)
  BY <1>1, <1>4, <1>5 DEF Grows
<1> QED BY <1>4, <1>6 DEF Queues

(* Two fields of a transaction are replaced, one after the other.          *)
Edited(x, c, o) == [x EXCEPT !.cur = c, !.ops = o]
Moved(x, b, c)  == [x EXCEPT !.base = b, !.cur = c]

LEMMA TxExcept ==
  ASSUME NEW x \in Txs, NEW c \in SUBSET Objects, NEW o \in SUBSET Objects
  PROVE  /\ Edited(x, c, o) \in Txs /\ Edited(x, c, o).ops = o
         /\ Moved(x, c, o) \in Txs /\ Moved(x, c, o).ops = x.ops
<1>1. /\ Edited(x, c, o) = [[x EXCEPT !.cur = c] EXCEPT !.ops = o]
      /\ Moved(x, c, o) = [[x EXCEPT !.base = c] EXCEPT !.cur = o]
  BY DEF Txs, Edited, Moved
<1>2. PICK y, z : y = [x EXCEPT !.cur = c] /\ z = [x EXCEPT !.base = c]
  OBVIOUS
<1>3. y \in Txs /\ z \in Txs /\ z.ops = x.ops
  BY <1>2 DEF Txs
<1>4. /\ [y EXCEPT !.ops = o] \in Txs /\ [y EXCEPT !.ops = o].ops = o
      /\ [z EXCEPT !.cur = o] \in Txs /\ [z EXCEPT !.cur = o].ops = z.ops
  BY <1>3 DEF Txs
<1> QED BY <1>1, <1>2, <1>3, <1>4

(* The leases at a later time.                                             *)
LEMMA LeasesLater ==
  ASSUME IInv, NEW s \in Nat, s >= mem.seq, NEW kept, kept \subseteq mem.leases
  PROVE  Known(s, {}, kept) /\ Alone(s, DOMAIN mem.txs, kept)
<1>1. /\ mem.seq \in Nat /\ mem.leases \subseteq Leases
      /\ Known(mem.seq, DOMAIN mem.txs, mem.leases)
      /\ Alone(mem.seq, DOMAIN mem.txs, mem.leases)
  BY OpenStore
<1>2. \A l \in kept : l.tx[2] \in Nat /\ l.tx[2] <= mem.seq
  BY <1>1, LeaseTime DEF Known
<1>3. Known(s, {}, kept)
  BY <1>1, <1>2 DEF Known
<1> QED BY <1>1, <1>3, AloneLater

LEMMA ApplyGrows ==
  ASSUME IInv, NEW id \in DOMAIN mem.txs, NEW object \in Objects, Apply(id, object)
  PROVE  \E m : Grows(m, id) /\ Queues(m, id) /\ PersistBoth(m, id)
<1> DEFINE m == [mem EXCEPT !.seq = @ + 1, !.txs[id].cur = @ \cup {object},
                                           !.txs[id].ops = @ \cup {object}]
           t == m.txs
<1>1. IsOpen(id) /\ PersistBoth(m, id)
  BY DEF Apply
<1>2. /\ IsStore(mem) /\ mem.seq \in Nat /\ mem.leases \subseteq Leases
      /\ Known(mem.seq, DOMAIN mem.txs, mem.leases)
      /\ Alone(mem.seq, DOMAIN mem.txs, mem.leases) /\ mem.txs[id] \in Txs
  BY OpenStore
<1>3. /\ DOMAIN t = DOMAIN mem.txs
      /\ \A x \in DOMAIN mem.txs \ {id} : t[x] = mem.txs[x]
      /\ t[id] = [mem.txs[id] EXCEPT !.cur = @ \cup {object}, !.ops = @ \cup {object}]
  BY <1>2 DEF IsStore
<1>4. t[id] \in Txs /\ mem.txs[id].ops \subseteq t[id].ops
  <2> DEFINE c == mem.txs[id].cur \cup {object}
             o == mem.txs[id].ops \cup {object}
  <2>1. c \in SUBSET Objects /\ o \in SUBSET Objects
    BY <1>2 DEF Txs
  <2>2. t[id] = Edited(mem.txs[id], c, o)
    BY <1>3 DEF Edited
  <2> HIDE DEF c, o, t
  <2>3. t[id] \in Txs /\ t[id].ops = o
    BY <1>2, <2>1, <2>2, TxExcept
  <2> QED BY <2>3 DEF o
<1>5. Store(m, mem.up, mem.seq + 1, t, mem.leases, mem.review)
  BY <1>2 DEF IsStore, Store
<1> HIDE DEF m, t
<1>6. mem.seq + 1 \in Nat /\ mem.seq + 1 > mem.seq /\ mem.seq + 1 >= mem.seq
  BY <1>2
<1>7. /\ Known(mem.seq + 1, {}, mem.leases)
      /\ Alone(mem.seq + 1, DOMAIN mem.txs, mem.leases)
  BY <1>6, LeasesLater
<1>8. Grows(m, id) /\ Queues(m, id)
  BY <1>1, <1>2, <1>3, <1>4, <1>5, <1>6, <1>7, EditGrows
<1> QED BY <1>1, <1>8

LEMMA RebaseGrows ==
  ASSUME IInv, NEW id \in DOMAIN mem.txs, Rebase(id)
  PROVE  \E m : Grows(m, id) /\ Queues(m, id) /\ PersistBoth(m, id)
<1> DEFINE m == [mem EXCEPT !.seq = @ + 1, !.txs[id].base = live,
                     !.txs[id].cur = live \cup (@ \ mem.txs[id].base)]
           t == m.txs
<1>1. IsOpen(id) /\ PersistBoth(m, id)
  BY DEF Rebase
<1>2. /\ IsStore(mem) /\ mem.seq \in Nat /\ mem.leases \subseteq Leases
      /\ live \subseteq Objects /\ mem.txs[id] \in Txs
  BY OpenStore
<1>3. /\ DOMAIN t = DOMAIN mem.txs
      /\ \A x \in DOMAIN mem.txs \ {id} : t[x] = mem.txs[x]
      /\ t[id] = [mem.txs[id] EXCEPT !.base = live,
                                     !.cur = live \cup (@ \ mem.txs[id].base)]
  BY <1>2 DEF IsStore
<1>4. t[id] \in Txs /\ mem.txs[id].ops \subseteq t[id].ops
  <2> DEFINE c == live \cup (mem.txs[id].cur \ mem.txs[id].base)
  <2>1. c \in SUBSET Objects /\ live \in SUBSET Objects
    BY <1>2 DEF Txs
  <2>2. t[id] = Moved(mem.txs[id], live, c)
    BY <1>3 DEF Moved
  <2> HIDE DEF c, t
  <2>3. t[id] \in Txs /\ t[id].ops = mem.txs[id].ops
    BY <1>2, <2>1, <2>2, TxExcept
  <2> QED BY <2>3
<1>5. Store(m, mem.up, mem.seq + 1, t, mem.leases, mem.review)
  BY <1>2 DEF IsStore, Store
<1> HIDE DEF m, t
<1>6. mem.seq + 1 \in Nat /\ mem.seq + 1 > mem.seq /\ mem.seq + 1 >= mem.seq
  BY <1>2
<1>7. /\ Known(mem.seq + 1, {}, mem.leases)
      /\ Alone(mem.seq + 1, DOMAIN mem.txs, mem.leases)
  BY <1>6, LeasesLater
<1>8. Grows(m, id) /\ Queues(m, id)
  BY <1>1, <1>2, <1>3, <1>4, <1>5, <1>6, <1>7, EditGrows
<1> QED BY <1>1, <1>8

LEMMA SubmitGrows ==
  ASSUME IInv, NEW id \in DOMAIN mem.txs, Submit(id)
  PROVE  \E m : Grows(m, id) /\ Queues(m, id) /\ PersistBoth(m, id)
<1> DEFINE e == [tx |-> id, base |-> mem.txs[id].base, proposed |-> mem.txs[id].cur]
           m == [mem EXCEPT !.seq = @ + 2, !.txs[id].status = "Submitted",
                            !.review = Append(@, e)]
           t == m.txs
           r == Append(mem.review, e)
<1>1. IsOpen(id) /\ PersistBoth(m, id)
  BY DEF Submit
<1>2. /\ IsStore(mem) /\ mem.seq \in Nat /\ mem.leases \subseteq Leases
      /\ mem.txs[id] \in Txs /\ id \in Ids /\ mem.review \in Seq(Entries)
  BY OpenStore
<1>3. /\ DOMAIN t = DOMAIN mem.txs
      /\ \A x \in DOMAIN mem.txs \ {id} : t[x] = mem.txs[x]
      /\ t[id] = [mem.txs[id] EXCEPT !.status = "Submitted"]
  BY <1>2 DEF IsStore
<1>4. /\ t[id] \in Txs /\ t[id].ops = mem.txs[id].ops /\ t[id].status = "Submitted"
      /\ t[id].base = mem.txs[id].base /\ t[id].cur = mem.txs[id].cur
  BY <1>2, <1>3 DEF Txs
<1>5. Store(m, mem.up, mem.seq + 2, t, mem.leases, r)
  BY <1>2 DEF IsStore, Store
<1>6. e \in Entries /\ e.tx = id /\ Holds(e, t)
  BY <1>2, <1>3, <1>4 DEF Entries, Txs, Holds
<1> HIDE DEF m, t, e
<1>7. mem.seq + 2 \in Nat /\ mem.seq + 2 > mem.seq /\ mem.seq + 2 >= mem.seq
  BY <1>2
<1>8. /\ Known(mem.seq + 2, {}, mem.leases)
      /\ Alone(mem.seq + 2, DOMAIN mem.txs, mem.leases)
  BY <1>7, LeasesLater
<1>9. Grows(m, id) /\ Queues(m, id)
  BY <1>1, <1>2, <1>3, <1>4, <1>5, <1>6, <1>7, <1>8, EditGrows
<1> QED BY <1>1, <1>9

(* The lease granted: its root is in no unexpired lease of a live holder.  *)
LEMMA GrantedAlone ==
  ASSUME IInv, NEW id \in DOMAIN mem.txs, NEW root, NEW now,
         now = mem.seq + 1, Blockers(id, root, now) = {},
         NEW kept, kept \subseteq mem.leases, NEW lease,
         lease.tx = id, lease.root = root
  PROVE  Alone(now + 1, DOMAIN mem.txs, kept \cup {lease})
<1>1. /\ mem.seq \in Nat /\ now \in Nat /\ mem.leases \subseteq Leases
  BY OpenStore
<1>2. ASSUME NEW l \in kept, l.tx # id, l.root = root, l.tx \in DOMAIN mem.txs
      PROVE  Expired(l, now + 1)
  <2>1. root \in Subtree(mem.txs[id].cur, root) \cap Subtree(mem.txs[l.tx].cur, l.root)
    BY <1>2 DEF Subtree
  <2>2. Expired(l, now)
    BY <1>2, <2>1 DEF Blockers
  <2>3. l.exp \in Nat
    BY <1>1, LeaseTime
  <2> QED BY <1>1, <2>2, <2>3 DEF Expired
<1>3. Alone(now + 1, DOMAIN mem.txs, kept)
  BY <1>1, LeasesLater
<1> QED BY <1>2, <1>3 DEF Alone

LEMMA GrantGrows ==
  ASSUME IInv, NEW id \in DOMAIN mem.txs, NEW root \in Roots, AcquireLease(id, root),
         Blockers(id, root, mem.seq + 1) = {}
  PROVE  \E m : Grows(m, id) /\ Queues(m, id) /\ PersistBoth(m, id)
<1> DEFINE now == mem.seq + 1
           lease == [tx |-> id, root |-> root, id |-> <<id, root, now>>,
                     exp |-> now + LeaseTtl]
           kept == {l \in mem.leases : l.id # mem.txs[id].lease}
           m == [mem EXCEPT !.seq = now + 1, !.leases = kept \cup {lease},
                            !.txs[id].lease = lease.id]
           t == m.txs
<1>1. IsOpen(id) /\ PersistBoth(m, id)
  BY DEF AcquireLease
<1>2. /\ IsStore(mem) /\ mem.seq \in Nat /\ mem.leases \subseteq Leases
      /\ mem.txs[id] \in Txs /\ id \in Ids /\ id[2] \in Nat /\ id[2] <= mem.seq
      /\ LeaseTtl \in Nat
  BY OpenStore, StoreAssumption
<1>3. /\ DOMAIN t = DOMAIN mem.txs
      /\ \A x \in DOMAIN mem.txs \ {id} : t[x] = mem.txs[x]
      /\ t[id] = [mem.txs[id] EXCEPT !.lease = <<id, root, now>>]
  BY <1>2 DEF IsStore
<1>4. /\ now \in Nat /\ now + 1 \in Nat /\ now + 1 > mem.seq /\ now + 1 >= mem.seq
      /\ now + LeaseTtl \in Nat
  BY <1>2
<1>5. <<id, root, now>> \in Ids \X Roots \X Nat
  BY <1>2, <1>4
<1>6. t[id] \in Txs /\ t[id].ops = mem.txs[id].ops
  BY <1>2, <1>3, <1>5 DEF Txs
<1>7. lease \in Leases /\ lease.tx = id /\ lease.root = root
  BY <1>2, <1>4, <1>5 DEF Leases
<1>8. Store(m, mem.up, now + 1, t, kept \cup {lease}, mem.review)
  BY <1>2 DEF IsStore, Store
<1>9. kept \subseteq mem.leases
  OBVIOUS
<1> HIDE DEF m, t, lease, kept
<1>10. Alone(now + 1, DOMAIN mem.txs, kept \cup {lease})
  BY <1>7, <1>9, GrantedAlone
<1> HIDE DEF now
<1>11. Known(now + 1, {}, kept \cup {lease})
  <2>1. Known(now + 1, {}, kept)
    BY <1>4, <1>9, LeasesLater
  <2> QED BY <1>2, <1>4, <1>7, <2>1 DEF Known
<1>12. Grows(m, id) /\ Queues(m, id)
  BY <1>1, <1>2, <1>3, <1>4, <1>6, <1>7, <1>8, <1>9, <1>10, <1>11, EditGrows
<1> QED BY <1>1, <1>12
-----------------------------------------------------------------------------
(* The handlers that change the clock and the leases alone.                *)
LEMMA ClockMoves ==
  ASSUME IInv, mem.up, NEW s \in Nat, s >= mem.seq, NEW leases, leases \subseteq Leases,
         Known(s, {}, leases), Alone(s, DOMAIN mem.txs, leases),
         NEW m, Store(m, mem.up, s, mem.txs, leases, mem.review),
         mem' = m, meta' \in {meta, Meta(m)}, faults' \in Nat,
         UNCHANGED <<live, files, acked, gone>>
  PROVE  IInv'
<1>1. /\ IsStore(mem) /\ mem.seq \in Nat /\ IsTxs(mem.txs) /\ mem.review \in Seq(Entries)
  BY OpenStore
<1>2. /\ m.up /\ m.seq = s /\ m.txs = mem.txs /\ m.leases = leases
      /\ m.review = mem.review
  BY DEF Store
<1>3. IsStore(m)
  BY <1>1, <1>2 DEF IsStore, Store
<1> QED BY <1>1, <1>2, <1>3, MetaPreserve

LEMMA RefusedKeeps ==
  ASSUME IInv, mem.up, mem' = [mem EXCEPT !.seq = mem.seq + 1],
         UNCHANGED <<live, meta, files, acked, faults, gone>>
  PROVE  IInv'
<1> DEFINE m == [mem EXCEPT !.seq = mem.seq + 1]
<1>1. IsStore(mem) /\ mem.seq \in Nat /\ mem.leases \subseteq Leases /\ faults \in Nat
  BY OpenStore DEF IInv, TypeOK
<1>2. Store(m, mem.up, mem.seq + 1, mem.txs, mem.leases, mem.review)
  BY <1>1 DEF IsStore, Store
<1>3. mem.seq + 1 \in Nat /\ mem.seq + 1 >= mem.seq
  BY <1>1
<1>4. Known(mem.seq + 1, {}, mem.leases) /\ Alone(mem.seq + 1, DOMAIN mem.txs, mem.leases)
  BY <1>3, LeasesLater
<1>5. mem' = m /\ meta' \in {meta, Meta(m)} /\ faults' \in Nat
  BY <1>1
<1> HIDE DEF m
<1> QED BY <1>1, <1>2, <1>3, <1>4, <1>5, ClockMoves

LEMMA MetaEffect ==
  ASSUME NEW m, PersistMeta(m), faults \in Nat
  PROVE  /\ mem' = m /\ meta' \in {meta, Meta(m)} /\ faults' \in Nat
         /\ UNCHANGED <<files, acked, gone>>
  BY DEF PersistMeta, NoFault, Fault

LEMMA AdvancePreserves ==
  ASSUME IInv, AdvanceClock
  PROVE  IInv'
<1> DEFINE m == [mem EXCEPT !.seq = @ + LeaseTtl]
<1>1. /\ IsStore(mem) /\ mem.seq \in Nat /\ mem.leases \subseteq Leases /\ faults \in Nat
      /\ LeaseTtl \in Nat
  BY OpenStore, StoreAssumption DEF IInv, TypeOK
<1>2. mem.up /\ PersistMeta(m) /\ live' = live
  BY DEF AdvanceClock
<1>3. Store(m, mem.up, mem.seq + LeaseTtl, mem.txs, mem.leases, mem.review)
  BY <1>1 DEF IsStore, Store
<1> HIDE DEF m
<1>4. mem.seq + LeaseTtl \in Nat /\ mem.seq + LeaseTtl >= mem.seq
  BY <1>1
<1>5. /\ Known(mem.seq + LeaseTtl, {}, mem.leases)
      /\ Alone(mem.seq + LeaseTtl, DOMAIN mem.txs, mem.leases)
  BY <1>4, LeasesLater
<1>6. /\ mem' = m /\ meta' \in {meta, Meta(m)} /\ faults' \in Nat
      /\ UNCHANGED <<files, acked, gone>>
  BY <1>1, <1>2, MetaEffect
<1> QED BY <1>1, <1>2, <1>3, <1>4, <1>5, <1>6, ClockMoves

(* A lease renewed while it runs: the others of its root had run out.      *)
LEMMA RenewedAlone ==
  ASSUME IInv, NEW lease \in mem.leases, ~Expired(lease, mem.seq + 1),
         NEW next, next.tx = lease.tx, next.root = lease.root
  PROVE  Alone(mem.seq + 2, DOMAIN mem.txs, (mem.leases \ {lease}) \cup {next})
<1> DEFINE kept == mem.leases \ {lease}
<1>1. /\ mem.seq \in Nat /\ mem.seq + 2 \in Nat /\ mem.seq + 2 >= mem.seq
      /\ mem.leases \subseteq Leases
      /\ Alone(mem.seq, DOMAIN mem.txs, mem.leases)
      /\ \A l \in mem.leases : l.exp \in Nat
  BY OpenStore, LeaseTime
<1>2. Alone(mem.seq + 2, DOMAIN mem.txs, kept)
  BY <1>1, LeasesLater
<1>3. ~Expired(lease, mem.seq)
  BY <1>1 DEF Expired
<1>4. ASSUME NEW l \in kept, l.tx # lease.tx, l.root = lease.root,
             l.tx \in DOMAIN mem.txs, lease.tx \in DOMAIN mem.txs
      PROVE  Expired(l, mem.seq + 2)
  <2>1. Expired(l, mem.seq)
    BY <1>1, <1>3, <1>4 DEF Alone
  <2> QED BY <1>1, <2>1 DEF Expired
<1> HIDE DEF kept
<1>5. Alone(mem.seq + 2, DOMAIN mem.txs, kept \cup {next})
  BY <1>2, <1>4 DEF Alone
<1> QED BY <1>5 DEF kept

LEMMA RenewPreserves ==
  ASSUME IInv, NEW id \in DOMAIN mem.txs, NEW lease \in mem.leases, RenewLease(id, lease)
  PROVE  IInv'
<1>1. /\ IsStore(mem) /\ mem.seq \in Nat /\ mem.leases \subseteq Leases /\ faults \in Nat
      /\ LeaseTtl \in Nat /\ lease \in Leases
  BY OpenStore, StoreAssumption DEF IInv, TypeOK
<1>2. mem.up /\ live' = live
  BY DEF RenewLease, IsOpen
<1>3. mem.seq + 2 \in Nat /\ mem.seq + 2 >= mem.seq /\ mem.seq + 1 + 1 = mem.seq + 2
  BY <1>1
<1>4. CASE /\ mem' = [mem EXCEPT !.seq = mem.seq + 1]
           /\ UNCHANGED <<meta, files, acked, faults, gone>>
  BY <1>2, <1>4, RefusedKeeps
<1>5. CASE PersistMeta([mem EXCEPT !.seq = mem.seq + 1 + 1])
  <2> DEFINE m == [mem EXCEPT !.seq = mem.seq + 1 + 1]
  <2>1. Store(m, mem.up, mem.seq + 2, mem.txs, mem.leases, mem.review)
    BY <1>1, <1>3 DEF IsStore, Store
  <2>2. PersistMeta(m)
    BY <1>5
  <2> HIDE DEF m
  <2>3. Known(mem.seq + 2, {}, mem.leases) /\ Alone(mem.seq + 2, DOMAIN mem.txs, mem.leases)
    BY <1>3, LeasesLater
  <2>4. /\ mem' = m /\ meta' \in {meta, Meta(m)} /\ faults' \in Nat
        /\ UNCHANGED <<files, acked, gone>>
    BY <1>1, <2>2, MetaEffect
  <2> QED BY <1>1, <1>2, <1>3, <2>1, <2>3, <2>4, ClockMoves
<1>6. CASE /\ lease.tx = id /\ ~Expired(lease, mem.seq + 1)
           /\ PersistMeta([mem EXCEPT !.seq = mem.seq + 1 + 1, !.leases =
                (@ \ {lease}) \cup {[lease EXCEPT !.exp = mem.seq + 1 + LeaseTtl]}])
  <2> DEFINE next == [lease EXCEPT !.exp = mem.seq + 1 + LeaseTtl]
             leases == (mem.leases \ {lease}) \cup {next}
             m == [mem EXCEPT !.seq = mem.seq + 1 + 1, !.leases =
                (@ \ {lease}) \cup {[lease EXCEPT !.exp = mem.seq + 1 + LeaseTtl]}]
  <2>1. mem.seq + 1 + LeaseTtl \in Nat
    BY <1>1
  <2>2. next \in Leases /\ next.tx = lease.tx /\ next.root = lease.root
    BY <1>1, <2>1 DEF Leases
  <2>3. Store(m, mem.up, mem.seq + 2, mem.txs, leases, mem.review)
    BY <1>1, <1>3 DEF IsStore, Store
  <2>4. PersistMeta(m)
    BY <1>6
  <2> HIDE DEF m, next
  <2>5. leases \subseteq Leases
    BY <1>1, <2>2
  <2>6. Alone(mem.seq + 2, DOMAIN mem.txs, leases)
    BY <1>6, <2>2, RenewedAlone
  <2>7. Known(mem.seq + 2, {}, leases)
    <3>1. Known(mem.seq + 2, {}, mem.leases)
      BY <1>3, LeasesLater
    <3> QED BY <2>2, <3>1 DEF Known
  <2> HIDE DEF leases
  <2>8. /\ mem' = m /\ meta' \in {meta, Meta(m)} /\ faults' \in Nat
        /\ UNCHANGED <<files, acked, gone>>
    BY <1>1, <2>4, MetaEffect
  <2> QED BY <1>1, <1>2, <1>3, <2>3, <2>5, <2>6, <2>7, <2>8, ClockMoves
<1> QED BY <1>4, <1>5, <1>6 DEF RenewLease

LEMMA AcquirePreserves ==
  ASSUME IInv, NEW id \in DOMAIN mem.txs, NEW root \in Roots, AcquireLease(id, root)
  PROVE  IInv'
<1>1. mem.up /\ UNCHANGED <<live, gone>>
  BY DEF AcquireLease, IsOpen
<1>2. CASE Blockers(id, root, mem.seq + 1) = {}
  BY <1>1, <1>2, GrantGrows, BothPreserve
<1>3. CASE Blockers(id, root, mem.seq + 1) # {}
  <2>1. /\ mem' = [mem EXCEPT !.seq = mem.seq + 1]
        /\ UNCHANGED <<meta, files, acked, faults>>
    BY <1>3 DEF AcquireLease
  <2> QED BY <1>1, <2>1, RefusedKeeps
<1> QED BY <1>2, <1>3
-----------------------------------------------------------------------------
(* Cancel, and the store that opens, closes and dies.                      *)

(* Memory without a transaction and its leases is still in order.          *)
LEMMA WithoutTx ==
  ASSUME IInv, NEW id, NEW s \in Nat, s >= mem.seq, NEW t, NEW leases, NEW m,
         t = Drop(mem.txs, id), leases \subseteq mem.leases,
         Store(m, mem.up, s, t, leases, mem.review)
  PROVE  /\ IsStore(m) /\ DOMAIN m.txs = DOMAIN mem.txs \ {id}
         /\ \A x \in DOMAIN m.txs : m.txs[x] = mem.txs[x]
         /\ Known(m.seq, DOMAIN m.txs, m.leases) /\ Alone(m.seq, DOMAIN m.txs, m.leases)
<1>1. /\ IsStore(mem) /\ mem.seq \in Nat /\ IsTxs(mem.txs) /\ mem.leases \subseteq Leases
      /\ Known(mem.seq, DOMAIN mem.txs, mem.leases)
      /\ Alone(mem.seq, DOMAIN mem.txs, mem.leases)
      /\ \A x \in DOMAIN mem.txs : x[2] <= mem.seq /\ x[2] \in Nat
  BY OpenStore
<1>2. DOMAIN t = DOMAIN mem.txs \ {id} /\ \A x \in DOMAIN t : t[x] = mem.txs[x]
  BY DEF Drop
<1>3. /\ m.up = mem.up /\ m.seq = s /\ m.txs = t /\ m.leases = leases
      /\ m.review = mem.review
  BY DEF Store
<1>4. IsTxs(t)
  BY <1>1, <1>2 DEF IsTxs
<1>5. IsStore(m)
  BY <1>1, <1>3, <1>4 DEF IsStore, Store
<1>6. Known(s, {}, leases) /\ Alone(s, DOMAIN mem.txs, leases)
  BY LeasesLater
<1>7. Known(s, DOMAIN t, leases)
  BY <1>1, <1>2, <1>6 DEF Known
<1>8. Alone(s, DOMAIN t, leases)
  BY <1>2, <1>6 DEF Alone
<1> QED BY <1>2, <1>3, <1>5, <1>7, <1>8

LEMMA CancelPreserves ==
  ASSUME IInv, NEW id \in DOMAIN mem.txs, Cancel(id)
  PROVE  IInv'
<1> DEFINE t == Drop(mem.txs, id)
           leases == {l \in mem.leases : l.tx # id}
           dropped == [mem EXCEPT !.txs = Drop(@, id), !.leases = {l \in @ : l.tx # id}]
           m == [dropped EXCEPT !.seq = @ + 1]
           left == Drop(files, id)
<1>0. /\ IsStore(mem) /\ IsMeta(meta) /\ IsTxs(files) /\ mem.seq \in Nat
      /\ meta.seq \in Nat /\ meta.seq <= mem.seq /\ faults \in Nat
      /\ gone \subseteq Ids /\ id \in Ids /\ id[2] <= mem.seq /\ id[2] \in Nat
      /\ live \subseteq Objects
      /\ mem.up /\ acked' = Drop(acked, id) /\ live' = live
  <2>1. mem.up /\ acked' = Drop(acked, id) /\ live' = live
    BY DEF Cancel
  <2>2. mem.up => meta.seq <= mem.seq
    BY DEF IInv, Clock
  <2> QED BY <2>1, <2>2, OpenStore DEF IInv, TypeOK, IsMeta
<1>1. /\ \/ /\ NoFault /\ mem' = m /\ meta' = Meta(m) /\ files' = left
            /\ gone' = gone \cup {id}
         \/ /\ Fault("crash") /\ mem' = Down /\ files' = left
            /\ UNCHANGED <<meta, gone>>
         \/ /\ Fault("io")
            /\ \/ mem' = dropped /\ UNCHANGED files
               \/ mem' = m /\ files' = left
            /\ UNCHANGED <<meta, gone>>
  BY DEF Cancel
<1>2. /\ Store(dropped, mem.up, mem.seq, t, leases, mem.review)
      /\ Store(m, mem.up, mem.seq + 1, t, leases, mem.review)
  BY <1>0 DEF IsStore, Store
<1>3. leases \subseteq mem.leases
  OBVIOUS
<1> HIDE DEF t, leases, dropped, m, left
<1>4. ASSUME NEW n \in {dropped, m}
      PROVE  /\ IsStore(n) /\ DOMAIN n.txs = DOMAIN mem.txs \ {id} /\ n.up
             /\ n.seq >= mem.seq /\ n.seq \in Nat
             /\ \A x \in DOMAIN n.txs : n.txs[x] = mem.txs[x]
             /\ Known(n.seq, DOMAIN n.txs, n.leases)
             /\ Alone(n.seq, DOMAIN n.txs, n.leases)
  <2>1. PICK s \in Nat : s >= mem.seq /\ Store(n, mem.up, s, t, leases, mem.review)
    <3>1. CASE n = dropped
      <4>1. mem.seq \in Nat /\ mem.seq >= mem.seq
        BY <1>0
      <4> QED BY <1>2, <3>1, <4>1
    <3>2. CASE n = m
      <4>1. mem.seq + 1 \in Nat /\ mem.seq + 1 >= mem.seq
        BY <1>0
      <4> QED BY <1>2, <3>2, <4>1
    <3> QED BY <3>1, <3>2
  <2>2. t = Drop(mem.txs, id)
    BY DEF t
  <2>3. n.seq = s /\ n.up
    BY <1>0, <2>1 DEF Store
  <2> QED BY <1>3, <2>1, <2>2, <2>3, WithoutTx
<1>5. /\ IsTxs(left) /\ DOMAIN left = DOMAIN files \ {id}
      /\ \A x \in DOMAIN files \ {id} : left[x] = files[x]
  <2>1. DOMAIN left = DOMAIN files \ {id} /\ \A x \in DOMAIN left : left[x] = files[x]
    BY DEF left, Drop
  <2> QED BY <1>0, <2>1 DEF IsTxs
<1>6. /\ DOMAIN acked' = DOMAIN acked \ {id}
      /\ \A x \in DOMAIN acked' : acked'[x] = acked[x]
  BY <1>0 DEF Drop
<1>7. /\ IsMeta(Meta(m)) /\ Meta(m).txs = DOMAIN mem.txs \ {id}
      /\ Meta(m).seq = m.seq /\ Meta(m).leases = m.leases
  BY <1>4, StoreFields
<1>8. CASE /\ NoFault /\ mem' = m /\ meta' = Meta(m) /\ files' = left
           /\ gone' = gone \cup {id}
  <2>1. TypeOK'
    BY <1>0, <1>4, <1>5, <1>7, <1>8 DEF TypeOK, NoFault
  <2>2. \A x \in gone' : x[2] <= m.seq
    BY <1>0, <1>4, <1>8, IdTime DEF IInv, Clock
  <2>3. Clock'
    <3>1. Known(mem.seq, DOMAIN mem.txs, mem.leases)'
      BY <1>4, <1>8
    <3>2. Known(meta.seq, meta.txs, meta.leases)'
      <4>1. Known(m.seq, DOMAIN m.txs, m.leases) /\ DOMAIN m.txs = Meta(m).txs
        BY <1>4, <1>7
      <4> QED BY <1>7, <1>8, <4>1 DEF Known
    <3>3. meta'.seq <= mem'.seq
      BY <1>4, <1>7, <1>8
    <3>4. \A x \in gone' : x[2] <= meta'.seq
      BY <1>7, <1>8, <2>2
    <3> QED BY <3>1, <3>2, <3>3, <3>4 DEF Clock
  <2>4. Holders'
    BY <1>4, <1>7, <1>8 DEF Holders
  <2>5. Backed'
    BY <1>0, <1>4, <1>5, <1>6, <1>7, <1>8 DEF IInv, Backed
  <2> QED BY <2>1, <2>3, <2>4, <2>5 DEF IInv
<1>9. CASE Fault("crash") /\ mem' = Down /\ files' = left /\ UNCHANGED <<meta, gone>>
  <2>1. TypeOK'
    BY <1>0, <1>5, <1>9, DownStore DEF TypeOK, Fault
  <2>2. Clock' /\ Holders'
    BY <1>9, DownStore DEF IInv, Clock, Known, Holders, Alone
  <2>3. Backed'
    BY <1>5, <1>6, <1>9, DownStore DEF IInv, Backed
  <2> QED BY <2>1, <2>2, <2>3 DEF IInv
<1>10. CASE /\ Fault("io") /\ mem' \in {dropped, m} /\ files' \in {files, left}
            /\ UNCHANGED <<meta, gone>>
  <2>1. TypeOK'
    BY <1>0, <1>4, <1>5, <1>10 DEF TypeOK, Fault
  <2>2. Clock'
    BY <1>0, <1>4, <1>10 DEF IInv, Clock
  <2>3. Holders'
    BY <1>4, <1>10 DEF IInv, Holders
  <2>4. Backed'
    BY <1>0, <1>4, <1>5, <1>6, <1>10 DEF IInv, Backed
  <2> QED BY <2>1, <2>2, <2>3, <2>4 DEF IInv
<1> QED BY <1>1, <1>8, <1>9, <1>10

LEMMA OpenPreserves ==
  ASSUME IInv, Open
  PROVE  IInv'
<1> DEFINE t == [id \in meta.txs \cap DOMAIN files |-> files[id]]
<1>1. /\ IsMeta(meta) /\ IsTxs(files) /\ meta.seq \in Nat /\ TypeOK
      /\ UNCHANGED <<live, meta, files, acked, faults, gone>>
      /\ mem' = [up |-> TRUE, seq |-> meta.seq, leases |-> meta.leases,
                 review |-> meta.review, txs |-> t]
  BY DEF Open, IInv, TypeOK, IsMeta
<1>2. /\ DOMAIN t = meta.txs \cap DOMAIN files
      /\ \A id \in DOMAIN t : t[id] = files[id]
  OBVIOUS
<1>3. IsTxs(t)
  BY <1>1 DEF IsTxs
<1> HIDE DEF t
<1>4. /\ IsStore(mem') /\ mem'.up /\ mem'.seq = meta.seq /\ mem'.leases = meta.leases
      /\ mem'.txs = t
  BY <1>1, <1>3 DEF IsStore, IsMeta
<1>5. TypeOK'
  BY <1>1, <1>4 DEF TypeOK
<1>6. Clock'
  BY <1>1, <1>2, <1>4 DEF IInv, Clock, Known
<1>7. Holders'
  BY <1>1, <1>2, <1>4 DEF IInv, Holders, Alone
<1>8. Backed'
  BY <1>1, <1>2, <1>4 DEF IInv, Backed
<1> QED BY <1>5, <1>6, <1>7, <1>8 DEF IInv

LEMMA ClosePreserves ==
  ASSUME IInv, Close
  PROVE  IInv'
<1>1. /\ mem.up /\ mem' = Down /\ meta' = Meta(mem)
      /\ UNCHANGED <<live, files, acked, faults, gone>>
  BY DEF Close
<1>2. /\ IsMeta(Meta(mem)) /\ Meta(mem).txs = DOMAIN mem.txs
      /\ Meta(mem).seq = mem.seq /\ Meta(mem).leases = mem.leases
      /\ mem.seq \in Nat /\ meta.seq \in Nat /\ gone \subseteq Ids
  BY StoreFields DEF IInv, TypeOK, IsStore, IsMeta
<1>3. TypeOK'
  BY <1>1, <1>2, DownStore DEF IInv, TypeOK
<1>4. \A x \in gone : x[2] <= mem.seq
  BY <1>1, <1>2, IdTime DEF IInv, Clock
<1>5. Clock' /\ Holders'
  BY <1>1, <1>2, <1>4, DownStore DEF IInv, Clock, Known, Holders, Alone
<1>6. Backed'
  BY <1>1, <1>2, DownStore DEF IInv, Backed
<1> QED BY <1>3, <1>5, <1>6 DEF IInv

THEOREM Preserved == IInv /\ [Next]_vars => IInv'
<1> SUFFICES ASSUME IInv, [Next]_vars PROVE IInv'
  OBVIOUS
<1>1. CASE UNCHANGED vars
  BY <1>1 DEF vars, IInv, TypeOK, Clock, Holders, Backed
<1>2. CASE Crash
  <2>1. /\ mem' = Down /\ faults' \in Nat /\ UNCHANGED <<live, meta, files, acked, gone>>
    BY <1>2 DEF Crash, Fault, IInv, TypeOK
  <2> QED BY <2>1, DownStore
        DEF IInv, TypeOK, Clock, Known, Holders, Alone, Backed
<1>3. CASE Create
  BY <1>3, CreateGrows, BothPreserve DEF Create
<1>4. CASE \E o \in Objects : LiveMoves(o)
  BY <1>4 DEF LiveMoves, IInv, TypeOK, Clock, Holders, Backed
<1>5. ASSUME NEW id \in DOMAIN mem.txs,
             \/ Rebase(id) \/ Submit(id)
             \/ \E o \in Objects : Apply(id, o)
      PROVE  IInv'
  <2>1. \E m : Grows(m, id) /\ PersistBoth(m, id)
    BY <1>5, RebaseGrows, SubmitGrows, ApplyGrows
  <2>2. UNCHANGED <<live, gone>>
    BY <1>5 DEF Rebase, Submit, Apply
  <2> QED BY <2>1, <2>2, BothPreserve
<1>6. ASSUME NEW id \in DOMAIN mem.txs,
             \/ Cancel(id)
             \/ \E r \in Roots : AcquireLease(id, r)
             \/ \E l \in mem.leases : RenewLease(id, l)
      PROVE  IInv'
  BY <1>6, CancelPreserves, AcquirePreserves, RenewPreserves
<1> QED BY <1>1, <1>2, <1>3, <1>4, <1>5, <1>6, OpenPreserves, ClosePreserves,
           AdvancePreserves DEF Next

(* Two live transactions never hold the same root, for any lease time and  *)
(* whatever is killed, fails to be written or is opened again.             *)
THEOREM SpecOneHolder == Spec => []OneHolder
<1>1. IInv => OneHolder
  BY DEF IInv, Holders, Alone, OneHolder
<1> QED BY <1>1, Initial, Preserved, PTL DEF Spec

(* What was answered Ok is there after every later kill, failed write and  *)
(* restart, and what was cancelled does not come back.                     *)
THEOREM SpecDurable == Spec => []Durable
<1>1. IInv => Durable
  BY DEF IInv, Backed, Durable
<1> QED BY <1>1, Initial, Preserved, PTL DEF Spec
-----------------------------------------------------------------------------
(* Without failed writes: the queue.                                       *)

(* An open or a new transaction has no entry.                              *)
LEMMA NotQueued ==
  ASSUME Frozen, mem.up, NEW id,
         id \in DOMAIN mem.txs => mem.txs[id].status # "Submitted"
  PROVE  \A i \in DOMAIN mem.review : mem.review[i].tx # id
  BY DEF Frozen, Holds

LEMMA BothFreeze ==
  ASSUME IInv, Frozen, NEW m, NEW id, Grows(m, id), Queues(m, id), PersistBoth(m, id),
         faults' > faults => ~mem'.up
  PROVE  Frozen'
<1> DEFINE filed == Put(files, id, m.txs[id])
<1>0. /\ mem.up /\ m.up /\ faults \in Nat /\ meta.review = mem.review
      /\ IsStore(m) /\ mem.review \in Seq(Entries)
      /\ \A i \in DOMAIN mem.review :
           /\ Holds(mem.review[i], mem.txs) /\ Holds(mem.review[i], files)
           /\ mem.review[i].tx \in meta.txs
  BY OpenStore DEF IInv, TypeOK, Grows, Frozen
<1>1. \A i \in DOMAIN mem.review : mem.review[i].tx # id
  <2>1. id \in DOMAIN mem.txs => mem.txs[id].status # "Submitted"
    BY DEF Grows
  <2> QED BY <1>0, <2>1, NotQueued
<1>2. /\ DOMAIN filed = DOMAIN files \union {id} /\ filed[id] = m.txs[id]
      /\ \A x \in DOMAIN files \ {id} : filed[x] = files[x]
  BY DEF Put
<1> HIDE DEF filed
<1>3. \A i \in DOMAIN mem.review : Holds(mem.review[i], m.txs) /\ Holds(mem.review[i], filed)
  BY <1>0, <1>1, <1>2 DEF Holds, Grows
<1>4. \A i \in DOMAIN m.review : Holds(m.review[i], m.txs) /\ Holds(m.review[i], filed)
  <2>1. CASE m.review = mem.review
    BY <1>3, <2>1
  <2>2. ASSUME NEW e \in Entries, m.review = Append(mem.review, e), e.tx = id,
               Holds(e, m.txs)
        PROVE  \A i \in DOMAIN m.review :
                 Holds(m.review[i], m.txs) /\ Holds(m.review[i], filed)
    <3>1. Holds(e, filed)
      BY <1>2, <2>2 DEF Holds
    <3>2. \A i \in DOMAIN m.review :
            m.review[i] = e \/ (i \in DOMAIN mem.review /\ m.review[i] = mem.review[i])
      BY <1>0, <2>2
    <3> QED BY <1>3, <2>2, <3>1, <3>2
  <2> QED BY <2>1, <2>2 DEF Queues
<1>5. CASE NoFault /\ mem' = m /\ files' = filed /\ meta' = Meta(m)
  <2>1. meta'.txs = DOMAIN m.txs /\ meta'.review = m.review
    BY <1>0, <1>5, StoreFields
  <2>2. \A i \in DOMAIN m.review : m.review[i].tx \in DOMAIN m.txs
    BY <1>4 DEF Holds
  <2> QED BY <1>4, <1>5, <2>1, <2>2 DEF Frozen
<1>6. CASE mem' = Down /\ files' = filed /\ UNCHANGED meta
  BY <1>0, <1>3, <1>6, DownStore DEF Frozen
<1>7. ~(Fault("io") /\ mem' = m)
  BY <1>0 DEF Fault
<1> QED BY <1>5, <1>6, <1>7 DEF PersistBoth, filed

(* A handler that moves the clock keeps the transactions and the queue.    *)
LEMMA ClockFreezes ==
  ASSUME IInv, Frozen, mem.up, mem'.txs = mem.txs, mem'.review = mem.review,
         meta' \in {meta, Meta(mem')}, UNCHANGED files
  PROVE  Frozen'
<1>1. Meta(mem').txs = DOMAIN mem'.txs /\ Meta(mem').review = mem'.review
  BY DEF Meta
<1>2. /\ meta.review = mem.review
      /\ \A i \in DOMAIN mem.review :
           /\ Holds(mem.review[i], mem.txs) /\ Holds(mem.review[i], files)
           /\ mem.review[i].tx \in meta.txs /\ mem.review[i].tx \in DOMAIN mem.txs
  BY DEF Frozen, Holds
<1> QED BY <1>1, <1>2 DEF Frozen

LEMMA CancelFreezes ==
  ASSUME IInv, Frozen, NEW id \in DOMAIN mem.txs, Cancel(id),
         faults' > faults => ~mem'.up
  PROVE  Frozen'
<1> DEFINE t == Drop(mem.txs, id)
           leases == {l \in mem.leases : l.tx # id}
           dropped == [mem EXCEPT !.txs = Drop(@, id), !.leases = {l \in @ : l.tx # id}]
           m == [dropped EXCEPT !.seq = @ + 1]
           left == Drop(files, id)
<1>0. /\ mem.up /\ IsStore(mem) /\ mem.seq \in Nat /\ faults \in Nat
      /\ meta.review = mem.review
      /\ \A i \in DOMAIN mem.review :
           /\ Holds(mem.review[i], mem.txs) /\ Holds(mem.review[i], files)
           /\ mem.review[i].tx \in meta.txs
  BY OpenStore DEF Cancel, IInv, TypeOK, Frozen
<1>1. \/ mem' = m /\ meta' = Meta(m) /\ files' = left
      \/ mem' = Down /\ files' = left /\ UNCHANGED meta
      \/ Fault("io") /\ mem' \in {dropped, m}
  BY DEF Cancel
<1>2. /\ Store(dropped, mem.up, mem.seq, t, leases, mem.review)
      /\ Store(m, mem.up, mem.seq + 1, t, leases, mem.review)
  BY <1>0 DEF IsStore, Store
<1>3. \A i \in DOMAIN mem.review : mem.review[i].tx # id
  BY <1>0, NotQueued DEF Cancel
<1>4. /\ DOMAIN t = DOMAIN mem.txs \ {id} /\ \A x \in DOMAIN t : t[x] = mem.txs[x]
      /\ DOMAIN left = DOMAIN files \ {id} /\ \A x \in DOMAIN left : left[x] = files[x]
  BY DEF Drop
<1>5. Meta(m).txs = DOMAIN m.txs /\ Meta(m).review = m.review
  BY DEF Meta
<1> HIDE DEF t, leases, dropped, m, left
<1>6. \A i \in DOMAIN mem.review :
        /\ Holds(mem.review[i], t) /\ Holds(mem.review[i], left)
        /\ mem.review[i].tx \in DOMAIN t
  BY <1>0, <1>3, <1>4 DEF Holds
<1>7. /\ m.txs = t /\ m.review = mem.review /\ m.up /\ dropped.up
  BY <1>0, <1>2 DEF Store
<1>8. CASE mem' = m /\ meta' = Meta(m) /\ files' = left
  BY <1>5, <1>6, <1>7, <1>8 DEF Frozen
<1>9. CASE mem' = Down /\ files' = left /\ UNCHANGED meta
  BY <1>0, <1>6, <1>9, DownStore DEF Frozen
<1>10. ~(Fault("io") /\ mem' \in {dropped, m})
  BY <1>0, <1>7 DEF Fault
<1> QED BY <1>1, <1>8, <1>9, <1>10

LEMMA OpenFreezes ==
  ASSUME IInv, Frozen, Open
  PROVE  Frozen'
<1> DEFINE t == [id \in meta.txs \cap DOMAIN files |-> files[id]]
<1>1. mem'.review = meta.review /\ mem'.txs = t /\ UNCHANGED <<meta, files>>
  BY DEF Open
<1>2. /\ DOMAIN t = meta.txs \cap DOMAIN files
      /\ \A id \in DOMAIN t : t[id] = files[id]
  OBVIOUS
<1> HIDE DEF t
<1>3. \A i \in DOMAIN meta.review :
        meta.review[i].tx \in meta.txs /\ Holds(meta.review[i], files)
  BY DEF Frozen
<1>4. \A i \in DOMAIN meta.review : Holds(meta.review[i], t)
  BY <1>2, <1>3 DEF Holds
<1> QED BY <1>1, <1>3, <1>4 DEF Frozen

LEMMA CloseFreezes ==
  ASSUME IInv, Frozen, Close
  PROVE  Frozen'
<1>1. mem.up /\ mem' = Down /\ meta' = Meta(mem) /\ UNCHANGED files
  BY DEF Close
<1>2. Meta(mem).txs = DOMAIN mem.txs /\ Meta(mem).review = mem.review
  BY DEF Meta
<1>3. \A i \in DOMAIN mem.review :
        mem.review[i].tx \in DOMAIN mem.txs /\ Holds(mem.review[i], files)
  BY <1>1 DEF Frozen, Holds
<1> QED BY <1>1, <1>2, <1>3, DownStore DEF Frozen

LEMMA MetaFreezes ==
  ASSUME IInv, Frozen, mem.up, NEW m, m.txs = mem.txs, m.review = mem.review,
         PersistMeta(m)
  PROVE  Frozen'
  BY ClockFreezes DEF PersistMeta

LEMMA RefusedFreezes ==
  ASSUME IInv, Frozen, mem.up, mem' = [mem EXCEPT !.seq = mem.seq + 1],
         UNCHANGED <<meta, files>>
  PROVE  Frozen'
<1>1. mem'.txs = mem.txs /\ mem'.review = mem.review
  BY DEF IInv, TypeOK, IsStore
<1> QED BY <1>1, ClockFreezes

LEMMA RenewFreezes ==
  ASSUME IInv, Frozen, NEW id \in DOMAIN mem.txs, NEW lease \in mem.leases,
         RenewLease(id, lease)
  PROVE  Frozen'
<1> DEFINE refused == [mem EXCEPT !.seq = mem.seq + 1 + 1]
           renewed == [mem EXCEPT !.seq = mem.seq + 1 + 1, !.leases =
                (@ \ {lease}) \cup {[lease EXCEPT !.exp = mem.seq + 1 + LeaseTtl]}]
<1>1. /\ mem.up
      /\ \/ mem' = [mem EXCEPT !.seq = mem.seq + 1] /\ UNCHANGED <<meta, files>>
         \/ PersistMeta(refused)
         \/ PersistMeta(renewed)
  BY DEF RenewLease, IsOpen
<1>2. /\ refused.txs = mem.txs /\ refused.review = mem.review
      /\ renewed.txs = mem.txs /\ renewed.review = mem.review
  BY DEF IInv, TypeOK, IsStore
<1> HIDE DEF refused, renewed
<1> QED BY <1>1, <1>2, RefusedFreezes, MetaFreezes

LEMMA AdvanceFreezes ==
  ASSUME IInv, Frozen, AdvanceClock
  PROVE  Frozen'
<1> DEFINE m == [mem EXCEPT !.seq = @ + LeaseTtl]
<1>1. mem.up /\ PersistMeta(m)
  BY DEF AdvanceClock
<1>2. m.txs = mem.txs /\ m.review = mem.review
  BY DEF IInv, TypeOK, IsStore
<1> HIDE DEF m
<1> QED BY <1>1, <1>2, MetaFreezes

LEMMA AcquireFreezes ==
  ASSUME IInv, Frozen, NEW id \in DOMAIN mem.txs, NEW root \in Roots,
         AcquireLease(id, root), faults' > faults => ~mem'.up
  PROVE  Frozen'
<1>1. mem.up
  BY DEF AcquireLease, IsOpen
<1>2. CASE Blockers(id, root, mem.seq + 1) = {}
  BY <1>2, GrantGrows, BothFreeze
<1>3. CASE Blockers(id, root, mem.seq + 1) # {}
  <2>1. /\ mem' = [mem EXCEPT !.seq = mem.seq + 1] /\ UNCHANGED <<meta, files>>
    BY <1>3 DEF AcquireLease
  <2> QED BY <1>1, <2>1, RefusedFreezes
<1> QED BY <1>2, <1>3

(* A step in which no write fails.                                         *)
THEOREM FrozenPreserved ==
  IInv /\ Frozen /\ [Next]_vars /\ (faults' > faults => ~mem'.up) => Frozen'
<1> SUFFICES ASSUME IInv, Frozen, [Next]_vars, faults' > faults => ~mem'.up
             PROVE  Frozen'
  OBVIOUS
<1>1. CASE UNCHANGED vars
  BY <1>1 DEF vars, Frozen
<1>2. CASE Crash
  BY <1>2, DownStore DEF Crash, Frozen
<1>3. CASE Create
  BY <1>3, CreateGrows, BothFreeze
<1>4. CASE \E o \in Objects : LiveMoves(o)
  BY <1>4 DEF LiveMoves, Frozen
<1>5. ASSUME NEW id \in DOMAIN mem.txs,
             Rebase(id) \/ Submit(id) \/ \E o \in Objects : Apply(id, o)
      PROVE  Frozen'
  BY <1>5, RebaseGrows, SubmitGrows, ApplyGrows, BothFreeze
<1>6. ASSUME NEW id \in DOMAIN mem.txs,
             \/ Cancel(id)
             \/ \E r \in Roots : AcquireLease(id, r)
             \/ \E l \in mem.leases : RenewLease(id, l)
      PROVE  Frozen'
  BY <1>6, CancelFreezes, AcquireFreezes, RenewFreezes
<1> QED BY <1>1, <1>2, <1>3, <1>4, <1>5, <1>6, OpenFreezes, CloseFreezes,
           AdvanceFreezes DEF Next

(* The steps of the two mixes are steps of the store, and the first of     *)
(* them has no failed write.                                               *)
LEMMA MixStep ==
  ASSUME IInv, mix \in Mixes, [MixNext]_<<vars, mix>>
  PROVE  /\ [Next]_vars /\ mix' = mix
         /\ ~mix.io => (faults' > faults => ~mem'.up)
<1>1. CASE UNCHANGED <<vars, mix>>
  BY <1>1 DEF vars, IInv, TypeOK
<1>2. CASE MixNext
  <2>1. mix.objects \subseteq Objects /\ mix.roots \subseteq Roots
    BY DEF Mixes
  <2>2. mix' = mix /\ (~mix.io => (faults' > faults => ~mem'.up))
    BY <1>2 DEF MixNext
  <2>3. Next
    BY <1>2, <2>1 DEF MixNext, Next
  <2> QED BY <2>2, <2>3
<1> QED BY <1>1, <1>2

(* The review queue proposes exactly what its transactions hold, across    *)
(* every kill between two writes and every restart, when no write fails.   *)
THEOREM SpecQueueFrozen == MixSpec => []QueueFrozen
<1> DEFINE I == IInv /\ mix \in Mixes /\ MixFrozen
<1>1. MixInit => I
  <2> SUFFICES ASSUME MixInit PROVE I
    OBVIOUS
  <2>1. IInv /\ mix \in Mixes
    BY Initial DEF MixInit
  <2>2. DOMAIN mem.review = {} /\ meta.review = mem.review
    BY DEF MixInit, Init, Down, Meta
  <2> QED BY <2>1, <2>2 DEF MixFrozen, Frozen
<1>2. I /\ [MixNext]_<<vars, mix>> => I'
  <2> SUFFICES ASSUME I, [MixNext]_<<vars, mix>> PROVE I'
    OBVIOUS
  <2>1. /\ [Next]_vars /\ mix' = mix
        /\ ~mix.io => (faults' > faults => ~mem'.up)
    BY MixStep
  <2>2. IInv' /\ mix' \in Mixes
    BY <2>1, Preserved
  <2>3. MixFrozen'
    BY <2>1, FrozenPreserved DEF MixFrozen
  <2> QED BY <2>2, <2>3
<1>3. I => QueueFrozen
  BY DEF MixFrozen, Frozen, Holds, QueueFrozen, ReviewFrozen
<1> QED BY <1>1, <1>2, <1>3, PTL DEF MixSpec
=============================================================================
