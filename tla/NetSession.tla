----------------------------- MODULE NetSession -----------------------------
(***************************************************************************)
(* klotho-net: the session of the dedicated server and the client on its   *)
(* Wire.  The client says Hello, follows the Trace by folding deltas into  *)
(* a prefix, sends signed intents of which the server keeps the latest,    *)
(* and joins again after the server installed a Canon epoch.               *)
(*                                                                         *)
(* A Trace prefix (a hash chain) is the sequence of events folded into it; *)
(* an intent is its number and the epoch it was sent in; the build stamp,  *)
(* keys and signatures always match.  Poses are in PoseStream.             *)
(***************************************************************************)
EXTENDS Integers, Sequences, FiniteSets

CONSTANTS
    Skips,      \* by how much set_interest advances the generation
    MaxTick,    \* bound: ticks
    MaxIntents, \* bound: intents the client sends
    MaxEpoch,   \* bound: epochs
    MaxSets     \* bound: calls of set_interest

ASSUME NetAssumption ==
    /\ Skips \subseteq Nat \ {0}
    /\ {MaxTick, MaxIntents, MaxEpoch, MaxSets} \subseteq Nat

None == <<>>

VARIABLES
    epoch, tick, prefix,   \* Server::epoch, tick, prefix
    slot,                  \* joined: <<>> or the one slot of wire_player
    gen,                   \* its interest_gen
    slots,                 \* next_slot
    sdown,                 \* Server::disconnected
    cepoch, player, cprefix, last, saw, cgen, needs, awaiting,
    status,                \* Client: "up", "HelloMismatch", "Desync"
    said, sent, sets,      \* Hello said in this epoch; intents, dictionaries
    up, down,              \* the Wire, both directions
    at,                    \* history: the prefix at every epoch and tick
    consumed               \* history: what consume handed to the sim

serverVars == <<epoch, tick, prefix, slot, gen, slots, sdown>>
clientVars == <<cepoch, player, cprefix, last, saw, cgen, needs, awaiting,
                status>>
vars == <<serverVars, clientVars, said, sent, sets, up, down, at, consumed>>

Init ==
    /\ epoch = 0 /\ tick = 0 /\ prefix = <<>> /\ slot = None /\ gen = 0
    /\ slots = 0 /\ sdown = FALSE
    /\ cepoch = 0 /\ player = None /\ cprefix = <<>> /\ last = 0 /\ saw = FALSE
    /\ cgen = 0 /\ needs = FALSE /\ awaiting = FALSE /\ status = "up"
    /\ said = FALSE /\ sent = 0 /\ sets = 0
    /\ up = <<>> /\ down = <<>>
    /\ at = [k \in {<<0, 0>>} |-> <<>>] /\ consumed = <<>>

Keep(f, k, v) == [j \in DOMAIN f \union {k} |-> IF j = k THEN v ELSE f[j]]

-----------------------------------------------------------------------------
(* What the callers of the client do.                                      *)

(* hello_packet, once per epoch.                                           *)
SayHello ==
    /\ status = "up" /\ ~said /\ said' = TRUE
    /\ up' = Append(up, [kind |-> "hello", epoch |-> cepoch])
    /\ UNCHANGED <<serverVars, clientVars, sent, sets, down, at, consumed>>

SendIntent ==
    /\ status = "up" /\ player # None /\ sent < MaxIntents /\ sent' = sent + 1
    /\ up' = Append(up, [kind |-> "intent", n |-> sent', epoch |-> cepoch])
    /\ UNCHANGED <<serverVars, clientVars, said, sets, down, at, consumed>>

InstallForgetsSnapshot ==       \* mutant: saw_snapshot is not reset
    /\ cepoch < epoch
    /\ cepoch' = cepoch + 1 /\ player' = None /\ cprefix' = <<>> /\ last' = 0
    /\ cgen' = 0 /\ needs' = FALSE /\ awaiting' = FALSE
    /\ status' = "up" /\ said' = FALSE
    /\ UNCHANGED <<serverVars, saw, sent, sets, up, down, at, consumed>>

(* install_downloaded_epoch, one pack at a time up to the server's.        *)
InstallDownloaded ==
    /\ cepoch < epoch
    /\ cepoch' = cepoch + 1 /\ player' = None /\ cprefix' = <<>> /\ last' = 0
    /\ saw' = FALSE /\ cgen' = 0 /\ needs' = FALSE /\ awaiting' = FALSE
    /\ status' = "up" /\ said' = FALSE
    /\ UNCHANGED <<serverVars, sent, sets, up, down, at, consumed>>

-----------------------------------------------------------------------------
(* Server::pump, one packet of the client.                                 *)
Take(kind) == up # <<>> /\ Head(up).kind = kind /\ up' = Tail(up)

Snapshot == [kind |-> "snapshot", tick |-> tick, epoch |-> epoch,
             prefix |-> prefix]

(* Hello and accept_join; a mismatch is swallowed without an answer, and   *)
(* so it is while disconnected, where pump returns the error.              *)
HandleHello ==
    /\ Take("hello")
    /\ IF ~sdown /\ Head(up).epoch = epoch
       THEN /\ slot' = <<[intent |-> None]>> /\ gen' = 0 /\ slots' = slots + 1
            /\ down' = down \o
                 <<[kind |-> "hello", epoch |-> epoch, slot |-> slots],
                   Snapshot, [kind |-> "interest", gen |-> 0]>>
       ELSE UNCHANGED <<slot, gen, slots, down>>
    /\ UNCHANGED <<epoch, tick, prefix, sdown, clientVars, said, sent, sets, at,
                   consumed>>

(* queue: the latest unconsumed intent.                                    *)
Queue(i) == slot' = <<[intent |-> <<i>>]>>

HandleIntent ==
    /\ Take("intent")
    /\ IF ~sdown /\ slot # None THEN Queue(Head(up)) ELSE UNCHANGED slot
    /\ UNCHANGED <<epoch, tick, prefix, gen, slots, sdown, clientVars, said, sent,
                   sets, down, at, consumed>>

ConsumeCopies ==                \* mutant: the intent stays in its slot
    /\ slot # None /\ slot[1].intent # None
    /\ LET i == slot[1].intent[1]
       IN  consumed' = Append(consumed, [n |-> i.n, sent |-> i.epoch,
                                         used |-> epoch])
    /\ UNCHANGED <<serverVars, clientVars, said, sent, sets, up, down, at>>

(* consume, whose result goes to the sim.                                  *)
Consume ==
    /\ slot # None /\ slot[1].intent # None
    /\ slot' = <<[intent |-> None]>>
    /\ LET i == slot[1].intent[1]
       IN  consumed' = Append(consumed, [n |-> i.n, sent |-> i.epoch,
                                         used |-> epoch])
    /\ UNCHANGED <<epoch, tick, prefix, gen, slots, sdown, clientVars, said, sent,
                   sets, up, down, at>>

(* send_if_wire: only the joined player of the wire hears the server.      *)
Send(packets) == down' = IF slot = None THEN down ELSE down \o packets

(* flush_delta after a step, with or without events.                       *)
FlushDelta ==
    /\ tick < MaxTick /\ tick' = tick + 1
    /\ \E events \in {<<>>, <<tick>>} :
        /\ prefix' = prefix \o events
        /\ Send(<<[kind |-> "trace", from |-> tick, gen |-> gen,
                   events |-> events]>>)
    /\ at' = Keep(at, <<epoch, tick'>>, prefix')
    /\ UNCHANGED <<epoch, slot, gen, slots, sdown, clientVars, said, sent, sets,
                   up, consumed>>

SetInterest ==
    /\ slot # None /\ sets < MaxSets /\ sets' = sets + 1
    /\ \E k \in Skips : gen' = gen + k
    /\ Send(<<[kind |-> "interest", gen |-> gen']>>)
    /\ UNCHANGED <<epoch, tick, prefix, slot, slots, sdown, clientVars, said, sent,
                   up, at, consumed>>

(* The caller answers needs_resync.                                        *)
Resync ==
    /\ needs /\ slot # None /\ player # None
    /\ \A i \in DOMAIN down : down[i].kind # "resync"   \* bound: one on its way
    /\ Send(<<[kind |-> "resync", tick |-> tick, epoch |-> epoch,
               prefix |-> prefix], [kind |-> "interest", gen |-> gen]>>)
    /\ UNCHANGED <<serverVars, clientVars, said, sent, sets, up, at, consumed>>

InstallKeepsJoined ==           \* mutant: the joined clients stay
    /\ epoch < MaxEpoch /\ epoch' = epoch + 1
    /\ slots' = 0
    /\ prefix' = Append(prefix, "epoch")
    /\ at' = Keep(at, <<epoch', tick>>, prefix')
    /\ UNCHANGED <<tick, slot, gen, sdown, clientVars, said, sent, sets, up, down,
                   consumed>>

(* HaltedServerEpoch::apply: the kernel appends, install_epoch, set_prefix.*)
InstallEpoch ==
    /\ epoch < MaxEpoch /\ epoch' = epoch + 1
    /\ slot' = None /\ gen' = 0 /\ slots' = 0
    /\ prefix' = Append(prefix, "epoch")
    /\ at' = Keep(at, <<epoch', tick>>, prefix')
    /\ UNCHANGED <<tick, sdown, clientVars, said, sent, sets, up, down, consumed>>

(* record_desync, which a caller may do when the client reports one.       *)
RecordDesync ==
    /\ status = "Desync" /\ ~sdown /\ sdown' = TRUE
    /\ UNCHANGED <<epoch, tick, prefix, slot, gen, slots, clientVars, said, sent,
                   sets, up, down, at, consumed>>

-----------------------------------------------------------------------------
(* Client::pump, one packet of the server; nothing after a disconnect.     *)
GenOk(g) == g \in {cgen, cgen + 1}

OnHello(p) ==
    /\ IF p.epoch = cepoch
       THEN player' = <<p.slot>> /\ UNCHANGED status
       ELSE status' = "HelloMismatch" /\ UNCHANGED player
    /\ UNCHANGED <<cprefix, last, saw, cgen, needs, awaiting>>

OnSnapshot(p) ==
    /\ IF p.epoch = cepoch /\ (saw => p.prefix = cprefix)
       THEN /\ cprefix' = p.prefix /\ last' = p.tick /\ saw' = TRUE
            /\ UNCHANGED status
       ELSE status' = "Desync" /\ UNCHANGED <<cprefix, last, saw>>
    /\ UNCHANGED <<player, cgen, needs, awaiting>>

OnTraceSkipping(p) ==           \* mutant: a dropped delta still moves the tick
    /\ IF p.from # last
       THEN status' = "Desync" /\ UNCHANGED <<cprefix, last, needs>>
       ELSE /\ last' = last + 1 /\ UNCHANGED status
            /\ IF GenOk(p.gen)
               THEN cprefix' = cprefix \o p.events /\ UNCHANGED needs
               ELSE needs' = TRUE /\ UNCHANGED cprefix
    /\ UNCHANGED <<player, saw, cgen, awaiting>>

OnTrace(p) ==
    /\ \/ /\ p.from # last
          /\ status' = "Desync" /\ UNCHANGED <<cprefix, last, needs>>
       \/ /\ p.from = last /\ ~GenOk(p.gen)
          /\ needs' = TRUE /\ UNCHANGED <<cprefix, last, status>>
       \/ /\ p.from = last /\ GenOk(p.gen)
          /\ cprefix' = cprefix \o p.events /\ last' = last + 1
          /\ UNCHANGED <<needs, status>>
    /\ UNCHANGED <<player, saw, cgen, awaiting>>

OnInterest(p) ==
    /\ IF GenOk(p.gen) \/ (awaiting /\ p.gen > cgen)
       THEN cgen' = p.gen /\ awaiting' = FALSE /\ UNCHANGED needs
       ELSE needs' = TRUE /\ UNCHANGED <<cgen, awaiting>>
    /\ UNCHANGED <<player, cprefix, last, saw, status>>

OnResync(p) ==
    /\ IF p.epoch = cepoch
       THEN /\ last' = p.tick /\ cprefix' = p.prefix
            /\ needs' = FALSE /\ awaiting' = TRUE /\ UNCHANGED status
       ELSE status' = "Desync" /\ UNCHANGED <<last, cprefix, needs, awaiting>>
    /\ UNCHANGED <<player, saw, cgen>>

ClientPump ==
    /\ down # <<>> /\ down' = Tail(down)
    /\ LET p == Head(down)
       IN  IF status # "up" THEN UNCHANGED clientVars
           ELSE /\ UNCHANGED cepoch
                /\ \/ p.kind = "hello" /\ OnHello(p)
                   \/ p.kind = "snapshot" /\ OnSnapshot(p)
                   \/ p.kind = "trace" /\ OnTrace(p)
                   \/ p.kind = "interest" /\ OnInterest(p)
                   \/ p.kind = "resync" /\ OnResync(p)
    /\ UNCHANGED <<serverVars, said, sent, sets, up, at, consumed>>

-----------------------------------------------------------------------------
ServerPump == HandleHello \/ HandleIntent

Next == \/ SayHello \/ SendIntent \/ InstallDownloaded
        \/ ServerPump \/ Consume \/ FlushDelta \/ SetInterest \/ Resync
        \/ InstallEpoch \/ RecordDesync \/ ClientPump

Spec == Init /\ [][Next]_vars

-----------------------------------------------------------------------------
(* A client in session is on the Trace of the server: the prefix it folded *)
(* is the server's prefix at its tick (join, missed deltas, resync).       *)
InStep == status = "up" /\ saw
            => <<cepoch, last>> \in DOMAIN at /\ cprefix = at[<<cepoch, last>>]

(* No intent is used in another epoch than it was sent in, whatever was on *)
(* the wire when the epoch was installed.                                  *)
EpochIntents == \A i \in DOMAIN consumed : consumed[i].sent = consumed[i].used

(* Intents are used once, in the order sent, and the sim never gets one    *)
(* while a later one waits in the slot.                                    *)
ConsumedInOrder ==
    /\ \A i, j \in DOMAIN consumed : i < j => consumed[i].n < consumed[j].n
    /\ slot # None /\ slot[1].intent # None
         => \A i \in DOMAIN consumed : consumed[i].n < slot[1].intent[1].n

InSession == player # None /\ cepoch = epoch /\ status = "up" /\ slot # None

=============================================================================
