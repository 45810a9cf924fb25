---------------------------- MODULE MCNetSession ----------------------------
(* Three sessions, one chosen with the initial state: intents and skipped  *)
(* dictionaries across an epoch; a client that is in one epoch and misses  *)
(* nothing; a client whose caller pumps the wire empty before it installs  *)
(* the packs of two epochs.                                                *)
EXTENDS NetSession

VARIABLE mix

Mixes ==
    {[name |-> "epoch", skips |-> {1, 2}, ticks |-> 2, intents |-> 2,
      epochs |-> 1, sets |-> 1],
     [name |-> "steady", skips |-> {1}, ticks |-> 4, intents |-> 1,
      epochs |-> 0, sets |-> 2],
     [name |-> "drained", skips |-> {1}, ticks |-> 2, intents |-> 1,
      epochs |-> 2, sets |-> 1]}

MixInit == Init /\ mix \in Mixes

InstallsPack == InstallDownloaded /\ (mix.name = "drained" => down = <<>>)

MixNext ==
    /\ \/ SayHello \/ SendIntent \/ InstallsPack
       \/ ServerPump \/ Consume \/ FlushDelta \/ SetInterest \/ Resync
       \/ InstallEpoch \/ RecordDesync \/ ClientPump
    /\ tick' <= mix.ticks /\ sent' <= mix.intents
    /\ epoch' <= mix.epochs /\ sets' <= mix.sets
    /\ sets' > sets => gen' - gen \in mix.skips
    /\ UNCHANGED mix

(* Both ends pump in their frames; the client downloads and says Hello.    *)
MixSpec ==
    /\ MixInit /\ [][MixNext]_<<vars, mix>>
    /\ WF_vars(ServerPump) /\ WF_vars(ClientPump)
    /\ WF_vars(InstallsPack) /\ WF_vars(SayHello)

(* A client left behind by an epoch gets back into the session.            *)
Rejoins ==
    [](mix.name = "drained" /\ epoch = MaxEpoch => <>InSession)
=============================================================================
