---------------------------- MODULE MCRiteBurst -----------------------------
(* Two actors, a host with one part, and the Canons of the fixtures cut    *)
(* down: ember's melee waits twice, the second WAIT behind the contact;    *)
(* cleave emits before the window and after it; hook emits as it starts,   *)
(* ties its actor to the target and binds what its actor is tied to; plain *)
(* binds no track.                                                         *)
EXTENDS RiteBurst

Bind == [op |-> "bind", src |-> "target"]
WaitAim(n) == [op |-> "wait", ticks |-> n, ch |-> "aim"]
Skill(pc) == [op |-> "guard", pred |-> [pred |-> "skill", ch |-> "aim"], fail |-> pc]
Emit == [op |-> "emit"]
Complete == [op |-> "complete"]
Spend(pc) == [op |-> "spend", amount |-> 1, fail |-> pc]
If(p, yes, no) == [op |-> "branch", pred |-> [pred |-> p], yes |-> yes, no |-> no]

Hit == <<If("destructible", 4, 2), Spend(3), Complete, Spend(5), If("spent", 6, 8),
         [op |-> "setq", slot |-> "this", to |-> 0],
         [op |-> "reldel", x |-> "this", y |-> "this"], Complete>>
Fall == <<[op |-> "spawn"], [op |-> "spawn"], Complete>>

Ember == <<Bind, WaitAim(2), Skill(8), WaitAim(1), Skill(8), Emit, Complete, Complete>>
Hook ==
    <<Emit, [op |-> "reladd", x |-> "this", y |-> "target"],
      [op |-> "bind", src |-> "related"], WaitAim(2), Emit,
      [op |-> "reldel", x |-> "this", y |-> "target"], Complete>>
Cleave ==
    <<Bind, WaitAim(1), Emit, WaitAim(2), Emit, WaitAim(1), Emit, Complete>>

Aim(at) == [rite |-> "melee", wait |-> at, ticks |-> 2, ch |-> "aim"]
With(melee, track) ==
    [code |-> [melee |-> melee, apply_hit |-> Hit, collapse |-> Fall],
     cap |-> 10, track |-> track]

TwoActors == {"a", "b"}
HostAndPart == {"h", "p"}
Order == <<"a", "b", "h", "p">>
Listed == [melee |-> 0, fire |-> 1, apply_hit |-> 2, collapse |-> 3]
Fixtures ==
    [ember |-> With(Ember, [a |-> Aim(2)]),
     cleave |-> With(Cleave, [a |-> Aim(4), b |-> Aim(4)]),
     hook |-> With(Hook, [a |-> Aim(4)]),
     plain |-> With(Ember, <<>>)]
Edits == {<<"cleave", "ember">>, <<"plain", "ember">>, <<"ember", "plain">>}
Worlds ==
    {[a |-> 1, b |-> 1, h |-> 1, p |-> 1], [a |-> 1, b |-> 2, h |-> 2, p |-> 2]}
Host == {"h"}
Seeded == {<<"h", "h">>, <<"p", "h">>}
Whole == [l \in Loci |-> IF l = "h" THEN 2 ELSE 0]
Sweeps == [target : {"h", "p"}, boundary : {0, 1}, live : {TRUE}]
            \cup {[target |-> "p", boundary |-> 0, live |-> FALSE]}
Strikes ==
    {[verb |-> "use", target |-> "p", claimed |-> {"aim"}],
     [verb |-> "fire", target |-> "p", claimed |-> {"aim"}],
     [verb |-> "steer", target |-> "none", claimed |-> {}]}

(* What may have become of a victim at each pc of Hit.                     *)
Settled == {"whole", "gone"}
Struggling == {"dying", "gone"}
HitOutline == <<Settled, {}, {}, Settled, Fates, Struggling, Struggling, Settled>>

ASSUME FixturesAssumption ==
    /\ MeleeTracks /\ TracksKept /\ WaitsAreReal
    /\ SeededWhole /\ OnlyHitsHarm
    /\ HitsSettle([c \in DOMAIN Fixtures |-> HitOutline])

VARIABLE mix
Mixes ==
    {[canon |-> "ember", apart |-> TRUE, steps |-> {40}, vetoes |-> {FALSE}, packs |-> 0],
     [canon |-> "ember", apart |-> FALSE, steps |-> {6}, vetoes |-> BOOLEAN, packs |-> 0],
     [canon |-> "ember", apart |-> FALSE, steps |-> {40}, vetoes |-> {FALSE}, packs |-> 1],
     [canon |-> "hook", apart |-> TRUE, steps |-> {40}, vetoes |-> {FALSE}, packs |-> 0],
     [canon |-> "cleave", apart |-> FALSE, steps |-> {40}, vetoes |-> {FALSE}, packs |-> 1],
     [canon |-> "plain", apart |-> FALSE, steps |-> {40}, vetoes |-> {FALSE}, packs |-> 1]}

MixInit ==
    /\ Init /\ mix \in Mixes /\ canon = mix.canon
    /\ mix.apart <=> island["a"] # island["b"]
MixNext ==
    /\ \/ \E veto \in mix.vetoes : PlayerIntent(veto) \/ MindIntent(veto)
       \/ \E i \in Islands, veto \in mix.vetoes : IslandProposal(i, veto)
       \/ \E dt \in Ticks, steps \in mix.steps : Step(dt, steps)
       \/ \E c \in DOMAIN Canons : ApplyEpoch(c)
    /\ epoch' <= mix.packs
    /\ UNCHANGED mix
MixSpec == MixInit /\ [][MixNext]_<<vars, mix>>
=============================================================================
