----------------------------- MODULE FeelMapper -----------------------------
(***************************************************************************)
(* klotho-input: the FeelMapper of feel.rs, which holds the discrete       *)
(* presses of one player in a buffer until a legal window (klotho-ir       *)
(* feel.rs) opens, around the stateless InputMapper of lib.rs.             *)
(*                                                                         *)
(* One action: a device sample is mapped.  Samples come with the           *)
(* authority's ticks, in order, some ticks more than once and some not at  *)
(* all.  Sticks, curves, aim assist and the claimed channels are left      *)
(* out: Idle stands for Move and Look, which are never buffered.           *)
(***************************************************************************)
EXTENDS Integers, Sequences, FiniteSets, SequencesExt, FiniteSetsExt

CONSTANTS Contracts,    \* [buffer, coyote, windows, toggle]: FeelContract
          Buttons,      \* the verbs some button of the bind table stands for
          LastTick,      \* bound on the ticks
          MaxPolls      \* bound on the samples of one tick

ASSUME FeelAssumption ==
    /\ Buttons \subseteq {"Use", "Drop", "Fire"}
    /\ LastTick \in Nat /\ MaxPolls \in Nat \ {0}
    /\ \A c \in Contracts : c.buffer \in 0..8 /\ c.coyote \in 0..8 /\ c.toggle \in BOOLEAN

Idle == "Idle"
Never == -1
NoPress == [at |-> Never, verb |-> Idle]

VARIABLES contract,     \* FeelMapper::contract
          now,          \* the tick of the latest sample
          polls,        \* samples taken at that tick
          pending,      \* FeelMapper::pending: presses [at, verb], oldest first
          lastGrounded, \* FeelMapper::last_grounded, or Never
          actionStart,  \* FeelMapper::action_start, or Never
          toggleDown,   \* FeelMapper::toggle_down
          out,          \* the answer to the latest sample: [ok, fired]
          support,      \* ghost: the last ticks with a grounded sample
          first         \* ghost: the tick the first press fired, or Never

feelVars == <<contract, now, polls, pending, lastGrounded, actionStart, toggleDown, out, support, first>>

FeelInit ==
    /\ contract \in Contracts
    /\ now = 0 /\ polls = 0
    /\ pending = <<>>
    /\ lastGrounded = Never
    /\ actionStart = Never
    /\ toggleDown = FALSE
    /\ out = [ok |-> TRUE, fired |-> NoPress]
    /\ support = {}
    /\ first = Never

-----------------------------------------------------------------------------
\* verb_rank: the strongest of the verbs whose buttons are down wins.
Rank(verb) == CASE verb = "Use" -> 2 [] verb = "Drop" -> 4 [] verb = "Fire" -> 6

\* InputMapper::map, its verb.
Mapped(held) ==
    IF held = {} THEN Idle ELSE CHOOSE v \in held : \A w \in held : Rank(v) <= Rank(w)

\* apply_toggle: under hold_to_toggle only the first sample of a hold is a press.
AfterToggle(verb) ==
    IF verb = Idle THEN [verb |-> Idle, down |-> FALSE]
    ELSE [verb |-> IF toggleDown THEN Idle ELSE verb, down |-> TRUE]

\* expire: the front has waited longer than the buffer allows; it stays where it is.
Overdue(stamp) == pending # <<>> /\ stamp - Head(pending).at > contract.buffer

\* window_allows
WindowAllows(verb, stamp) ==
    \/ actionStart = Never
    \/ stamp = actionStart
    \/ \E w \in contract.windows : w.verb = verb /\ stamp - actionStart \in w.start..w.end

\* mutant: a press buffered in time stays legal after the support is gone
VerbAllowedAtPress(press, stamp, grounded) ==
    press.verb \in {"Use", "Drop"} => grounded # Never /\ press.at - grounded <= contract.coyote

\* verb_allowed_now and coyote, `grounded` being last_grounded.
VerbAllowedNow(press, stamp, grounded) ==
    press.verb \in {"Use", "Drop"} => grounded # Never /\ stamp - grounded <= contract.coyote

Legal(queue, stamp, grounded) ==
    {i \in DOMAIN queue : WindowAllows(queue[i].verb, stamp) /\ VerbAllowedNow(queue[i], stamp, grounded)}

\* release: the oldest press that may go now.
Release(queue, stamp, grounded) ==
    IF Legal(queue, stamp, grounded) = {} THEN 0 ELSE Min(Legal(queue, stamp, grounded))

\* mutant: the sample that fails drops the overdue press
FailDropping ==
    /\ out' = [ok |-> FALSE, fired |-> NoPress]
    /\ pending' = Tail(pending)
    /\ UNCHANGED <<actionStart, toggleDown>>

\* UnexplainedQueue: the sample fails and the buffer stays as it is.
Fail ==
    /\ out' = [ok |-> FALSE, fired |-> NoPress]
    /\ UNCHANGED <<pending, actionStart, toggleDown>>

\* FeelMapper::map.  The support is noted before the buffer is judged.
Map(stamp, held, grounded) ==
    LET ground == IF grounded THEN stamp ELSE lastGrounded
        press  == IF contract.toggle THEN AfterToggle(Mapped(held))
                  ELSE [verb |-> Mapped(held), down |-> toggleDown]
        queue  == IF press.verb = Idle THEN pending
                  ELSE Append(pending, [at |-> stamp, verb |-> press.verb])
        i      == Release(queue, stamp, ground)
    IN  /\ lastGrounded' = ground
        /\ IF Overdue(stamp)
           THEN Fail
           ELSE /\ toggleDown' = press.down
                /\ pending' = IF i = 0 THEN queue ELSE RemoveAt(queue, i)
                /\ actionStart' = IF i # 0 /\ actionStart = Never THEN stamp ELSE actionStart
                /\ out' = [ok |-> TRUE, fired |-> IF i = 0 THEN NoPress ELSE queue[i]]

\* A sample: the next poll of this tick, or the first of a later one.
Sample ==
    \E stamp \in now..LastTick, held \in SUBSET Buttons, grounded \in BOOLEAN :
        /\ stamp = now => polls < MaxPolls
        /\ now' = stamp
        /\ polls' = IF stamp = now THEN polls + 1 ELSE 1
        /\ support' = {t \in support \cup {IF grounded THEN stamp ELSE Never} :
                        t # Never /\ stamp - t <= contract.coyote}
        /\ Map(stamp, held, grounded)
        /\ first' = IF first = Never /\ out'.fired # NoPress THEN stamp ELSE first
        /\ UNCHANGED contract

FeelNext == Sample
FeelSpec == FeelInit /\ [][FeelNext]_feelVars

-----------------------------------------------------------------------------
\* No press fires later than the authored buffer allows (klotho-ir feel.rs
\* "how many ticks a discrete press may wait for a legal window"), although
\* only the front of the buffer is judged and presses leave from its middle;
\* a grounded verb fires only within the coyote ticks of a tick with support,
\* whenever it was pressed, and every press after the first of the action
\* fires in its first tick or in a window of that verb.
FiredLegally ==
    out.fired # NoPress =>
        /\ now - out.fired.at \in 0..contract.buffer
        /\ out.fired.verb = "Fire" \/ support # {}
        /\ \/ now = first
           \/ \E w \in contract.windows : w.verb = out.fired.verb /\ now - first \in w.start..w.end

\* A press that outlived the buffer is never dropped: from the sample that
\* finds it on, every sample fails, whatever the player does.
OverdueIsFinal ==
    [][~out.ok => ~out'.ok /\ pending' = pending]_feelVars
=============================================================================
