----------------------------- MODULE RewindRing -----------------------------
(***************************************************************************)
(* klotho-world, rewind.rs: the server's ring of the last published        *)
(* snapshots, as pure operators on [cap, snaps].  snaps is the VecDeque,   *)
(* oldest first; a snapshot is a record with a tick and what it froze.     *)
(***************************************************************************)
EXTENDS Integers, Sequences, FiniteSetsExt

EmptyRing(cap) == [cap |-> cap, snaps |-> <<>>]

(* trim: pop_front while longer than cap.                                  *)
Trim(q, cap) ==
    IF Len(q) > cap THEN SubSeq(q, Len(q) - cap + 1, Len(q)) ELSE q

SetCap(r, cap) == [cap |-> cap, snaps |-> Trim(r.snaps, cap)]

Push(r, s) ==
    IF r.cap = 0
    THEN [r EXCEPT !.snaps = <<>>]
    ELSE [r EXCEPT !.snaps = Trim(Append(r.snaps, s), r.cap)]

(* Indices of snapshots a lookup may fall back on.                         *)
Candidates(r, lo, at) ==
    {i \in DOMAIN r.snaps : r.snaps[i].tick \in lo .. at}

LookupOldest(r, now, at) ==     \* mutant: find without rev()
    LET lo == IF now >= r.cap THEN now - r.cap ELSE 0
        found == Candidates(r, lo, at)
    IN  IF r.cap = 0 \/ at < lo \/ at > now THEN {}
        ELSE IF found = {} THEN {} ELSE {r.snaps[Min(found)]}

(***************************************************************************)
(* lookup: the snapshot at tick `at`, else the newest one before it that   *)
(* is inside [now - cap, now].  Option as a set of at most one element.    *)
(* The exact match is found from the front, the fallback from the back.    *)
(***************************************************************************)
Lookup(r, now, at) ==
    LET lo == IF now >= r.cap THEN now - r.cap ELSE 0
        exact == {i \in DOMAIN r.snaps : r.snaps[i].tick = at}
        found == Candidates(r, lo, at)
    IN  IF r.cap = 0 \/ at < lo \/ at > now THEN {}
        ELSE IF exact # {} THEN {r.snaps[Min(exact)]}
        ELSE IF found # {} THEN {r.snaps[Max(found)]}
        ELSE {}
=============================================================================
