------------------------------- MODULE Limits -------------------------------
(***************************************************************************)
(* The bounded per-key counters of limits.py, as functions of their        *)
(* OrderedDict: a sequence of entries, the least recently used key first.  *)
(* RateLimiter and ViolationHistory count in a window that starts with the *)
(* first event counted in it.                                              *)
(***************************************************************************)
EXTENDS Integers, Sequences

CONSTANT MaxKeys      \* _max_keys

ASSUME MaxKeysAssumption == MaxKeys \in Nat \ {0}

Keys(entries) == {entries[k].key : k \in 1..Len(entries)}

Place(entries, key) == CHOOSE k \in 1..Len(entries) : entries[k].key = key

(* get(key, (now, 0)) *)
Entry(entries, key, now) ==
  IF key \in Keys(entries)
  THEN entries[Place(entries, key)]
  ELSE [key |-> key, started |-> now, count |-> 0]

(* The entry to count in: past its window it starts again. *)
Current(entries, key, now, window) ==
  LET e == Entry(entries, key, now)
  IN IF now - e.started >= window THEN [key |-> key, started |-> now, count |-> 0] ELSE e

(* The entries but the one of a key. *)
Others(entries, key) ==
  IF key \in Keys(entries)
  THEN LET k == Place(entries, key)
       IN SubSeq(entries, 1, k - 1) \o SubSeq(entries, k + 1, Len(entries))
  ELSE entries

(* Store, move to the end, and forget the least recently used key past the *)
(* bound.                                                                  *)
Stored(entries, e) ==
  LET grown == Append(Others(entries, e.key), e)
  IN IF Len(grown) > MaxKeys THEN Tail(grown) ELSE grown

(* Mutant of WithinLimit: off by one. *)
WithinLimitPlusOne(entries, key, now, window, limit) ==
  Current(entries, key, now, window).count <= limit

(* RateLimiter.allow: its answer, and what it leaves. *)
WithinLimit(entries, key, now, window, limit) ==
  Current(entries, key, now, window).count < limit

Allow(entries, key, now, window, limit) ==
  LET e == Current(entries, key, now, window)
  IN IF WithinLimit(entries, key, now, window, limit)
     THEN Stored(entries, [e EXCEPT !.count = @ + 1])
     ELSE Append(Others(entries, key), Entry(entries, key, now))

(* ViolationHistory.record and locked. *)
Record(entries, key, now, window, threshold) ==
  LET e == Current(entries, key, now, window)
  IN Stored(entries, [e EXCEPT !.count = IF @ + 1 < threshold THEN @ + 1 ELSE threshold])

Locked(entries, key, now, window, threshold) ==
  LET e == Entry(entries, key, now)
  IN now - e.started < window /\ e.count >= threshold
=============================================================================
