--------------------------- MODULE PseudonymVault ---------------------------
(***************************************************************************)
(* InMemoryPseudonymVault of sensitive.py, as functions of its             *)
(* OrderedDict: a sequence of scopes, the least recently used first.  A    *)
(* scope keeps the values of one category in the order they were first     *)
(* seen; a value's pseudonym is its place.  `round` is history: how many   *)
(* times the scope had been started before.                                *)
(***************************************************************************)
EXTENDS Integers, Sequences, SequencesExt

CONSTANTS Ttl,           \* ttl_seconds
          MaxScopes      \* max_scopes

ASSUME VaultAssumption == Ttl \in Nat \ {0} /\ MaxScopes \in Nat \ {0}

Held(scopes, scope) == {k \in DOMAIN scopes : scopes[k].scope = scope}
Place(scopes, scope) == CHOOSE k \in Held(scopes, scope) : TRUE

Without(scopes, scope) ==
  IF Held(scopes, scope) = {} THEN scopes ELSE RemoveAt(scopes, Place(scopes, scope))

(* _live: whether the scope is there and has not expired. *)
Live(scopes, scope, now) ==
  \E k \in Held(scopes, scope) : now - scopes[k].started < Ttl

EntryOf(scopes, scope) == scopes[Place(scopes, scope)]

(* tokenize, its first part: the scope, moved to the end; a new one pushes *)
(* out the least recently used past the bound.                             *)
Opened(scopes, scope, now, round) ==
  LET entry == IF Live(scopes, scope, now) THEN EntryOf(scopes, scope)
               ELSE [scope |-> scope, started |-> now, values |-> << >>, round |-> round]
      grown == Append(Without(scopes, scope), entry)
  IN IF Len(grown) > MaxScopes THEN Tail(grown) ELSE grown

(* Mutant of Noted: a value seen before is numbered again. *)
NotedAgain(values, value) == Append(values, value)

(* tokenize, its second part: the next number of the category, unless the  *)
(* value has one.                                                          *)
Noted(values, value) == IF Contains(values, value) THEN values ELSE Append(values, value)

Tokenized(scopes, scope, value, now, round) ==
  LET opened == Opened(scopes, scope, now, round)
  IN [opened EXCEPT ![Len(opened)].values = Noted(@, value)]

(* The pseudonym tokenize returns, from what it leaves. *)
Token(scopes, value) ==
  LET values == Last(scopes).values
  IN CHOOSE n \in DOMAIN values :
       values[n] = value /\ \A k \in DOMAIN values : values[k] = value => k <= n

(* restore: the copy of the mapping it substitutes from; a token that is   *)
(* not in it is left as it is.                                             *)
Restorable(scopes, scope, now) ==
  IF Live(scopes, scope, now) THEN EntryOf(scopes, scope).values ELSE << >>

(* What restore and _live leave: an expired scope is dropped. *)
Restored(scopes, scope, now) ==
  IF Live(scopes, scope, now) THEN scopes ELSE Without(scopes, scope)
=============================================================================
