------------------------------ MODULE RateLimit ------------------------------
(***************************************************************************)
(* One fixed-window counter of packages/core/auth/rate_limit.py: the Redis  *)
(* key rl:{name}:{ident}.  `hit` is up to three commands, each a round trip *)
(* of its own: INCR; then, on a new key, EXPIRE; on an old one, TTL and, if *)
(* the key has none, EXPIRE.  This module has what each command does to the *)
(* key; the callers sequence them.                                          *)
(***************************************************************************)
EXTENDS Naturals

\* A key without a time to live.
Never == 0

\* A key that does not exist: INCR starts it at 1, and TTL is not -1.
NoKey == [n |-> 0, until |-> Never]

Counter == [n : Nat, until : Nat]

\* INCR: keeps the key's time to live.
Incr(key) == [key EXCEPT !.n = @ + 1]

\* EXPIRE: does nothing to a key that is gone.
Expire(key, at) == IF key.n = 0 THEN key ELSE [key EXCEPT !.until = at]

\* What `hit` does after its INCR: a count of 1 is a new window.
AfterIncr(count) == IF count = 1 THEN "expire" ELSE "ttl"

\* TTL answers -1: the key is there and nothing ends it.
LacksTtl(key) == key.n > 0 /\ key.until = Never

\* The clock reaches `time`.
Aged(key, time) == IF key.until # Never /\ key.until <= time THEN NoKey ELSE key
=============================================================================
