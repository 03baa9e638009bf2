---------------------------- MODULE StoreTokens ----------------------------
(***************************************************************************)
(* The version tokens of the store (server/store/store.go): UpdateAt and    *)
(* EditAt are milliseconds that a write moves past their old value, so that *)
(* two writes within one millisecond still differ.                          *)
(***************************************************************************)
EXTENDS Integers

Later(a, b) == IF a >= b THEN a ELSE b

\* Mutant of NextMonotonic: a write in the same millisecond keeps the token.
NextMonotonicSameMilli(now, prev) == Later(now, prev)

\* nextMonotonic, and monotonicBump, its form in SQL: GREATEST(col + 1, now).
NextMonotonic(now, prev) == IF now <= prev THEN prev + 1 ELSE now

\* Several transactions read the clock before they wait for their row locks,
\* so the value they stamp may be up to wait old when they run.
StaleReads(clock, wait) == {t \in 1 .. clock : t + wait >= clock}

=============================================================================
