----------------------------- MODULE Quantities -----------------------------
(***************************************************************************)
(* What the models of the engines share.  A quantity is an integer in the  *)
(* unit its module names, and None stands for Python's None.               *)
(***************************************************************************)
EXTENDS Integers, FiniteSetsExt

CONSTANTS
    None,
    Refused  \* an error that is raised

\* A value that may be missing.
Maybe(S) == S \cup {None}

Least(m, n)     == IF m <= n THEN m ELSE n
Greatest(m, n)  == IF m >= n THEN m ELSE n
Above0(n)       == IF n > 0 THEN n ELSE 0
Magnitude(n)    == IF n >= 0 THEN n ELSE -n
Opposite(m, n)  == (m < 0 /\ n > 0) \/ (m > 0 /\ n < 0)
Within(m, n, d) == m - n < d /\ n - m < d

\* f with x at i, which may be new.
Put(f, i, x) == [j \in DOMAIN f \cup {i} |-> IF j = i THEN x ELSE f[j]]

\* The sum of the values of a function.
SumOver(values) == MapThenSumSet(LAMBDA i : values[i], DOMAIN values)
=============================================================================
