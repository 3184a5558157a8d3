------------------------------- MODULE Tables -------------------------------
(***************************************************************************)
(* hydro_domain/interpolation.py: tables with strictly increasing          *)
(* abscissas, interpolated linearly and, when the ordinates are strictly   *)
(* monotone, inverted.  Values are integers in the unit of the caller.     *)
(* PCHIP, which is smooth between the same points, is left out.            *)
(***************************************************************************)
EXTENDS Integers, Sequences, SequencesExt

\* A table is a sequence of points <<x, y>>.
X(table, i) == table[i][1]
Y(table, i) == table[i][2]

IsTable(table) ==
    /\ Len(table) >= 2
    /\ \A i \in 1..(Len(table) - 1) : X(table, i) < X(table, i + 1)

\* What the constructor accepts.
Curves == {table \in Seq(Int \X Int) : IsTable(table)}

Increasing(table) == \A i \in 1..(Len(table) - 1) : Y(table, i) < Y(table, i + 1)
Decreasing(table) == \A i \in 1..(Len(table) - 1) : Y(table, i) > Y(table, i + 1)
IsInvertible(table) == Increasing(table) \/ Decreasing(table)

InDomain(table, x) == X(table, 1) <= x /\ x <= X(table, Len(table))

\* bisect_right, kept between the first and the last interval: x outside of the
\* domain is extrapolated from the nearest one.
Interval(table, x) ==
    CHOOSE i \in 1..(Len(table) - 1) :
        /\ i = 1 \/ X(table, i) <= x
        /\ i = Len(table) - 1 \/ x < X(table, i + 1)

Evaluate(table, x) ==
    LET i == Interval(table, x)
    IN  Y(table, i) + ((x - X(table, i)) * (Y(table, i + 1) - Y(table, i)))
                      \div (X(table, i + 1) - X(table, i))

\* ExtrapolationPolicy.CLAMP
Clamped(table, x) ==
    IF x < X(table, 1) THEN Y(table, 1)
    ELSE IF x > X(table, Len(table)) THEN Y(table, Len(table)) ELSE Evaluate(table, x)

\* The table read the other way round; a decreasing one is reversed first.
Swapped(table) == [i \in DOMAIN table |-> <<Y(table, i), X(table, i)>>]
InverseTable(table) == IF Increasing(table) THEN Swapped(table) ELSE Reverse(Swapped(table))

\* inverse: the x with f(x) = y.
Solve(table, y) == Evaluate(InverseTable(table), y)
=============================================================================
