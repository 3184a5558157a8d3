----------------------------- MODULE RootSearch -----------------------------
(***************************************************************************)
(* hydroliquid/solvers.py: the search of a root of a residual, by damped   *)
(* Newton when a guess is given, by an enlarged bracket and Brent's method *)
(* otherwise or when Newton fails.                                         *)
(*                                                                         *)
(* Abscissas are naturals.  The secant, the interpolations and the slope   *)
(* are replaced by all the points they may yield: what decides is where    *)
(* the code accepts them, and it is kept.                                  *)
(***************************************************************************)
EXTENDS Quantities

CONSTANTS
    Residual(_, _),  \* Residual(e, x): the residual of equation e at x
    Searches,        \* what the engines may ask for
    Abscissas,
    MaxExpansions    \* MAX_BRACKET_EXPANSIONS

ASSUME SearchAssumption ==
    /\ MaxExpansions \in Nat /\ Abscissas \subseteq Nat
    /\ None \notin Nat /\ None \notin Searches
    /\ \A s \in Searches :
          /\ s.lower \in Nat /\ s.upper \in Nat /\ s.lower <= s.upper
          /\ s.hardUpper \in Nat \cup {None} /\ s.guess \in Nat \cup {None}
          /\ s.tolerance \in Nat /\ s.maxIterations \in Nat \ {0}

VARIABLES
    search,      \* the search that was asked for
    phase,       \* "idle", "newton", "bracket", "brent" or how it ended
    upper,       \* the current upper bound of the bracket
    expansions,
    worse, best, \* a and b of brent; best is also the iterate of Newton
    iteration,
    fallback     \* diagnostics.fallback_used

searchVars == <<search, phase, upper, expansions, worse, best, iteration, fallback>>

Ended == {"found", "no_physical_solution", "not_converged"}

At(x)   == Residual(search.equation, x)
fLower  == At(search.lower)
Small   == Magnitude(At(best)) <= search.tolerance

SearchInit ==
    /\ search = None /\ phase = "idle"
    /\ upper = 0 /\ expansions = 0 /\ worse = 0 /\ best = 0 /\ iteration = 0
    /\ fallback = FALSE

\* min(upper, hard_upper)
Bounded(x, hard) == IF hard = None THEN x ELSE Least(x, hard)

BeginSearch(s) ==
    /\ phase = "idle"
    /\ search' = s
    /\ phase' = IF s.guess = None THEN "bracket" ELSE "newton"
    /\ best' = IF s.guess = None THEN best ELSE s.guess
    /\ upper' = Bounded(s.upper, s.hardUpper)
    /\ UNCHANGED <<expansions, worse, iteration, fallback>>

Finish(how) == phase' = how /\ UNCHANGED <<search, upper, expansions, worse, iteration>>

(***************************************************************************)
(* bracket_root                                                            *)
(***************************************************************************)
HardUpperBelow == search.hardUpper # None /\ search.hardUpper < search.lower

\* The root is a bound of the bracket: method "bracket-exact".
LowerIsRoot ==
    /\ phase = "bracket" /\ fLower = 0
    /\ best' = search.lower
    /\ Finish("found") /\ UNCHANGED fallback

UpperIsRoot ==
    /\ phase = "bracket" /\ fLower # 0 /\ ~HardUpperBelow /\ At(upper) = 0
    /\ best' = upper
    /\ Finish("found") /\ UNCHANGED fallback

\* Mutation of AtHardUpper: the search gives up one expansion too early.
AtHardUpperEarly == search.hardUpper # None /\ 2 * upper >= search.hardUpper

AtHardUpper == search.hardUpper # None /\ upper >= search.hardUpper

\* The residual has the sign it has at the lower bound.
SameSign == ~HardUpperBelow /\ fLower # 0 /\ At(upper) # 0 /\ ~Opposite(fLower, At(upper))

Expand ==
    /\ phase = "bracket" /\ SameSign
    /\ ~AtHardUpper /\ expansions < MaxExpansions
    /\ expansions' = expansions + 1
    /\ upper' = Bounded(2 * upper, search.hardUpper)
    /\ UNCHANGED <<search, phase, worse, best, iteration, fallback>>

\* NoPhysicalSolutionError.
NoBracket ==
    /\ phase = "bracket" /\ fLower # 0
    /\ \/ HardUpperBelow
       \/ SameSign /\ (AtHardUpper \/ expansions = MaxExpansions)
    /\ Finish("no_physical_solution") /\ UNCHANGED <<best, fallback>>

Ordered(x, y) ==
    IF Magnitude(At(x)) < Magnitude(At(y)) THEN worse' = y /\ best' = x
                                         ELSE worse' = x /\ best' = y

StartBrent ==
    /\ phase = "bracket" /\ ~HardUpperBelow /\ Opposite(fLower, At(upper))
    /\ phase' = "brent"
    /\ Ordered(search.lower, upper)
    /\ iteration' = 0
    /\ UNCHANGED <<search, upper, expansions, fallback>>

(***************************************************************************)
(* brent                                                                   *)
(***************************************************************************)
\* Mutation of Accepted: the interpolated point is never refused.
AcceptedAnywhere(s) == s # best

\* s is strictly between (3a + b)/4 and b.
Accepted(s) ==
    \/ 3 * worse + best < 4 * s /\ s < best
    \/ best < s /\ 4 * s < 3 * worse + best

Midpoint == (worse + best) \div 2

BrentConverges ==
    /\ phase = "brent" /\ iteration < search.maxIterations /\ Small
    /\ Finish("found") /\ UNCHANGED <<best, fallback>>

\* Mutation of BrentStep: the new point always replaces the worse one.
BrentStepUnsigned(s) ==
    /\ phase = "brent" /\ iteration < search.maxIterations /\ ~Small
    /\ Accepted(s) \/ s = Midpoint
    /\ Ordered(s, best)
    /\ iteration' = iteration + 1
    /\ UNCHANGED <<search, phase, upper, expansions, fallback>>

BrentStep(s) ==
    /\ phase = "brent" /\ iteration < search.maxIterations /\ ~Small
    /\ Accepted(s) \/ s = Midpoint
    /\ IF Opposite(At(worse), At(s)) THEN Ordered(worse, s) ELSE Ordered(s, best)
    /\ iteration' = iteration + 1
    /\ UNCHANGED <<search, phase, upper, expansions, fallback>>

\* The last iterate is not looked at.
BrentExhausted ==
    /\ phase = "brent" /\ iteration = search.maxIterations
    /\ Finish("not_converged") /\ UNCHANGED <<best, fallback>>

(***************************************************************************)
(* damped_newton, and its fallback in solve_hybrid                         *)
(***************************************************************************)
NewtonConverges ==
    /\ phase = "newton" /\ iteration < search.maxIterations /\ Small
    /\ Finish("found") /\ UNCHANGED <<best, fallback>>

\* The damped step: a smaller residual, or any point once the damping is spent.
NewtonStep(x) ==
    /\ phase = "newton" /\ iteration < search.maxIterations /\ ~Small
    /\ search.lower <= x /\ x <= search.upper
    /\ best' = x
    /\ iteration' = iteration + 1
    /\ UNCHANGED <<search, phase, upper, expansions, worse, fallback>>

\* Mutation of NewtonFails: the last iterate is near a root, and nobody looks at it.
NewtonFailsFarAway ==
    /\ phase = "newton" /\ ~Small
    /\ phase' = "bracket" /\ fallback' = TRUE
    /\ UNCHANGED <<search, upper, expansions, worse, best, iteration>>

\* The slope is null, or the iterations are spent: solve_monotonic takes over.
NewtonFails ==
    /\ phase = "newton" /\ (~Small \/ iteration = search.maxIterations)
    /\ phase' = "bracket" /\ fallback' = TRUE
    /\ UNCHANGED <<search, upper, expansions, worse, best, iteration>>

SearchStep ==
    \/ LowerIsRoot \/ UpperIsRoot \/ Expand \/ NoBracket \/ StartBrent
    \/ BrentConverges \/ (\E s \in Abscissas : BrentStep(s)) \/ BrentExhausted
    \/ NewtonConverges \/ (\E x \in Abscissas : NewtonStep(x)) \/ NewtonFails

SearchNext == (phase = "idle" /\ \E s \in Searches : BeginSearch(s)) \/ SearchStep

SearchSpec == SearchInit /\ [][SearchNext]_searchVars

-----------------------------------------------------------------------------
\* Types; no more expansions nor iterations than the code allows.
SearchTypeOK ==
    /\ phase \in {"idle", "newton", "bracket", "brent"} \cup Ended
    /\ (search = None \/ search \in Searches) /\ (phase = "idle" <=> search = None)
    /\ upper \in Nat /\ worse \in Nat /\ best \in Nat /\ iteration \in Nat
    /\ expansions \in 0..MaxExpansions
    /\ fallback \in BOOLEAN
    /\ search # None => iteration <= search.maxIterations

\* What Brent's method rests on: its two points enclose a change of sign, or the
\* better one is a root; the better one has the smaller residual.
BracketHolds ==
    phase = "brent" =>
        /\ Opposite(At(worse), At(best)) \/ At(best) = 0
        /\ Magnitude(At(best)) <= Magnitude(At(worse))
        /\ {worse, best} \subseteq search.lower..upper

\* "Aucune de ces fonctions ne retourne un resultat non converge": what is
\* returned is a root to the tolerance, between the bounds of the physical domain.
RootIsRoot ==
    phase = "found" =>
        /\ Small
        /\ fallback \/ search.guess = None =>
              /\ search.lower <= best
              /\ search.hardUpper # None => best <= Greatest(search.hardUpper, search.lower)

\* A monotone residual has no root before the physical bound, nor before the last
\* bound tried when there is none: only then is there no physical solution.
NoSolutionIsTrue ==
    phase = "no_physical_solution" =>
        \A x \in Abscissas :
            search.lower <= x /\ x <= (IF search.hardUpper = None THEN upper ELSE search.hardUpper)
                => At(x) # 0 /\ ~Opposite(fLower, At(x))

\* A switch from Newton to the bracket is recorded, and never happens otherwise.
FallbackIsRecorded ==
    phase \in {"bracket", "brent", "no_physical_solution", "not_converged"} =>
        (fallback <=> search.guess # None)

\* What a caller of the solvers relies on: the enclosed change of sign, the root within
\* its tolerance, and the switch of method on record.
SearchIsSound == BracketHolds /\ RootIsRoot /\ FallbackIsRecorded

\* The interval of Brent's method never grows.
BracketNarrows ==
    [][phase = "brent" /\ phase' = "brent" =>
          {worse', best'} \subseteq Least(worse, best)..Greatest(worse, best)]_searchVars

\* Every search ends, converged or not.
SearchEnds == search # None ~> phase \in Ended
=============================================================================
