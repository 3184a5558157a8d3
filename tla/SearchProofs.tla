---------------------------- MODULE SearchProofs ----------------------------
(***************************************************************************)
(* Theorems of RootSearch, for every residual with integer values, all     *)
(* bounds and all tolerances, and of PumpSearch, for every request, every  *)
(* answer of the engine and both ways to choose.                           *)
(***************************************************************************)
EXTENDS RootSearch, PumpSearch, OrderLemmas

(***************************************************************************)
(* RootSearch: what a search returns is a root, and Brent's two points     *)
(* enclose a change of sign.                                               *)
(***************************************************************************)

IntegerResiduals == \A s \in Searches, x \in Nat : Residual(s.equation, x) \in Int

\* The bracket lies above the lower bound and below the physical one.
BoundsHold ==
    phase \in {"newton", "bracket", "brent"} /\ ~HardUpperBelow =>
        /\ search.lower <= upper
        /\ search.hardUpper # None => upper <= search.hardUpper

\* Nothing has been counted before the search.
FreshUntilBegun ==
    /\ phase = "idle" => iteration = 0
    /\ phase \in {"idle", "newton"} => ~fallback
    /\ phase = "newton" => search.guess # None
    /\ phase = "brent" => ~HardUpperBelow

SearchInv ==
    SearchTypeOK /\ BoundsHold /\ FreshUntilBegun /\ BracketHolds /\ RootIsRoot /\ FallbackIsRecorded

LEMMA BoundedType ==
    ASSUME NEW x \in Nat, NEW h \in Nat \cup {None}
    PROVE  /\ Bounded(x, h) \in Nat /\ Bounded(x, h) <= x
           /\ h # None => Bounded(x, h) <= h
           /\ \A l \in Nat : l <= x /\ (h # None => l <= h) => l <= Bounded(x, h)
BY SearchAssumption DEF Bounded, Least

\* What each search that is under way has for parameters.
LEMMA Parameters ==
    ASSUME SearchTypeOK, phase # "idle", IntegerResiduals
    PROVE  /\ search \in Searches /\ search # None
           /\ search.lower \in Nat /\ search.upper \in Nat /\ search.lower <= search.upper
           /\ search.hardUpper \in Nat \cup {None} /\ search.guess \in Nat \cup {None}
           /\ search.tolerance \in Nat /\ search.maxIterations \in Nat \ {0}
           /\ \A x \in Nat : At(x) \in Int
BY SearchAssumption DEF SearchTypeOK, IntegerResiduals, At

\* The starting state.
LEMMA SearchStarts == SearchInit => SearchInv
<1> SUFFICES ASSUME SearchInit PROVE SearchInv
  OBVIOUS
<1> USE DEF SearchInit
<1>1. SearchTypeOK
  <2>1. expansions \in 0..MaxExpansions
    BY SearchAssumption
  <2> QED
    BY <2>1, Zenon DEF SearchTypeOK
<1>2. BoundsHold /\ FreshUntilBegun
  BY DEF BoundsHold, FreshUntilBegun
<1>3. BracketHolds /\ RootIsRoot /\ FallbackIsRecorded
  BY DEF BracketHolds, RootIsRoot, FallbackIsRecorded
<1> QED
  BY <1>1, <1>2, <1>3 DEF SearchInv

LEMMA BeginKeeps ==
    ASSUME IntegerResiduals, SearchInv, NEW s \in Searches, BeginSearch(s)
    PROVE  SearchInv'
<1>1. /\ s.lower \in Nat /\ s.upper \in Nat /\ s.lower <= s.upper
      /\ s.hardUpper \in Nat \cup {None} /\ s.guess \in Nat \cup {None}
      /\ s # None /\ s.maxIterations \in Nat /\ phase = "idle"
  BY SearchAssumption DEF BeginSearch
<1>2. /\ search' = s
      /\ phase' = (IF s.guess = None THEN "bracket" ELSE "newton")
      /\ fallback' = FALSE /\ iteration' = 0
  BY <1>1 DEF BeginSearch, SearchInv, SearchTypeOK, FreshUntilBegun
<1>3. /\ upper' \in Nat
      /\ s.hardUpper # None => upper' <= s.hardUpper
      /\ (s.hardUpper # None => s.lower <= s.hardUpper) => s.lower <= upper'
  <2>1. upper' = Bounded(s.upper, s.hardUpper)
    BY DEF BeginSearch
  <2> QED
    BY <1>1, <2>1, BoundedType
<1>4. SearchTypeOK'
  BY <1>1, <1>2, <1>3 DEF SearchInv, SearchTypeOK, BeginSearch
<1>5. BoundsHold'
  BY <1>1, <1>2, <1>3, SearchAssumption DEF BoundsHold, HardUpperBelow
<1>6. (FreshUntilBegun /\ BracketHolds /\ RootIsRoot /\ FallbackIsRecorded)'
  BY <1>1, <1>2 DEF FreshUntilBegun, BracketHolds, RootIsRoot, FallbackIsRecorded
<1> QED
  BY <1>4, <1>5, <1>6 DEF SearchInv

\* A search that ends has its result checked by RootIsRoot alone.
LEMMA FinishKeeps ==
    ASSUME IntegerResiduals, SearchInv, phase # "idle",
           NEW how \in {"no_physical_solution", "not_converged"},
           Finish(how), UNCHANGED <<best, fallback>>, phase \in {"bracket", "brent"}
    PROVE  SearchInv'
<1>1. SearchTypeOK' /\ BoundsHold' /\ FreshUntilBegun'
  BY DEF Finish, SearchInv, SearchTypeOK, BoundsHold, FreshUntilBegun, Ended
<1>2. BracketHolds' /\ RootIsRoot' /\ FallbackIsRecorded'
  BY DEF Finish, SearchInv, BracketHolds, RootIsRoot, FallbackIsRecorded
<1> QED
  BY <1>1, <1>2 DEF SearchInv

\* A bound of the bracket where the residual is null.
LEMMA BoundKeeps ==
    ASSUME IntegerResiduals, SearchInv, LowerIsRoot \/ UpperIsRoot
    PROVE  SearchInv'
<1>1. /\ phase = "bracket" /\ phase' = "found"
      /\ UNCHANGED <<search, upper, expansions, worse, iteration, fallback>>
  BY DEF LowerIsRoot, UpperIsRoot, Finish
<1>2. /\ search.lower \in Nat /\ search.tolerance \in Nat
      /\ search.hardUpper \in Nat \cup {None} /\ upper \in Nat
  BY <1>1, Parameters DEF SearchInv, SearchTypeOK
<1>3. best' \in Nat /\ At(best)' = 0
  BY <1>1, <1>2 DEF LowerIsRoot, UpperIsRoot, fLower, At
<1>4. search.lower <= best' /\ (search.hardUpper # None => best' <= Greatest(search.hardUpper, search.lower))
  BY <1>1, <1>2, SearchAssumption
     DEF LowerIsRoot, UpperIsRoot, Greatest, SearchInv, BoundsHold
<1>5. SearchTypeOK'
  BY <1>1, <1>3 DEF SearchInv, SearchTypeOK, Ended
<1>6. RootIsRoot'
  <2>1. Small'
    BY <1>1, <1>2, <1>3 DEF Small, Magnitude, At
  <2> QED
    BY <1>1, <1>4, <2>1 DEF RootIsRoot
<1>7. BoundsHold' /\ FreshUntilBegun' /\ BracketHolds' /\ FallbackIsRecorded'
  BY <1>1 DEF BoundsHold, FreshUntilBegun, BracketHolds, FallbackIsRecorded
<1> QED
  BY <1>5, <1>6, <1>7 DEF SearchInv

LEMMA ExpandKeeps ==
    ASSUME IntegerResiduals, SearchInv, Expand
    PROVE  SearchInv'
<1>1. /\ phase = "bracket" /\ upper' = Bounded(2 * upper, search.hardUpper)
      /\ expansions' = expansions + 1 /\ expansions < MaxExpansions
      /\ UNCHANGED <<search, phase, worse, best, iteration, fallback>>
  BY DEF Expand
<1>2. search.lower \in Nat /\ search.hardUpper \in Nat \cup {None} /\ upper \in Nat /\ 2 * upper \in Nat
  BY <1>1, Parameters DEF SearchInv, SearchTypeOK
<1>3. SearchTypeOK'
  <2>1. upper' \in Nat
    BY <1>1, <1>2, BoundedType
  <2>2. expansions' \in 0..MaxExpansions
    BY <1>1, SearchAssumption DEF SearchInv, SearchTypeOK
  <2> QED
    BY <1>1, <2>1, <2>2 DEF SearchInv, SearchTypeOK
<1>4. BoundsHold'
  <2>1. ~HardUpperBelow /\ search.lower <= upper
    BY <1>1 DEF Expand, SameSign, SearchInv, BoundsHold
  <2>2. search.lower <= 2 * upper /\ (search.hardUpper # None => search.lower <= search.hardUpper)
    BY <1>2, <2>1, SearchAssumption DEF HardUpperBelow
  <2>3. search.lower <= upper' /\ (search.hardUpper # None => upper' <= search.hardUpper)
    BY <1>1, <1>2, <2>2, BoundedType
  <2> QED
    BY <1>1, <2>3 DEF BoundsHold
<1>5. FreshUntilBegun' /\ BracketHolds' /\ RootIsRoot' /\ FallbackIsRecorded'
  BY <1>1 DEF SearchInv, FreshUntilBegun, BracketHolds, RootIsRoot, FallbackIsRecorded
<1> QED
  BY <1>3, <1>4, <1>5 DEF SearchInv

\* The two points are ordered by their residuals.
LEMMA OrderedPoints ==
    ASSUME NEW x, NEW y, At(x) \in Int, At(y) \in Int, Ordered(x, y)
    PROVE  /\ Magnitude(At(best')) <= Magnitude(At(worse'))
           /\ \/ worse' = x /\ best' = y
              \/ worse' = y /\ best' = x
BY DEF Ordered, Magnitude

LEMMA StartKeeps ==
    ASSUME IntegerResiduals, SearchInv, StartBrent
    PROVE  SearchInv'
<1>1. /\ phase = "bracket" /\ phase' = "brent" /\ iteration' = 0 /\ ~HardUpperBelow
      /\ Opposite(At(search.lower), At(upper)) /\ Ordered(search.lower, upper)
      /\ UNCHANGED <<search, upper, expansions, fallback>>
  BY DEF StartBrent, fLower
<1>2. /\ search.lower \in Nat /\ upper \in Nat /\ search.lower <= upper
      /\ search.maxIterations \in Nat
      /\ At(search.lower) \in Int /\ At(upper) \in Int
  BY <1>1, Parameters DEF SearchInv, SearchTypeOK, BoundsHold
<1>3. /\ Magnitude(At(best')) <= Magnitude(At(worse'))
      /\ \/ worse' = search.lower /\ best' = upper
         \/ worse' = upper /\ best' = search.lower
  BY <1>1, <1>2, OrderedPoints
<1>4. SearchTypeOK'
  BY <1>1, <1>2, <1>3 DEF SearchInv, SearchTypeOK
<1>5. BracketHolds'
  <2>1. Opposite(At(worse'), At(best')) /\ {worse', best'} \subseteq search.lower..upper
    BY <1>1, <1>2, <1>3 DEF Opposite
  <2> QED
    BY <1>1, <1>3, <2>1 DEF BracketHolds, At
<1>6. BoundsHold' /\ FreshUntilBegun' /\ RootIsRoot' /\ FallbackIsRecorded'
  BY <1>1 DEF SearchInv, BoundsHold, FreshUntilBegun, HardUpperBelow, RootIsRoot, FallbackIsRecorded
<1> QED
  BY <1>4, <1>5, <1>6 DEF SearchInv

LEMMA BrentKeeps ==
    ASSUME IntegerResiduals, SearchInv, NEW s \in Abscissas, BrentStep(s)
    PROVE  SearchInv'
<1>1. /\ phase = "brent" /\ iteration < search.maxIterations /\ ~Small
      /\ Accepted(s) \/ s = Midpoint
      /\ iteration' = iteration + 1
      /\ UNCHANGED <<search, phase, upper, expansions, fallback>>
  BY DEF BrentStep
<1>2. /\ worse \in Nat /\ best \in Nat /\ s \in Nat /\ search.lower \in Nat /\ upper \in Nat
      /\ search.maxIterations \in Nat /\ search.tolerance \in Nat /\ iteration \in Nat
      /\ At(worse) \in Int /\ At(best) \in Int /\ At(s) \in Int
  BY <1>1, Parameters, SearchAssumption DEF SearchInv, SearchTypeOK
<1>3. Opposite(At(worse), At(best)) /\ {worse, best} \subseteq search.lower..upper
  BY <1>1, <1>2 DEF SearchInv, BracketHolds, Small, Magnitude
<1>4. s \in search.lower..upper
  BY <1>1, <1>2, <1>3 DEF Accepted, Midpoint
<1>5. /\ Magnitude(At(best')) <= Magnitude(At(worse'))
      /\ Opposite(At(worse'), At(best')) \/ At(best') = 0
      /\ {worse', best'} \subseteq search.lower..upper
  <2>1. CASE Opposite(At(worse), At(s))
    <3>1. Ordered(worse, s)
      BY <2>1 DEF BrentStep
    <3>2. /\ Magnitude(At(best')) <= Magnitude(At(worse'))
          /\ \/ worse' = worse /\ best' = s
             \/ worse' = s /\ best' = worse
      BY <1>2, <3>1, OrderedPoints
    <3> QED
      BY <1>2, <1>3, <1>4, <2>1, <3>2 DEF Opposite
  <2>2. CASE ~Opposite(At(worse), At(s))
    <3>1. Ordered(s, best)
      BY <2>2 DEF BrentStep
    <3>2. /\ Magnitude(At(best')) <= Magnitude(At(worse'))
          /\ \/ worse' = s /\ best' = best
             \/ worse' = best /\ best' = s
      BY <1>2, <3>1, OrderedPoints
    <3>3. Opposite(At(s), At(best)) \/ At(s) = 0
      BY <1>2, <1>3, <2>2 DEF Opposite
    <3>4. At(s) = 0 => At(best') = 0
      BY <1>2, <1>3, <3>2 DEF Magnitude, Opposite
    <3> QED
      BY <1>2, <1>3, <1>4, <3>2, <3>3, <3>4 DEF Opposite
  <2> QED
    BY <2>1, <2>2
<1>6. worse' \in Nat /\ best' \in Nat
  BY <1>2, <1>5
<1>7. SearchTypeOK'
  BY <1>1, <1>2, <1>6 DEF SearchInv, SearchTypeOK
<1>8. BracketHolds'
  BY <1>1, <1>5 DEF BracketHolds, At
<1>9. BoundsHold' /\ FreshUntilBegun' /\ RootIsRoot' /\ FallbackIsRecorded'
  BY <1>1 DEF SearchInv, BoundsHold, FreshUntilBegun, HardUpperBelow, RootIsRoot, FallbackIsRecorded
<1> QED
  BY <1>7, <1>8, <1>9 DEF SearchInv

LEMMA ConvergesKeeps ==
    ASSUME IntegerResiduals, SearchInv, BrentConverges \/ NewtonConverges
    PROVE  SearchInv'
<1>1. /\ phase \in {"brent", "newton"} /\ phase' = "found" /\ Small
      /\ UNCHANGED <<search, upper, expansions, worse, best, iteration, fallback>>
  BY DEF BrentConverges, NewtonConverges, Finish
<1>2. /\ search.lower \in Nat /\ upper \in Nat /\ best \in Nat
      /\ search.hardUpper \in Nat \cup {None}
  BY <1>1, Parameters DEF SearchInv, SearchTypeOK
<1>3. RootIsRoot'
  <2>1. Small'
    BY <1>1 DEF Small, At
  <2>2. CASE phase = "newton"
    BY <1>1, <2>1, <2>2 DEF RootIsRoot, SearchInv, FreshUntilBegun
  <2>3. CASE phase = "brent"
    <3>1. best \in search.lower..upper /\ (search.hardUpper # None => upper <= search.hardUpper)
      BY <2>3 DEF SearchInv, BracketHolds, BoundsHold, FreshUntilBegun
    <3>2. search.hardUpper # None => best <= Greatest(search.hardUpper, search.lower)
      BY <1>2, <3>1 DEF Greatest
    <3> QED
      BY <1>1, <1>2, <2>1, <3>1, <3>2 DEF RootIsRoot
  <2> QED
    BY <1>1, <2>2, <2>3
<1>4. SearchTypeOK'
  BY <1>1 DEF SearchInv, SearchTypeOK, Ended
<1>5. BoundsHold' /\ FreshUntilBegun' /\ BracketHolds' /\ FallbackIsRecorded'
  BY <1>1 DEF BoundsHold, FreshUntilBegun, BracketHolds, FallbackIsRecorded
<1> QED
  BY <1>3, <1>4, <1>5 DEF SearchInv

LEMMA NewtonKeeps ==
    ASSUME IntegerResiduals, SearchInv, NEW x \in Abscissas, NewtonStep(x)
    PROVE  SearchInv'
<1>1. /\ phase = "newton" /\ iteration < search.maxIterations
      /\ best' = x /\ iteration' = iteration + 1
      /\ UNCHANGED <<search, phase, upper, expansions, worse, fallback>>
  BY DEF NewtonStep
<1>2. x \in Nat /\ search.maxIterations \in Nat
  BY <1>1, Parameters, SearchAssumption DEF SearchInv
<1>3. SearchTypeOK'
  BY <1>1, <1>2 DEF SearchInv, SearchTypeOK
<1>4. BoundsHold'
  BY <1>1 DEF SearchInv, BoundsHold, HardUpperBelow
<1>5. FreshUntilBegun' /\ BracketHolds' /\ RootIsRoot' /\ FallbackIsRecorded'
  BY <1>1 DEF SearchInv, FreshUntilBegun, BracketHolds, RootIsRoot, FallbackIsRecorded
<1> QED
  BY <1>3, <1>4, <1>5 DEF SearchInv

LEMMA NewtonFailsKeeps ==
    ASSUME IntegerResiduals, SearchInv, NewtonFails
    PROVE  SearchInv'
<1>1. /\ phase = "newton" /\ phase' = "bracket" /\ fallback' = TRUE
      /\ UNCHANGED <<search, upper, expansions, worse, best, iteration>>
  BY DEF NewtonFails
<1>2. SearchTypeOK'
  BY <1>1 DEF SearchInv, SearchTypeOK
<1>3. BoundsHold'
  BY <1>1 DEF SearchInv, BoundsHold, HardUpperBelow
<1>4. FreshUntilBegun' /\ BracketHolds' /\ RootIsRoot' /\ FallbackIsRecorded'
  BY <1>1 DEF SearchInv, FreshUntilBegun, BracketHolds, RootIsRoot, FallbackIsRecorded
<1> QED
  BY <1>2, <1>3, <1>4 DEF SearchInv

LEMMA SearchInvKept ==
    ASSUME IntegerResiduals, SearchInv, [SearchNext]_searchVars
    PROVE  SearchInv'
<1>1. CASE UNCHANGED searchVars
  BY <1>1
     DEF searchVars, SearchInv, SearchTypeOK, BoundsHold, FreshUntilBegun, BracketHolds,
         RootIsRoot, FallbackIsRecorded, HardUpperBelow, Small, At
<1>2. ASSUME NEW s \in Searches, BeginSearch(s) PROVE SearchInv'
  BY <1>2, BeginKeeps
<1>3. CASE LowerIsRoot \/ UpperIsRoot
  BY <1>3, BoundKeeps
<1>4. CASE Expand
  BY <1>4, ExpandKeeps
<1>5. CASE NoBracket
  BY <1>5, FinishKeeps DEF NoBracket
<1>6. CASE StartBrent
  BY <1>6, StartKeeps
<1>7. CASE BrentConverges \/ NewtonConverges
  BY <1>7, ConvergesKeeps
<1>8. ASSUME NEW s \in Abscissas, BrentStep(s) PROVE SearchInv'
  BY <1>8, BrentKeeps
<1>9. CASE BrentExhausted
  BY <1>9, FinishKeeps DEF BrentExhausted
<1>10. ASSUME NEW x \in Abscissas, NewtonStep(x) PROVE SearchInv'
  BY <1>10, NewtonKeeps
<1>11. CASE NewtonFails
  BY <1>11, NewtonFailsKeeps
<1> QED
  BY <1>1, <1>2, <1>3, <1>4, <1>5, <1>6, <1>7, <1>8, <1>9, <1>10, <1>11
     DEF SearchNext, SearchStep

LEMMA SearchIsSafe == ASSUME IntegerResiduals PROVE SearchSpec => []SearchInv
<1>1. SearchInit => SearchInv
  BY SearchStarts
<1>2. SearchInv /\ [SearchNext]_searchVars => SearchInv'
  BY SearchInvKept
<1> QED
  BY <1>1, <1>2, PTL DEF SearchSpec

\* A root that is returned is a root, within the bounds of the physical domain.
THEOREM ReturnedRoots == ASSUME IntegerResiduals PROVE SearchSpec => []RootIsRoot
<1>1. SearchInv => RootIsRoot
  BY DEF SearchInv
<1> QED
  BY <1>1, SearchIsSafe, PTL

\* Brent's two points always enclose a change of sign.
THEOREM EnclosedSign == ASSUME IntegerResiduals PROVE SearchSpec => []BracketHolds
<1>1. SearchInv => BracketHolds
  BY DEF SearchInv
<1> QED
  BY <1>1, SearchIsSafe, PTL

\* The types, and the limits on expansions and iterations.
THEOREM SearchTypes == ASSUME IntegerResiduals PROVE SearchSpec => []SearchTypeOK
<1>1. SearchInv => SearchTypeOK
  BY DEF SearchInv
<1> QED
  BY <1>1, SearchIsSafe, PTL

\* A switch from Newton to the bracket is recorded, and no other.
THEOREM RecordedFallbacks == ASSUME IntegerResiduals PROVE SearchSpec => []FallbackIsRecorded
<1>1. SearchInv => FallbackIsRecorded
  BY DEF SearchInv
<1> QED
  BY <1>1, SearchIsSafe, PTL

\* All that a caller of the solvers relies on.
THEOREM SoundSearches == ASSUME IntegerResiduals PROVE SearchSpec => []SearchIsSound
<1>1. SearchInv => SearchIsSound
  BY DEF SearchInv, SearchIsSound
<1> QED
  BY <1>1, SearchIsSafe, PTL

\* The interval between the two points of Brent's method only shrinks.
THEOREM NarrowingBracket == ASSUME IntegerResiduals PROVE SearchSpec => BracketNarrows
<1> DEFINE Narrows == phase = "brent" /\ phase' = "brent" =>
                 {worse', best'} \subseteq Least(worse, best)..Greatest(worse, best)
<1>1. ASSUME SearchInv, [SearchNext]_searchVars PROVE [Narrows]_searchVars
  <2>1. SUFFICES ASSUME phase = "brent", phase' = "brent", ~UNCHANGED searchVars
                 PROVE  Narrows
    OBVIOUS
  <2>2. PICK s \in Abscissas : BrentStep(s)
    BY <1>1, <2>1
       DEF SearchNext, SearchStep, BeginSearch, LowerIsRoot, UpperIsRoot, Expand, NoBracket,
           StartBrent, BrentConverges, BrentExhausted, NewtonConverges, NewtonStep, NewtonFails,
           Finish
  <2>3. /\ worse \in Nat /\ best \in Nat /\ s \in Nat
        /\ {worse', best'} \subseteq {worse, best, s}
    <3>1. worse \in Nat /\ best \in Nat /\ s \in Nat
      BY <1>1, SearchAssumption DEF SearchInv, SearchTypeOK
    <3>2. {worse', best'} \subseteq {worse, best, s}
      BY <2>2 DEF BrentStep, Ordered
    <3> QED
      BY <3>1, <3>2
  <2>4. s \in Least(worse, best)..Greatest(worse, best)
    BY <2>2, <2>3 DEF BrentStep, Accepted, Midpoint, Least, Greatest
  <2> QED
    BY <2>3, <2>4 DEF Least, Greatest
<1>2. SearchSpec => []SearchInv
  BY SearchIsSafe
<1> QED
  BY <1>1, <1>2, PTL DEF SearchSpec, BracketNarrows

(***************************************************************************)
(* "No physical solution" is true.  The residual is monotone, as           *)
(* solve_monotonic asks of its callers, and the expansions allowed are     *)
(* enough to reach the physical bound from the upper bound of the search.  *)
(***************************************************************************)
MonotoneResiduals ==
    \A s \in Searches :
        \/ \A x, y \in Nat : x <= y => Residual(s.equation, x) <= Residual(s.equation, y)
        \/ \A x, y \in Nat : x <= y => Residual(s.equation, y) <= Residual(s.equation, x)

\* The upper bounds that doubling tries when nothing limits it.
Doubled(s) ==
    {d \in [0..MaxExpansions -> Nat] :
        d[0] = s.upper /\ \A i \in 0..(MaxExpansions - 1) : d[i + 1] = 2 * d[i]}

EnoughExpansions ==
    \A s \in Searches :
        s.hardUpper # None => \E d \in Doubled(s) : s.hardUpper <= d[MaxExpansions]

\* The bracket is as large as its expansions make it.
BracketGrows ==
    /\ phase \in {"idle", "newton"} => expansions = 0
    /\ phase \in {"newton", "bracket"} /\ search.hardUpper # None =>
          \A d \in Doubled(search) : Least(search.hardUpper, d[expansions]) <= upper

\* What was seen when the search gave up.
SignAtTheBound ==
    phase = "no_physical_solution" /\ ~HardUpperBelow =>
        /\ SameSign
        /\ search.hardUpper # None => search.hardUpper <= upper

GivenUpInv == SearchInv /\ BracketGrows /\ SignAtTheBound

LEMMA GivenUpInvKept ==
    ASSUME IntegerResiduals, EnoughExpansions, GivenUpInv, [SearchNext]_searchVars
    PROVE  GivenUpInv'
<1>i. SearchInv /\ SearchInv'
  BY SearchInvKept DEF GivenUpInv
<1>m. MaxExpansions \in Nat /\ None \notin Nat
  BY SearchAssumption
<1>1. CASE UNCHANGED searchVars
  BY <1>1, <1>i
     DEF searchVars, GivenUpInv, BracketGrows, SignAtTheBound, SameSign, HardUpperBelow, fLower, At
<1>2. ASSUME NEW s \in Searches, BeginSearch(s) PROVE GivenUpInv'
  <2>1. /\ s.upper \in Nat /\ s.hardUpper \in Nat \cup {None}
        /\ search' = s /\ upper' = Bounded(s.upper, s.hardUpper)
        /\ phase' \in {"bracket", "newton"} /\ expansions' = 0
    BY <1>2, SearchAssumption DEF BeginSearch, GivenUpInv, BracketGrows
  <2>2. \A d \in Doubled(s) : d[0] = s.upper
    BY DEF Doubled
  <2> QED
    BY <1>i, <1>m, <2>1, <2>2 DEF GivenUpInv, BracketGrows, SignAtTheBound, Bounded, Least
<1>3. CASE Expand
  <2>1. /\ phase = "bracket" /\ upper' = Bounded(2 * upper, search.hardUpper)
        /\ expansions' = expansions + 1 /\ expansions < MaxExpansions
        /\ UNCHANGED <<search, phase>>
    BY <1>3 DEF Expand
  <2>2. /\ search.hardUpper \in Nat \cup {None} /\ upper \in Nat
        /\ expansions \in 0..(MaxExpansions - 1)
    BY <1>i, <1>m, <2>1, Parameters DEF SearchInv, SearchTypeOK
  <2>3. ASSUME search.hardUpper # None, NEW d \in Doubled(search)
        PROVE  Least(search.hardUpper, d[expansions + 1]) <= upper'
    <3>1. d[expansions] \in Nat /\ d[expansions + 1] = 2 * d[expansions]
      BY <1>m, <2>2 DEF Doubled
    <3>2. Least(search.hardUpper, d[expansions]) <= upper
      BY <2>1, <2>3 DEF GivenUpInv, BracketGrows
    <3> QED
      BY <1>m, <2>1, <2>2, <2>3, <3>1, <3>2 DEF Bounded, Least
  <2> QED
    BY <1>i, <2>1, <2>3 DEF GivenUpInv, BracketGrows, SignAtTheBound
<1>4. CASE NoBracket
  <2>1. /\ phase = "bracket" /\ phase' = "no_physical_solution"
        /\ UNCHANGED <<search, upper, expansions>>
        /\ HardUpperBelow \/ (SameSign /\ (AtHardUpper \/ expansions = MaxExpansions))
    BY <1>4 DEF NoBracket, Finish
  <2>2. upper \in Nat /\ search \in Searches /\ search.hardUpper \in Nat \cup {None}
    BY <1>i, <2>1, Parameters DEF SearchInv, SearchTypeOK
  <2>3. ASSUME ~HardUpperBelow, search.hardUpper # None PROVE search.hardUpper <= upper
    <3>1. CASE AtHardUpper
      BY <2>2, <2>3, <3>1 DEF AtHardUpper
    <3>2. CASE expansions = MaxExpansions
      <4>1. PICK d \in Doubled(search) : search.hardUpper <= d[MaxExpansions]
        BY <2>2, <2>3 DEF EnoughExpansions
      <4>2. d[MaxExpansions] \in Nat
        BY <1>m DEF Doubled
      <4>3. Least(search.hardUpper, d[MaxExpansions]) <= upper
        BY <2>1, <2>3, <3>2 DEF GivenUpInv, BracketGrows
      <4> QED
        BY <2>2, <2>3, <4>1, <4>2, <4>3 DEF Least
    <3> QED
      BY <2>1, <2>3, <3>1, <3>2
  <2>4. SignAtTheBound'
    BY <2>1, <2>3 DEF SignAtTheBound, SameSign, HardUpperBelow, fLower, At
  <2> QED
    BY <1>i, <2>1, <2>4 DEF GivenUpInv, BracketGrows
<1>5. CASE NewtonFails
  BY <1>5, <1>i DEF NewtonFails, GivenUpInv, BracketGrows, SignAtTheBound
<1>6. ASSUME NEW x \in Abscissas, NewtonStep(x) PROVE GivenUpInv'
  BY <1>6, <1>i DEF NewtonStep, GivenUpInv, BracketGrows, SignAtTheBound
<1>7. CASE \/ LowerIsRoot \/ UpperIsRoot \/ StartBrent \/ BrentConverges \/ BrentExhausted
           \/ NewtonConverges \/ \E s \in Abscissas : BrentStep(s)
  <2>1. phase' \in {"found", "brent", "not_converged"}
    BY <1>7
       DEF LowerIsRoot, UpperIsRoot, StartBrent, BrentConverges, BrentExhausted, NewtonConverges,
           BrentStep, Finish
  <2> QED
    BY <1>i, <2>1 DEF GivenUpInv, BracketGrows, SignAtTheBound
<1> QED
  BY <1>1, <1>2, <1>3, <1>4, <1>5, <1>6, <1>7 DEF SearchNext, SearchStep

\* Where the sign is kept at the bound, a monotone residual keeps it everywhere.
LEMMA SignIsKept ==
    ASSUME IntegerResiduals, MonotoneResiduals, GivenUpInv
    PROVE  NoSolutionIsTrue
<1> SUFFICES ASSUME phase = "no_physical_solution", NEW x \in Abscissas, search.lower <= x,
                    x <= (IF search.hardUpper = None THEN upper ELSE search.hardUpper)
             PROVE  At(x) # 0 /\ ~Opposite(fLower, At(x))
  BY DEF NoSolutionIsTrue
<1>1. /\ search \in Searches /\ search.lower \in Nat /\ upper \in Nat /\ x \in Nat
      /\ search.hardUpper \in Nat \cup {None} /\ None \notin Nat
      /\ At(x) \in Int /\ At(upper) \in Int /\ fLower \in Int
  BY Parameters, SearchAssumption DEF GivenUpInv, SearchInv, SearchTypeOK, fLower
<1>2. ~HardUpperBelow
  BY <1>1 DEF HardUpperBelow
<1>3. /\ fLower # 0 /\ At(upper) # 0 /\ ~Opposite(fLower, At(upper)) /\ x <= upper
  BY <1>1, <1>2 DEF GivenUpInv, SignAtTheBound, SameSign
<1>4. \/ fLower <= At(x) /\ At(x) <= At(upper)
      \/ At(x) <= fLower /\ At(upper) <= At(x)
  BY <1>1, <1>3 DEF MonotoneResiduals, At, fLower
<1> QED
  BY <1>1, <1>3, <1>4 DEF Opposite

\* When the search says that there is no physical solution there is none between its
\* bounds (bracket_root, NoPhysicalSolutionError), for every monotone residual.
THEOREM NoSolutionsMissed ==
    ASSUME IntegerResiduals, MonotoneResiduals, EnoughExpansions
    PROVE  SearchSpec => []NoSolutionIsTrue
<1>1. SearchInit => GivenUpInv
  BY SearchStarts DEF GivenUpInv, BracketGrows, SignAtTheBound, SearchInit
<1>2. GivenUpInv /\ [SearchNext]_searchVars => GivenUpInv'
  BY GivenUpInvKept
<1>3. GivenUpInv => NoSolutionIsTrue
  BY SignIsKept
<1> QED
  BY <1>1, <1>2, <1>3, PTL DEF SearchSpec

-----------------------------------------------------------------------------
(***************************************************************************)
(* PumpSearch: every configuration of the space is accounted for, and an   *)
(* answer that is called optimal is one.                                   *)
(***************************************************************************)

(***************************************************************************)
(* The order of the visits.                                                *)
(***************************************************************************)
Settings(n, s) == [1..n -> 0..s]

\* What the visits compare, in one list: the pumps in service, then the speeds.
Keys(c, n) == [i \in 1..(2 * n) |-> IF i <= n THEN (IF On(c, i) THEN 1 ELSE 0) ELSE c[i - n]]

LEMMA KeysAreNaturals ==
    ASSUME NEW n \in Nat, NEW s \in Nat, NEW c \in Settings(n, s)
    PROVE  /\ \A i \in 1..(2 * n) : Keys(c, n)[i] \in Nat
           /\ \A i \in 1..n : i \in 1..(2 * n) /\ Keys(c, n)[i] = IF On(c, i) THEN 1 ELSE 0
           /\ \A i \in 1..n : n + i \in 1..(2 * n) /\ Keys(c, n)[n + i] = c[i]
           /\ \A i \in 1..(2 * n) : ~(i <= n) => i - n \in 1..n /\ Keys(c, n)[i] = c[i - n]
  BY DEF Settings, Keys

LEMMA VisitsFollowKeys ==
    ASSUME NEW n \in Nat, NEW s \in Nat, NEW c \in Settings(n, s), NEW d \in Settings(n, s)
    PROVE  /\ Before(c, d) <=> Lex(Keys(c, n), Keys(d, n), 2 * n)
           /\ Same(Keys(c, n), Keys(d, n), 2 * n) <=> c = d
<1> DEFINE kc == Keys(c, n)
           kd == Keys(d, n)
<1>1. /\ DOMAIN c = 1..n /\ DOMAIN d = 1..n
      /\ \A i \in 1..n : c[i] \in Nat /\ d[i] \in Nat
  BY DEF Settings
<1>2. /\ \A i \in 1..n : i \in 1..(2 * n) /\ kc[i] = (IF On(c, i) THEN 1 ELSE 0) /\ kd[i] = IF On(d, i) THEN 1 ELSE 0
      /\ \A i \in 1..n : n + i \in 1..(2 * n) /\ kc[n + i] = c[i] /\ kd[n + i] = d[i]
      /\ \A i \in 1..(2 * n) : ~(i <= n) => i - n \in 1..n /\ kc[i] = c[i - n] /\ kd[i] = d[i - n]
  BY KeysAreNaturals
<1> HIDE DEF kc, kd
<1>3. Active(c) = Active(d) <=> \A i \in 1..n : On(c, i) <=> On(d, i)
  BY <1>1 DEF Active
<1>4. ASSUME Active(c) # Active(d), Before(c, d) PROVE Lex(kc, kd, 2 * n)
  <2>1. PICK i \in 1..n : ~On(c, i) /\ On(d, i) /\ \A j \in 1..(i - 1) : On(c, j) <=> On(d, j)
    BY <1>1, <1>4 DEF Before
  <2>2. \A j \in 1..(i - 1) : j \in 1..n /\ kc[j] = kd[j]
    BY <1>2, <2>1
  <2> QED
    BY <1>2, <2>1, <2>2 DEF Lex
<1>5. ASSUME Active(c) # Active(d), Lex(kc, kd, 2 * n) PROVE Before(c, d)
  <2>1. PICK i \in 1..(2 * n) : kc[i] < kd[i] /\ \A j \in 1..(i - 1) : kc[j] = kd[j]
    BY <1>5 DEF Lex
  <2>2. i \in 1..n
    <3> SUFFICES ASSUME ~(i <= n) PROVE FALSE
      OBVIOUS
    <3>1. \A j \in 1..n : kc[j] = kd[j]
      BY <2>1
    <3>2. \A j \in 1..n : On(c, j) <=> On(d, j)
      BY <1>2, <3>1
    <3> QED
      BY <1>3, <1>5, <3>2
  <2>3. ~On(c, i) /\ On(d, i)
    BY <1>2, <2>1, <2>2
  <2>4. \A j \in 1..(i - 1) : On(c, j) <=> On(d, j)
    BY <1>2, <2>1, <2>2
  <2> QED
    BY <1>1, <1>5, <2>2, <2>3, <2>4 DEF Before
<1>6. ASSUME Active(c) = Active(d), Before(c, d) PROVE Lex(kc, kd, 2 * n)
  <2>1. PICK i \in 1..n : c[i] < d[i] /\ \A j \in 1..(i - 1) : c[j] = d[j]
    BY <1>1, <1>6 DEF Before
  <2>2. ASSUME NEW j \in 1..(n + i - 1) PROVE kc[j] = kd[j]
    <3>1. CASE j <= n
      BY <1>2, <1>3, <1>6, <3>1
    <3>2. CASE ~(j <= n)
      <4>1. j \in 1..(2 * n) /\ j - n \in 1..(i - 1)
        BY <3>2
      <4> QED
        BY <1>2, <2>1, <3>2, <4>1
    <3> QED
      BY <3>1, <3>2
  <2>3. n + i \in 1..(2 * n) /\ kc[n + i] < kd[n + i]
    BY <1>2, <2>1
  <2> QED
    BY <2>2, <2>3 DEF Lex
<1>7. ASSUME Active(c) = Active(d), Lex(kc, kd, 2 * n) PROVE Before(c, d)
  <2>1. PICK i \in 1..(2 * n) : kc[i] < kd[i] /\ \A j \in 1..(i - 1) : kc[j] = kd[j]
    BY <1>7 DEF Lex
  <2>2. ~(i <= n)
    BY <1>2, <1>3, <1>7, <2>1
  <2>3. i - n \in 1..n /\ c[i - n] < d[i - n]
    BY <1>2, <2>1, <2>2
  <2>4. ASSUME NEW j \in 1..(i - n - 1) PROVE c[j] = d[j]
    <3>1. j \in 1..n /\ n + j \in 1..(i - 1)
      BY <2>3
    <3> QED
      BY <1>2, <2>1, <3>1
  <2> QED
    BY <1>1, <1>7, <2>3, <2>4 DEF Before
<1>8. ASSUME Same(kc, kd, 2 * n) PROVE c = d
  <2>1. \A i \in 1..n : c[i] = d[i]
    BY <1>2, <1>8 DEF Same
  <2> QED
    BY <2>1 DEF Settings
<1>9. c = d => Same(kc, kd, 2 * n)
  BY DEF Same, kc, kd
<1> QED
  <2>1. Before(c, d) <=> Lex(kc, kd, 2 * n)
    BY <1>4, <1>5, <1>6, <1>7
  <2> QED
    BY <1>8, <1>9, <2>1 DEF kc, kd

\* The visits are in a strict total order.
LEMMA VisitsAreOrdered ==
    ASSUME NEW n \in Nat, NEW s \in Nat
    PROVE  /\ \A c \in Settings(n, s) : ~Before(c, c)
           /\ \A c, d, e \in Settings(n, s) : Before(c, d) /\ Before(d, e) => Before(c, e)
           /\ \A c, d \in Settings(n, s) : c # d => Before(c, d) \/ Before(d, c)
<1>0. 2 * n \in Nat
  OBVIOUS
<1>1. ASSUME NEW c \in Settings(n, s) PROVE ~Before(c, c)
  <2>1. ~Lex(Keys(c, n), Keys(c, n), 2 * n)
    BY <1>0, KeysAreNaturals, LexTotal
  <2> QED
    BY <2>1, VisitsFollowKeys
<1>2. ASSUME NEW c \in Settings(n, s), NEW d \in Settings(n, s), NEW e \in Settings(n, s), Before(c, d), Before(d, e)
      PROVE  Before(c, e)
  <2>1. Lex(Keys(c, n), Keys(d, n), 2 * n) /\ Lex(Keys(d, n), Keys(e, n), 2 * n)
    BY <1>2, VisitsFollowKeys
  <2>2. \A i \in 1..(2 * n) : Keys(c, n)[i] \in Int /\ Keys(d, n)[i] \in Int /\ Keys(e, n)[i] \in Int
    BY KeysAreNaturals
  <2>3. Lex(Keys(c, n), Keys(e, n), 2 * n)
    BY <1>0, <2>1, <2>2, LexTransitive
  <2> QED
    BY <2>3, VisitsFollowKeys
<1>3. ASSUME NEW c \in Settings(n, s), NEW d \in Settings(n, s), c # d PROVE Before(c, d) \/ Before(d, c)
  <2>1. ~Same(Keys(c, n), Keys(d, n), 2 * n)
    BY <1>3, VisitsFollowKeys
  <2>2. \A i \in 1..(2 * n) : Keys(c, n)[i] \in Int /\ Keys(d, n)[i] \in Int
    BY KeysAreNaturals
  <2>3. Lex(Keys(c, n), Keys(d, n), 2 * n) \/ Lex(Keys(d, n), Keys(c, n), 2 * n)
    BY <1>0, <2>1, <2>2, LexTotal
  <2> QED
    BY <2>3, VisitsFollowKeys
<1> QED
  BY <1>1, <1>2, <1>3

\* What is left to visit has a first configuration.
LEMMA VisitsHaveAFirst ==
    ASSUME NEW n \in Nat, NEW s \in Nat, NEW P \in SUBSET Settings(n, s), P # {}
    PROVE  \E c \in P : \A d \in P \ {c} : Before(c, d)
<1> DEFINE K == {Keys(c, n) : c \in P}
<1>1. K # {} /\ \A f \in K : \A i \in 1..(2 * n) : f[i] \in Nat
  <2>1. \A c \in P : \A i \in 1..(2 * n) : Keys(c, n)[i] \in Nat
    BY KeysAreNaturals
  <2> QED
    BY <2>1
<1>2. PICK f \in K : \A g \in K : Same(f, g, 2 * n) \/ Lex(f, g, 2 * n)
  <2> HIDE DEF K
  <2>1. 2 * n \in Nat
    OBVIOUS
  <2> QED
    BY <1>1, <2>1, LexLeast
<1>3. PICK c \in P : f = Keys(c, n)
  OBVIOUS
<1>4. ASSUME NEW d \in P, d # c PROVE Before(c, d)
  <2>1. Same(Keys(c, n), Keys(d, n), 2 * n) \/ Lex(Keys(c, n), Keys(d, n), 2 * n)
    BY <1>2, <1>3
  <2> QED
    BY <1>4, <2>1, VisitsFollowKeys
<1> QED
  BY <1>4

(***************************************************************************)
(* The ranking.                                                            *)
(***************************************************************************)
Space(r) == Settings(r.pumps, r.speeds)

\* What a ranking is made from: finitely many configurations, each with a value.
Rankable == /\ quest \in Quests /\ DOMAIN kept \subseteq Space(quest) /\ IsFiniteSet(DOMAIN kept)
            /\ \A c \in DOMAIN kept : kept[c] \in Int

\* The ranked configurations are those that are kept, each once, best first.
LEMMA RankedInOrder ==
    ASSUME Rankable
    PROVE  LET K == DOMAIN kept
               N == Cardinality(K)
           IN  /\ N \in Nat /\ Ranked \in [1..N -> K]
               /\ \A c \in K : \E i \in 1..N : Ranked[i] = c
               /\ \A i, j \in 1..N : i <= j => kept[Ranked[i]] <= kept[Ranked[j]]
<1> DEFINE K == DOMAIN kept
           N == Cardinality(K)
           R == {p \in K \X K : Better(p[1], p[2])}
<1>1. quest.pumps \in Nat /\ quest.speeds \in Nat /\ K \subseteq Settings(quest.pumps, quest.speeds)
  BY QuestAssumption DEF Rankable, Space
<1>2. \A c, d \in K : <<c, d>> \in R <=> Better(c, d)
  OBVIOUS
<1>3. StrictOrder(R, K)
  <2>1. /\ \A c \in K : ~Before(c, c)
        /\ \A c, d, e \in K : Before(c, d) /\ Before(d, e) => Before(c, e)
        /\ \A c, d \in K : c # d => Before(c, d) \/ Before(d, c)
    BY <1>1, VisitsAreOrdered
  <2>2. \A c \in K : kept[c] \in Int /\ IdOrder(c) \in Nat
    BY IdAssumption DEF Rankable, Space, Settings
  <2>3. /\ \A c \in K : ~Better(c, c)
        /\ \A c, d, e \in K : Better(c, d) /\ Better(d, e) => Better(c, e)
        /\ \A c, d \in K : c # d => Better(c, d) \/ Better(d, c)
    <3> HIDE DEF K
    <3> QED
      BY <2>1, <2>2 DEF Better
  <2> HIDE DEF R, K
  <2> QED
    BY <1>2, <2>3 DEF StrictOrder
<1>4. \A c \in K : RankIn(R, K, c) = Cardinality({d \in K : Better(d, c)})
  <2>1. ASSUME NEW c \in K PROVE {d \in K : <<d, c>> \in R} = {d \in K : Better(d, c)}
    BY <1>2
  <2> HIDE DEF R, K
  <2> QED
    BY <2>1 DEF RankIn
<1>5. /\ \A c \in K : RankIn(R, K, c) \in 0..(N - 1)
      /\ \A c, d \in K : <<c, d>> \in R => RankIn(R, K, c) < RankIn(R, K, d)
      /\ \A k \in 0..(N - 1) : \E c \in K : RankIn(R, K, c) = k
  <2>1. IsFiniteSet(K)
    BY DEF Rankable
  <2> HIDE DEF R, K
  <2> QED
    BY <1>3, <2>1, Ranks
<1>6. N \in Nat
  BY FS_CardinalityType DEF Rankable
<1>7. ASSUME NEW i \in 1..N
      PROVE  /\ Ranked[i] = CHOOSE c \in K : Cardinality({d \in K : Better(d, c)}) = i - 1
             /\ Ranked[i] \in K /\ RankIn(R, K, Ranked[i]) = i - 1
  <2>1. Ranked[i] = CHOOSE c \in K : Cardinality({d \in K : Better(d, c)}) = i - 1
    BY DEF Ranked
  <2>2. \E c \in K : Cardinality({d \in K : Better(d, c)}) = i - 1
    <3>1. i - 1 \in 0..(N - 1)
      BY <1>6
    <3> HIDE DEF R, K, N
    <3> QED
      BY <1>4, <1>5, <3>1
  <2> HIDE DEF R, K
  <2> QED
    BY <1>4, <2>1, <2>2
<1>8. Ranked \in [1..N -> K]
  <2>1. Ranked = [i \in 1..N |-> CHOOSE c \in K : Cardinality({d \in K : Better(d, c)}) = i - 1]
    BY DEF Ranked
  <2>2. \A i \in 1..N : (CHOOSE c \in K : Cardinality({d \in K : Better(d, c)}) = i - 1) \in K
    BY <1>7
  <2> HIDE DEF K, N
  <2> QED
    BY <2>1, <2>2
<1>9. ASSUME NEW c \in K, NEW d \in K, RankIn(R, K, c) = RankIn(R, K, d) PROVE c = d
  <2>1. RankIn(R, K, c) \in Int
    BY <1>5
  <2>2. ~(<<c, d>> \in R) /\ ~(<<d, c>> \in R)
    <3> HIDE DEF R, K, N
    <3> QED
      BY <1>5, <1>9, <2>1
  <2> HIDE DEF R, K, N
  <2> QED
    BY <1>3, <2>2 DEF StrictOrder
<1>10. ASSUME NEW c \in K PROVE \E i \in 1..N : Ranked[i] = c
  <2>1. RankIn(R, K, c) \in 0..(N - 1)
    BY <1>5
  <2>2. PICK i \in 1..N : i - 1 = RankIn(R, K, c)
    <3> HIDE DEF R, K, N
    <3>1. RankIn(R, K, c) + 1 \in 1..N /\ (RankIn(R, K, c) + 1) - 1 = RankIn(R, K, c)
      BY <1>6, <2>1
    <3> QED
      BY <3>1
  <2>3. Ranked[i] \in K /\ RankIn(R, K, Ranked[i]) = RankIn(R, K, c)
    BY <1>7, <2>2
  <2> HIDE DEF R, K, N
  <2> QED
    BY <1>9, <2>3
<1>11. ASSUME NEW i \in 1..N, NEW j \in 1..N, i <= j PROVE kept[Ranked[i]] <= kept[Ranked[j]]
  <2>1. \A c \in K : kept[c] \in Int
    BY DEF Rankable
  <2>2. Ranked[i] \in K /\ Ranked[j] \in K /\ RankIn(R, K, Ranked[i]) = i - 1 /\ RankIn(R, K, Ranked[j]) = j - 1
    BY <1>7
  <2>3. ~Better(Ranked[j], Ranked[i])
    <3>1. ~(RankIn(R, K, Ranked[j]) < RankIn(R, K, Ranked[i]))
      <4> HIDE DEF R, K, N
      <4> QED
        BY <1>6, <1>11, <2>2
    <3> HIDE DEF R, K, N
    <3> QED
      BY <1>2, <1>5, <2>2, <3>1
  <2>4. Ranked[i] = Ranked[j] \/ Better(Ranked[i], Ranked[j])
    <3> HIDE DEF R, K, N
    <3> QED
      BY <1>2, <1>3, <2>2, <2>3 DEF StrictOrder
  <2> HIDE DEF R, K, N
  <2> QED
    BY <2>1, <2>2, <2>4 DEF Better
<1> QED
  <2> HIDE DEF R
  <2> QED
    BY <1>6, <1>8, <1>10, <1>11

\* A ranking whose first was chosen among the best is still in order, and complete.
LEMMA PromotedInOrder ==
    ASSUME Rankable, Found, NEW c \in Selections
    PROVE  LET K == DOMAIN kept
               N == Cardinality(K)
               P == Promoted(c)
           IN  /\ N \in Nat \ {0} /\ P \in [1..N -> K]
               /\ \A d \in K : \E i \in 1..N : P[i] = d
               /\ \A i, j \in 1..N : i <= j => kept[P[i]] <= kept[P[j]]
<1> DEFINE K == DOMAIN kept
           N == Cardinality(K)
           ranks == Ranked
           k == CHOOSE i \in DOMAIN ranks : ranks[i] = c
           P == Promoted(c)
<1>1. /\ N \in Nat /\ ranks \in [1..N -> K]
      /\ \A d \in K : \E i \in 1..N : ranks[i] = d
      /\ \A i, j \in 1..N : i <= j => kept[ranks[i]] <= kept[ranks[j]]
  BY RankedInOrder
<1>2. P = [i \in DOMAIN ranks |-> IF i = 1 THEN c ELSE IF i <= k THEN ranks[i - 1] ELSE ranks[i]]
  BY DEF Promoted
<1>3. N \in Nat \ {0}
  BY <1>1 DEF Found
<1>4. \A d \in K : kept[d] \in Int
  BY DEF Rankable
<1>5. c \in K /\ \A d \in K : kept[c] <= kept[d]
  <2>1. c = ranks[1] \/ (c \in K /\ \A d \in K : kept[c] <= kept[d])
    BY DEF Selections
  <2> HIDE DEF ranks, K, N
  <2> QED
    BY <1>1, <1>3, <2>1
<1> HIDE DEF ranks, K, N, P
<1>6. k \in 1..N /\ ranks[k] = c
  BY <1>1, <1>5
<1> HIDE DEF k
<1>7. P = [i \in 1..N |-> IF i = 1 THEN c ELSE IF i <= k THEN ranks[i - 1] ELSE ranks[i]]
  BY <1>1, <1>2
<1>8. P \in [1..N -> K]
  <2>1. ASSUME NEW i \in 1..N PROVE P[i] \in K
    BY <1>1, <1>3, <1>5, <1>6, <1>7
  <2> QED
    BY <1>7, <2>1
<1>9. ASSUME NEW d \in K PROVE \E i \in 1..N : P[i] = d
  <2>1. PICK m \in 1..N : ranks[m] = d
    BY <1>1
  <2>2. CASE m < k
    <3>1. m + 1 \in 1..N /\ P[m + 1] = d
      BY <1>3, <1>6, <1>7, <2>1, <2>2
    <3> QED
      BY <3>1
  <2>3. CASE m = k
    <3>1. 1 \in 1..N /\ P[1] = d
      BY <1>3, <1>6, <1>7, <2>1, <2>3
    <3> QED
      BY <3>1
  <2>4. CASE m > k
    <3>1. P[m] = d
      BY <1>3, <1>6, <1>7, <2>1, <2>4
    <3> QED
      BY <3>1
  <2> QED
    BY <1>6, <2>2, <2>3, <2>4
<1>10. ASSUME NEW i \in 1..N, NEW j \in 1..N, i <= j PROVE kept[P[i]] <= kept[P[j]]
  <2>1. P[i] \in K /\ P[j] \in K
    BY <1>8
  <2>2. CASE i = 1
    BY <1>5, <1>7, <2>1, <2>2
  <2>3. CASE i # 1
    <3>1. PICK m \in 1..N : P[i] = ranks[m] /\ m = IF i <= k THEN i - 1 ELSE i
      <4>1. CASE i <= k
        <5>1. i - 1 \in 1..N /\ P[i] = ranks[i - 1]
          BY <1>3, <1>6, <1>7, <2>3, <4>1
        <5> QED
          BY <4>1, <5>1
      <4>2. CASE ~(i <= k)
        <5>1. i # 1 /\ P[i] = ranks[i]
          BY <1>3, <1>6, <1>7, <2>3, <4>2
        <5> QED
          BY <4>2, <5>1
      <4> QED
        BY <4>1, <4>2
    <3>2. PICK n \in 1..N : P[j] = ranks[n] /\ n = IF j <= k THEN j - 1 ELSE j
      <4>1. CASE j <= k
        <5>1. j - 1 \in 1..N /\ P[j] = ranks[j - 1]
          BY <1>3, <1>6, <1>7, <1>10, <2>3, <4>1
        <5> QED
          BY <4>1, <5>1
      <4>2. CASE ~(j <= k)
        <5>1. j # 1 /\ P[j] = ranks[j]
          BY <1>3, <1>6, <1>7, <1>10, <2>3, <4>2
        <5> QED
          BY <4>2, <5>1
      <4> QED
        BY <4>1, <4>2
    <3>3. m <= n
      BY <1>6, <1>10, <3>1, <3>2
    <3> QED
      BY <1>1, <3>1, <3>2, <3>3
  <2> QED
    BY <2>2, <2>3
<1> QED
  BY <1>3, <1>8, <1>9, <1>10 DEF K, N, P

(***************************************************************************)
(* The inductive invariant.                                                *)
(***************************************************************************)
\* The configurations the engine was called for and that are not kept.
Rejected == {c \in DOMAIN refused : refused[c] \in {"evaluated", "failed"}}
Sound    == quest # None /\ verdict # "unsound"

QuestIsKnown ==
    /\ quest \in Quests \cup {None}
    /\ verdict \in Conclusions \cup {None, "invalid", "unsound"}
    /\ quest = None => /\ verdict = None /\ computed = None /\ evaluated = 0
                       /\ pending = {} /\ DOMAIN kept = {} /\ DOMAIN refused = {}
    /\ Sound => QuestIsSound(quest)

FatesArePartition ==
    /\ Sound => pending \cup DOMAIN kept \cup DOMAIN refused = Configurations(quest)
    /\ pending \cap DOMAIN kept = {} /\ pending \cap DOMAIN refused = {} /\ DOMAIN kept \cap DOMAIN refused = {}

CallsAreCounted ==
    /\ IsFiniteSet(DOMAIN kept) /\ IsFiniteSet(Rejected)
    /\ evaluated = Cardinality(DOMAIN kept) + Cardinality(Rejected)
    /\ Sound /\ quest.maxEvaluations # None => evaluated <= quest.maxEvaluations

ValuesAreKnown == \A c \in DOMAIN kept : kept[c] \in Int

\* The budget stops the search at a configuration that was allowed.
BudgetStopsAtAllowed ==
    ~Complete => \E c \in DOMAIN refused : refused[c] = "budget" /\ Allowed(quest, c)

QuestInv ==
    /\ QuestIsKnown /\ FatesArePartition /\ CallsAreCounted /\ ValuesAreKnown /\ BudgetStopsAtAllowed
    /\ ComputedAsCounted /\ OptimalIsProved

LEMMA SpaceOfQuest ==
    ASSUME NEW r \in Quests
    PROVE  /\ Configurations(r) \subseteq Settings(r.pumps, r.speeds)
           /\ Configurations(r) = [1..r.pumps -> 0..r.speeds] \ (IF r.allowNone THEN {} ELSE {[i \in 1..r.pumps |-> 0]})
<1>1. r.pumps \in Nat /\ r.speeds \in Nat
  BY QuestAssumption
<1>2. ASSUME NEW c \in [1..r.pumps -> 0..r.speeds] PROVE Active(c) = {} <=> c = [i \in 1..r.pumps |-> 0]
  <2>1. Active(c) = {} <=> \A i \in 1..r.pumps : ~(c[i] > 0)
    BY DEF Active, On
  <2>2. \A i \in 1..r.pumps : c[i] \in Nat
    BY <1>1
  <2> QED
    BY <1>1, <2>1, <2>2
<1> QED
  BY <1>2 DEF Configurations, Settings

LEMMA NextIsPending ==
    ASSUME QuestIsKnown, FatesArePartition, Visiting, pending # {}
    PROVE  Next1 \in pending /\ Next1 \in Settings(quest.pumps, quest.speeds) /\ quest \in Quests
           /\ Sound /\ Next1 \notin DOMAIN kept /\ Next1 \notin DOMAIN refused
<1>1. quest \in Quests /\ Sound
  BY VerdictAssumption DEF QuestIsKnown, Visiting, Sound
<1>2. quest.pumps \in Nat /\ quest.speeds \in Nat /\ pending \in SUBSET Settings(quest.pumps, quest.speeds)
  <2>1. pending \subseteq Configurations(quest)
    BY <1>1 DEF FatesArePartition
  <2> QED
    BY <1>1, <2>1, QuestAssumption, SpaceOfQuest
<1>3. \E c \in pending : \A d \in pending \ {c} : Before(c, d)
  BY <1>2, VisitsHaveAFirst
<1>4. Next1 \in pending
  BY <1>3 DEF Next1
<1> QED
  BY <1>1, <1>2, <1>4 DEF FatesArePartition

\* The scenario of a configuration says what each pump does.
LEMMA OverridesTell ==
    ASSUME NEW r \in Quests, QuestIsSound(r), NEW c \in Settings(r.pumps, r.speeds)
    PROVE  /\ Active(c) = {i \in 1..r.pumps : Overrides(r, c)[i].running}
           /\ \A i \in 1..r.onLine \ Active(c) :
                 Overrides(r, c)[i] # None /\ Overrides(r, c)[i].running => i \in DOMAIN r.previous
           /\ \A i \in Active(c) : Overrides(r, c)[i].speed = c[i]
<1>1. /\ r.pumps \in Nat /\ r.onLine \in Nat /\ r.pumps <= r.onLine
      /\ DOMAIN c = 1..r.pumps
  BY QuestAssumption DEF QuestIsSound, Settings
<1>2. \A i \in 1..r.pumps :
         Overrides(r, c)[i] = [running |-> On(c, i), speed |-> IF On(c, i) THEN c[i] ELSE None, status |-> None]
  BY <1>1 DEF Overrides
<1>3. \A i \in 1..r.onLine \ 1..r.pumps :
         Overrides(r, c)[i] = IF i \in DOMAIN r.previous THEN r.previous[i] ELSE None
  BY <1>1 DEF Overrides
<1>4. ASSUME NEW i \in 1..r.pumps
      PROVE  (Overrides(r, c)[i].running <=> On(c, i)) /\ (On(c, i) => Overrides(r, c)[i].speed = c[i])
  <2>1. Overrides(r, c)[i] = [running |-> On(c, i), speed |-> IF On(c, i) THEN c[i] ELSE None, status |-> None]
    BY <1>2
  <2>2. Overrides(r, c)[i].running = On(c, i)
    BY <2>1
  <2>3. Overrides(r, c)[i].speed = IF On(c, i) THEN c[i] ELSE None
    BY <2>1
  <2> QED
    BY <2>2, <2>3
<1>5. \A i \in 1..r.pumps : On(c, i) => Overrides(r, c)[i].speed = c[i]
  BY <1>4
<1>6. Active(c) = {i \in 1..r.pumps : On(c, i)}
  BY <1>1 DEF Active
<1> QED
  BY <1>3, <1>4, <1>5, <1>6

LEMMA ObjectivesAreKnown ==
    ASSUME NEW r \in Quests, NEW e \in Evaluations, ObjectiveKnown(r, e), NEW c \in Settings(r.pumps, r.speeds)
    PROVE  Objective(r, c, e) \in Int
<1>1. Energy(e) \in Int /\ e.flow \in Int
  BY QuestAssumption DEF Energy
<1>2. r.objective = "min_cost" => Cost(r, e) \in Int
  <2>1. r.price = None \/ r.price \in Int
    BY QuestAssumption
  <2> QED
    BY <1>1, <2>1 DEF Cost, ObjectiveKnown
<1>3. Cardinality(Active(c)) \in Int
  <2>1. IsFiniteSet(1..r.pumps)
    BY QuestAssumption, FS_Interval
  <2>2. Active(c) \subseteq 1..r.pumps
    BY DEF Active, Settings
  <2>3. Cardinality(Active(c)) \in Nat
    BY <2>1, <2>2, FS_Subset, FS_CardinalityType
  <2> QED
    BY <2>3
<1>4. -e.flow \in Int
  BY <1>1
<1>5. CASE r.objective = "min_energy"
  <2>1. Objective(r, c, e) = Energy(e)
    BY <1>5, Zenon DEF Objective
  <2> QED
    BY <1>1, <2>1
<1>6. CASE r.objective = "min_cost"
  <2>1. Objective(r, c, e) = Cost(r, e)
    BY <1>6, Zenon DEF Objective
  <2> QED
    BY <1>2, <1>6, <2>1
<1>7. CASE r.objective = "max_flow"
  <2>1. Objective(r, c, e) = -e.flow
    BY <1>7, Zenon DEF Objective
  <2> QED
    BY <1>4, <2>1
<1>8. CASE r.objective \notin {"min_energy", "min_cost", "max_flow"}
  <2>1. Objective(r, c, e) = Cardinality(Active(c))
    BY <1>8, Zenon DEF Objective
  <2> QED
    BY <1>3, <2>1
<1> QED
  BY <1>5, <1>6, <1>7, <1>8

-----------------------------------------------------------------------------
LEMMA QuestStarts == QuestInit => QuestInv
<1> SUFFICES ASSUME QuestInit PROVE QuestInv
  OBVIOUS
<1>1. DOMAIN kept = {} /\ DOMAIN refused = {} /\ pending = {} /\ quest = None /\ verdict = None /\ computed = None /\ evaluated = 0
  BY DEF QuestInit, Empty
<1>2. Rejected = {}
  BY <1>1 DEF Rejected
<1>3. IsFiniteSet({}) /\ Cardinality({}) = 0
  BY FS_EmptySet
<1>4. CallsAreCounted
  BY <1>1, <1>2, <1>3 DEF CallsAreCounted, Sound
<1>5. QuestIsKnown /\ FatesArePartition /\ ValuesAreKnown /\ BudgetStopsAtAllowed
  BY <1>1 DEF QuestIsKnown, FatesArePartition, ValuesAreKnown, BudgetStopsAtAllowed, Complete, Sound
<1>6. ComputedAsCounted
  BY <1>1 DEF ComputedAsCounted
<1>7. OptimalIsProved
  BY <1>1, VerdictAssumption DEF OptimalIsProved
<1> QED
  BY <1>4, <1>5, <1>6, <1>7 DEF QuestInv

LEMMA BeginQuestKeeps ==
    ASSUME QuestInv, NEW r \in Quests, BeginQuest(r) PROVE QuestInv'
<1>1. /\ quest = None /\ quest' = r /\ quest' # None
      /\ DOMAIN kept = {} /\ DOMAIN refused = {} /\ computed = None /\ evaluated = 0
      /\ UNCHANGED <<kept, refused, computed, evaluated, ranking>>
  BY QuestAssumption DEF QuestInv, QuestIsKnown, BeginQuest
<1>2. /\ verdict' \in {None, "invalid", "unsound"}
      /\ verdict' # "unsound" => QuestIsSound(r) /\ pending' = Configurations(r)
      /\ verdict' = "unsound" => pending' = {}
  BY VerdictAssumption DEF BeginQuest
<1>3. DOMAIN kept' = {} /\ DOMAIN refused' = {}
  BY <1>1
<1>4. QuestIsKnown'
  BY <1>1, <1>2 DEF QuestIsKnown, Sound
<1>5. FatesArePartition'
  BY <1>1, <1>2, <1>3 DEF FatesArePartition, Sound
<1>6. CallsAreCounted'
  <2>1. Rejected' = {}
    BY <1>3 DEF Rejected
  <2>2. IsFiniteSet({}) /\ Cardinality({}) = 0
    BY FS_EmptySet
  <2>3. evaluated' = 0
    BY <1>1
  <2>4. Sound' /\ quest'.maxEvaluations # None => 0 <= quest'.maxEvaluations
    <3>1. r.maxEvaluations # None /\ QuestIsSound(r) => r.maxEvaluations \in Int /\ r.maxEvaluations > 0
      BY QuestAssumption DEF QuestIsSound
    <3> QED
      BY <1>1, <1>2, <3>1 DEF Sound
  <2> QED
    BY <1>3, <2>1, <2>2, <2>3, <2>4 DEF CallsAreCounted
<1>7. ValuesAreKnown' /\ BudgetStopsAtAllowed'
  BY <1>3 DEF ValuesAreKnown, BudgetStopsAtAllowed, Complete
<1>8. ComputedAsCounted'
  BY <1>1 DEF ComputedAsCounted
<1>9. OptimalIsProved'
  BY <1>2, VerdictAssumption DEF OptimalIsProved, Conclusions
<1> QED
  BY <1>4, <1>5, <1>6, <1>7, <1>8, <1>9 DEF QuestInv

\* What a refusal leaves as it was, whatever its reason.
LEMMA RefusalKeeps ==
    ASSUME QuestInv, Visiting, NEW c \in pending, NEW why \in {"preflight", "evaluated", "failed"}, Refuse(c, why),
           Sound, c \notin DOMAIN kept, c \notin DOMAIN refused
    PROVE  /\ QuestIsKnown' /\ FatesArePartition' /\ ValuesAreKnown' /\ BudgetStopsAtAllowed' /\ OptimalIsProved'
           /\ UNCHANGED <<quest, kept, verdict>> /\ Sound'
           /\ DOMAIN refused' = DOMAIN refused \cup {c} /\ refused'[c] = why
           /\ \A d \in DOMAIN refused : refused'[d] = refused[d]
           /\ Rejected' = IF why = "preflight" THEN Rejected ELSE Rejected \cup {c}
<1>1. pending' = pending \ {c} /\ UNCHANGED <<quest, kept, ranking, verdict>> /\ verdict = None /\ quest # None
  BY DEF Refuse, Visiting
<1>2. /\ DOMAIN refused' = DOMAIN refused \cup {c} /\ refused'[c] = why
      /\ \A d \in DOMAIN refused : refused'[d] = refused[d]
  BY DEF Refuse, Put
<1>3. DOMAIN kept' = DOMAIN kept /\ Sound'
  BY <1>1 DEF Sound
<1>4. QuestIsKnown'
  BY <1>1 DEF QuestInv, QuestIsKnown, Sound
<1>5. FatesArePartition'
  BY <1>1, <1>2, <1>3 DEF QuestInv, FatesArePartition, Sound
<1>6. ValuesAreKnown'
  BY <1>1 DEF QuestInv, ValuesAreKnown
<1>7. BudgetStopsAtAllowed'
  <2>1. ~Complete' => ~Complete
    BY <1>2 DEF Complete
  <2>2. ASSUME ~Complete PROVE \E d \in DOMAIN refused' : refused'[d] = "budget" /\ Allowed(quest', d)
    <3>1. PICK d \in DOMAIN refused : refused[d] = "budget" /\ Allowed(quest, d)
      BY <2>2 DEF QuestInv, BudgetStopsAtAllowed
    <3>2. d \in DOMAIN refused' /\ refused'[d] = "budget" /\ Allowed(quest', d)
      BY <1>1, <1>2, <3>1
    <3> QED
      BY <3>2
  <2> QED
    BY <2>1, <2>2 DEF BudgetStopsAtAllowed
<1>8. OptimalIsProved'
  BY <1>1, VerdictAssumption DEF OptimalIsProved
<1>9. Rejected' = IF why = "preflight" THEN Rejected ELSE Rejected \cup {c}
  BY <1>2 DEF Rejected
<1> QED
  BY <1>1, <1>2, <1>3, <1>4, <1>5, <1>6, <1>7, <1>8, <1>9

LEMMA RefusePreflightKeeps ==
    ASSUME QuestInv, RefusePreflight PROVE QuestInv'
<1>1. Visiting /\ pending # {} /\ Refuse(Next1, "preflight") /\ UNCHANGED <<computed, evaluated>>
  BY DEF RefusePreflight
<1>2. Next1 \in pending /\ Sound /\ Next1 \notin DOMAIN kept /\ Next1 \notin DOMAIN refused
  BY <1>1, NextIsPending DEF QuestInv
<1>3. /\ QuestIsKnown' /\ FatesArePartition' /\ ValuesAreKnown' /\ BudgetStopsAtAllowed' /\ OptimalIsProved'
      /\ UNCHANGED <<quest, kept, verdict>> /\ DOMAIN refused' = DOMAIN refused \cup {Next1} /\ refused'[Next1] = "preflight"
      /\ \A d \in DOMAIN refused : refused'[d] = refused[d]
      /\ Rejected' = Rejected
  BY <1>1, <1>2, RefusalKeeps
<1>4. CallsAreCounted'
  BY <1>1, <1>3 DEF QuestInv, CallsAreCounted, Sound
<1>5. ComputedAsCounted'
  BY <1>1, <1>3 DEF QuestInv, ComputedAsCounted
<1> QED
  BY <1>3, <1>4, <1>5 DEF QuestInv

LEMMA StopAtBudgetKeeps ==
    ASSUME QuestInv, StopAtBudget PROVE QuestInv'
<1>1. /\ Visiting /\ pending # {} /\ Allowed(quest, Next1) /\ pending' = {}
      /\ UNCHANGED <<quest, kept, computed, evaluated, ranking, verdict>> /\ verdict = None /\ quest # None
      /\ refused' = [c \in pending \cup DOMAIN refused |-> IF c \in pending THEN "budget" ELSE refused[c]]
  BY DEF StopAtBudget, Visiting
<1>2. Next1 \in pending /\ Sound /\ pending \cap DOMAIN refused = {} /\ pending \cap DOMAIN kept = {}
  BY <1>1, NextIsPending DEF QuestInv, FatesArePartition
<1>3. /\ DOMAIN refused' = DOMAIN refused \cup pending
      /\ \A c \in pending : refused'[c] = "budget"
      /\ \A c \in DOMAIN refused : refused'[c] = refused[c]
  BY <1>1, <1>2
<1>4. QuestIsKnown'
  BY <1>1 DEF QuestInv, QuestIsKnown, Sound
<1>5. FatesArePartition'
  BY <1>1, <1>3 DEF QuestInv, FatesArePartition, Sound
<1>6. Rejected' = Rejected
  BY <1>3 DEF Rejected
<1>7. CallsAreCounted'
  BY <1>1, <1>6 DEF QuestInv, CallsAreCounted, Sound
<1>8. ValuesAreKnown'
  BY <1>1 DEF QuestInv, ValuesAreKnown
<1>9. BudgetStopsAtAllowed'
  <2>1. Next1 \in DOMAIN refused' /\ refused'[Next1] = "budget" /\ Allowed(quest', Next1)
    BY <1>1, <1>2, <1>3
  <2> QED
    BY <2>1 DEF BudgetStopsAtAllowed
<1>10. ComputedAsCounted'
  BY <1>1, <1>3 DEF QuestInv, ComputedAsCounted
<1>11. OptimalIsProved'
  BY <1>1, VerdictAssumption DEF OptimalIsProved
<1> QED
  BY <1>4, <1>5, <1>7, <1>8, <1>9, <1>10, <1>11 DEF QuestInv

\* A call of the engine: one more evaluation, within the budget, of the scenario of the
\* configuration that is visited.
LEMMA EvaluationIsCounted ==
    ASSUME QuestInv, Evaluates, Evaluate1
    PROVE  /\ evaluated' = evaluated + 1 /\ evaluated \in Nat
           /\ quest.maxEvaluations # None => evaluated + 1 <= quest.maxEvaluations
           /\ Active(Next1) = {i \in 1..quest.pumps : computed'[i].running}
           /\ \A i \in 1..quest.onLine \ Active(Next1) :
                 computed'[i] # None /\ computed'[i].running => i \in DOMAIN quest.previous
           /\ \A i \in Active(Next1) : computed'[i].speed = Next1[i]
<1>1. Visiting /\ pending # {} /\ ~BudgetSpent
  BY DEF Evaluates
<1>2. Next1 \in Settings(quest.pumps, quest.speeds) /\ quest \in Quests /\ QuestIsSound(quest)
  BY <1>1, NextIsPending DEF QuestInv, QuestIsKnown
<1>3. evaluated \in Nat
  <2>1. Cardinality(DOMAIN kept) \in Nat /\ Cardinality(Rejected) \in Nat
    BY FS_CardinalityType DEF QuestInv, CallsAreCounted
  <2> QED
    BY <2>1 DEF QuestInv, CallsAreCounted
<1>4. quest.maxEvaluations # None => evaluated + 1 <= quest.maxEvaluations
  <2>1. quest.maxEvaluations # None => quest.maxEvaluations \in Int
    BY <1>2, QuestAssumption
  <2> QED
    BY <1>1, <1>3, <2>1 DEF BudgetSpent
<1>5. computed' = Overrides(quest, Next1) /\ evaluated' = evaluated + 1
  BY DEF Evaluate1
<1> QED
  BY <1>2, <1>3, <1>4, <1>5, OverridesTell

LEMMA RejectionKeeps ==
    ASSUME QuestInv, Evaluates, Evaluate1, NEW why \in {"evaluated", "failed"}, Refuse(Next1, why)
    PROVE  QuestInv'
<1>1. Visiting /\ pending # {}
  BY DEF Evaluates
<1>2. Next1 \in pending /\ Sound /\ Next1 \notin DOMAIN kept /\ Next1 \notin DOMAIN refused
  BY <1>1, NextIsPending DEF QuestInv
<1>3. /\ QuestIsKnown' /\ FatesArePartition' /\ ValuesAreKnown' /\ BudgetStopsAtAllowed' /\ OptimalIsProved'
      /\ UNCHANGED <<quest, kept, verdict>>
      /\ DOMAIN refused' = DOMAIN refused \cup {Next1} /\ refused'[Next1] = why
      /\ Rejected' = Rejected \cup {Next1}
  BY <1>1, <1>2, RefusalKeeps
<1>4. CallsAreCounted'
  <2>1. IsFiniteSet(Rejected) /\ Next1 \notin Rejected
    BY <1>2 DEF QuestInv, CallsAreCounted, Rejected
  <2>2. IsFiniteSet(Rejected') /\ Cardinality(Rejected') = Cardinality(Rejected) + 1
    BY <1>3, <2>1, FS_AddElement
  <2>3. Cardinality(DOMAIN kept) \in Nat /\ Cardinality(Rejected) \in Nat /\ IsFiniteSet(DOMAIN kept)
    BY <2>1, FS_CardinalityType DEF QuestInv, CallsAreCounted
  <2>4. evaluated' = Cardinality(DOMAIN kept) + Cardinality(Rejected')
    BY <2>2, <2>3, EvaluationIsCounted DEF QuestInv, CallsAreCounted
  <2> QED
    BY <1>3, <2>2, <2>3, <2>4, EvaluationIsCounted DEF CallsAreCounted
<1>5. ComputedAsCounted'
  <2>1. Next1 \in {d \in DOMAIN refused' : refused'[d] \in {"evaluated", "failed"}}
    BY <1>3
  <2>2. quest' = quest
    BY <1>3
  <2> QED
    BY <2>1, <2>2, EvaluationIsCounted DEF ComputedAsCounted
<1> QED
  BY <1>3, <1>4, <1>5 DEF QuestInv

LEMMA KeepingKeeps ==
    ASSUME QuestInv, Evaluates, Evaluate1, NEW e \in Evaluations, ObjectiveKnown(quest, e),
           kept' = Put(kept, Next1, Objective(quest, Next1, e)), pending' = pending \ {Next1},
           UNCHANGED <<quest, refused, ranking, verdict>>
    PROVE  QuestInv'
<1>1. Visiting /\ pending # {} /\ verdict = None /\ quest # None
  BY DEF Evaluates, Visiting
<1>2. /\ Next1 \in pending /\ Sound /\ Next1 \notin DOMAIN kept /\ Next1 \notin DOMAIN refused
      /\ quest \in Quests /\ Next1 \in Settings(quest.pumps, quest.speeds)
  BY <1>1, NextIsPending DEF QuestInv
<1>3. /\ DOMAIN kept' = DOMAIN kept \cup {Next1} /\ kept'[Next1] = Objective(quest, Next1, e)
      /\ \A d \in DOMAIN kept : kept'[d] = kept[d]
  BY <1>2 DEF Put
<1>4. Rejected' = Rejected
  BY DEF Rejected
<1>5. QuestIsKnown'
  BY <1>1 DEF QuestInv, QuestIsKnown, Sound
<1>6. FatesArePartition'
  BY <1>2, <1>3 DEF QuestInv, FatesArePartition, Sound
<1>7. CallsAreCounted'
  <2>1. IsFiniteSet(DOMAIN kept') /\ Cardinality(DOMAIN kept') = Cardinality(DOMAIN kept) + 1
    BY <1>2, <1>3, FS_AddElement DEF QuestInv, CallsAreCounted
  <2>2. Cardinality(DOMAIN kept) \in Nat /\ Cardinality(Rejected) \in Nat
    BY FS_CardinalityType DEF QuestInv, CallsAreCounted
  <2>3. evaluated' = Cardinality(DOMAIN kept') + Cardinality(Rejected')
    BY <1>4, <2>1, <2>2, EvaluationIsCounted DEF QuestInv, CallsAreCounted
  <2> QED
    BY <1>4, <2>1, <2>3, EvaluationIsCounted DEF QuestInv, CallsAreCounted
<1>8. ValuesAreKnown'
  <2>1. kept'[Next1] \in Int
    BY <1>2, <1>3, ObjectivesAreKnown
  <2> QED
    BY <1>3, <2>1 DEF QuestInv, ValuesAreKnown
<1>9. BudgetStopsAtAllowed'
  BY DEF QuestInv, BudgetStopsAtAllowed, Complete
<1>10. ComputedAsCounted'
  <2>1. Next1 \in DOMAIN kept' /\ quest' = quest
    BY <1>3
  <2> QED
    BY <2>1, EvaluationIsCounted DEF ComputedAsCounted
<1>11. OptimalIsProved'
  BY <1>1, VerdictAssumption DEF OptimalIsProved
<1> QED
  BY <1>5, <1>6, <1>7, <1>8, <1>9, <1>10, <1>11 DEF QuestInv

\* The conclusion: the status says whether an allowed configuration was left, and the
\* ranking names every configuration that was kept, once, best first.
LEMMA ConcludeKeeps ==
    ASSUME QuestInv, Conclude PROVE QuestInv'
<1>1. /\ Visiting /\ pending = {} /\ verdict' = Status /\ UNCHANGED <<quest, pending, kept, refused, computed, evaluated>>
      /\ verdict = None /\ quest # None
      /\ IF Found THEN \E c \in Selections : ranking' = Promoted(c) ELSE ranking' = <<>>
  BY DEF Conclude, Visiting
<1>2. Sound /\ quest \in Quests /\ Rejected' = Rejected
  BY <1>1, VerdictAssumption DEF QuestInv, QuestIsKnown, Sound, Rejected
<1>3. /\ verdict' \in Conclusions
      /\ verdict' \in {"optimal", "infeasible"} <=> Complete
      /\ verdict' \in {"optimal", "stopped_with_solution"} <=> Found
  BY <1>1 DEF Status, Conclusions
<1>4. QuestIsKnown'
  BY <1>1, <1>2, <1>3 DEF QuestInv, QuestIsKnown, Sound
<1>5. FatesArePartition'
  BY <1>1, <1>2 DEF QuestInv, FatesArePartition, Sound
<1>6. CallsAreCounted'
  BY <1>1, <1>2 DEF QuestInv, CallsAreCounted, Sound
<1>7. ValuesAreKnown' /\ BudgetStopsAtAllowed' /\ ComputedAsCounted'
  BY <1>1 DEF QuestInv, ValuesAreKnown, BudgetStopsAtAllowed, Complete, ComputedAsCounted
<1>8. Rankable
  <2>1. DOMAIN kept \subseteq Configurations(quest)
    BY <1>2 DEF QuestInv, FatesArePartition
  <2>2. Configurations(quest) \subseteq Settings(quest.pumps, quest.speeds)
    BY <1>2, SpaceOfQuest
  <2> QED
    BY <1>2, <2>1, <2>2 DEF Rankable, Space, QuestInv, CallsAreCounted, ValuesAreKnown
<1> DEFINE N == Cardinality(DOMAIN kept)
<1>9. /\ N \in Nat /\ ranking' \in [1..N -> DOMAIN kept]
      /\ \A d \in DOMAIN kept : \E i \in 1..N : ranking'[i] = d
      /\ \A i, j \in 1..N : i <= j => kept[ranking'[i]] <= kept[ranking'[j]]
      /\ N # 0 <=> Found
  <2>1. CASE Found
    <3>1. PICK c \in Selections : ranking' = Promoted(c)
      BY <1>1, <2>1
    <3> QED
      BY <1>8, <2>1, <3>1, PromotedInOrder
  <2>2. CASE ~Found
    <3>1. DOMAIN kept = {} /\ N = 0 /\ ranking' = <<>>
      BY <1>1, <2>2, FS_EmptySet DEF Found
    <3> QED
      BY <2>2, <3>1
  <2> QED
    BY <2>1, <2>2
<1>10. OptimalIsProved'
  <2> DEFINE left == {c \in DOMAIN refused : refused[c] = "budget" /\ Allowed(quest, c)}
  <2>1. Complete <=> left = {}
    BY DEF QuestInv, BudgetStopsAtAllowed, Complete
  <2>2. left' = left
    BY <1>1
  <2>3. DOMAIN ranking' = 1..N /\ ranking' \in Seq(DOMAIN kept)
    <3> HIDE DEF N
    <3> QED
      BY <1>9
  <2>4. Len(ranking') = N
    <3> HIDE DEF N
    <3> QED
      BY <1>9, <2>3
  <2>5. ranking' # <<>> <=> Found
    <3> HIDE DEF N
    <3> QED
      BY <1>9, <2>3, <2>4
  <2>6. {ranking'[i] : i \in DOMAIN ranking'} = DOMAIN kept
    <3> HIDE DEF N
    <3> QED
      BY <1>9, <2>3
  <2>7. kept' = kept
    BY <1>1
  <2>8. \A i \in DOMAIN ranking', j \in DOMAIN ranking' : i <= j => kept[ranking'[i]] <= kept[ranking'[j]]
    BY <1>9, <2>3
  <2> HIDE DEF N, left
  <2>9. /\ verdict' \in {"optimal", "infeasible"} <=> left' = {}
        /\ ranking' # <<>> <=> verdict' \in {"optimal", "stopped_with_solution"}
    BY <1>3, <2>1, <2>2, <2>5
  <2> QED
    BY <2>3, <2>4, <2>6, <2>7, <2>8, <2>9 DEF OptimalIsProved, left, N
<1> QED
  BY <1>4, <1>5, <1>6, <1>7, <1>10 DEF QuestInv

LEMMA QuestStepKeeps == QuestInv /\ [QuestNext]_questVars => QuestInv'
<1> SUFFICES ASSUME QuestInv, [QuestNext]_questVars PROVE QuestInv'
  OBVIOUS
<1>1. ASSUME NEW r \in Quests, BeginQuest(r) PROVE QuestInv'
  BY <1>1, BeginQuestKeeps
<1>2. CASE RefusePreflight
  BY <1>2, RefusePreflightKeeps
<1>3. CASE StopAtBudget
  BY <1>3, StopAtBudgetKeeps
<1>4. CASE EvaluationFails
  BY <1>4, RejectionKeeps DEF EvaluationFails
<1>5. CASE Conclude
  BY <1>5, ConcludeKeeps
<1>6. ASSUME NEW e \in Evaluations, EvaluateConfiguration(e) PROVE QuestInv'
  <2>1. Evaluates /\ Evaluate1
    BY <1>6 DEF EvaluateConfiguration
  <2>2. CASE Admissible(quest, Next1, e) /\ ObjectiveKnown(quest, e)
    BY <1>6, <2>1, <2>2, KeepingKeeps DEF EvaluateConfiguration
  <2>3. CASE ~(Admissible(quest, Next1, e) /\ ObjectiveKnown(quest, e))
    <3>1. Refuse(Next1, "evaluated")
      BY <1>6, <2>3 DEF EvaluateConfiguration
    <3> QED
      BY <2>1, <3>1, RejectionKeeps
  <2> QED
    BY <2>2, <2>3
<1>7. CASE UNCHANGED questVars
  BY <1>7 DEF questVars, QuestInv, QuestIsKnown, FatesArePartition, CallsAreCounted, ValuesAreKnown, BudgetStopsAtAllowed,
              Complete, Sound, Rejected, ComputedAsCounted, OptimalIsProved
<1> QED
  BY <1>1, <1>2, <1>3, <1>4, <1>5, <1>6, <1>7 DEF QuestNext, QuestStep

LEMMA QuestInvariant == QuestSpec => []QuestInv
  BY QuestStarts, QuestStepKeeps, PTL DEF QuestSpec

\* Every configuration has one fate, and the calls of the engine are those that are counted
\* and within the budget (optimizer.py, ExhaustivePumpOptimizer.optimize).
THEOREM CandidatesAccounted == QuestSpec => []EveryCandidateAccounted
<1>1. QuestInv => EveryCandidateAccounted
  <2> SUFFICES ASSUME QuestInv, Sound PROVE EveryCandidateAccounted
    BY DEF EveryCandidateAccounted, Sound
  <2>1. quest \in Quests
    BY DEF Sound, QuestInv, QuestIsKnown
  <2>2. pending \cup DOMAIN kept \cup DOMAIN refused
           = [1..quest.pumps -> 0..quest.speeds] \ (IF quest.allowNone THEN {} ELSE {[i \in 1..quest.pumps |-> 0]})
    BY <2>1, SpaceOfQuest DEF QuestInv, FatesArePartition
  <2> QED
    BY <2>2 DEF QuestInv, FatesArePartition, CallsAreCounted, Rejected, EveryCandidateAccounted, Sound
<1> QED
  BY <1>1, QuestInvariant, PTL

\* An answer that is called optimal compared every allowed configuration, and ranks those it
\* kept by their objective (optimizer.py:376-398, pyomo_selection.py).
THEOREM OptimalAnswers == QuestSpec => []OptimalIsProved
<1>1. QuestInv => OptimalIsProved
  BY DEF QuestInv
<1> QED
  BY <1>1, QuestInvariant, PTL
=============================================================================
