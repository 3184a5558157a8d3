------------------------------ MODULE LineProofs ------------------------------
(***************************************************************************)
(* The long-distance engine, for every line, scenario and fluid that the   *)
(* constructors accept: what its march computes, what an approvable result *)
(* and its checks are worth, why the operating point is unique, and why    *)
(* the second engine agrees with it.                                       *)
(***************************************************************************)
EXTENDS ComparisonEngine, OrderLemmas

(***************************************************************************)
(* Tables.                                                                 *)
(***************************************************************************)
\* The points of a table, in increasing order.
LEMMA TablePoints ==
    ASSUME NEW t \in Curves
    PROVE  /\ Len(t) \in Nat /\ Len(t) >= 2 /\ DOMAIN t = 1..Len(t)
           /\ \A i \in 1..Len(t) : X(t, i) \in Int /\ Y(t, i) \in Int
           /\ \A i \in 1..(Len(t) - 1) : X(t, i) < X(t, i + 1)
<1>1. t \in Seq(Int \X Int) /\ IsTable(t)
  BY DEF Curves
<1> QED
  BY <1>1 DEF IsTable, X, Y

\* The interval a value is read from, the outer ones beyond the ends.
LEMMA IntervalFound ==
    ASSUME NEW t \in Curves, NEW x \in Int
    PROVE  /\ Interval(t, x) \in 1..(Len(t) - 1)
           /\ Interval(t, x) = 1 \/ X(t, Interval(t, x)) <= x
           /\ Interval(t, x) = Len(t) - 1 \/ x < X(t, Interval(t, x) + 1)
<1> DEFINE S == {i \in 1..(Len(t) - 1) : i = Len(t) - 1 \/ x < X(t, i + 1)}
           Fits(i) == (i = 1 \/ X(t, i) <= x) /\ (i = Len(t) - 1 \/ x < X(t, i + 1))
<1>1. PICK i \in S : \A j \in S : i <= j
  <2>1. S \subseteq Nat /\ Len(t) - 1 \in S
    BY TablePoints
  <2> HIDE DEF S
  <2> QED
    BY <2>1, LeastNatural
<1>2. i = 1 \/ X(t, i) <= x
  <2> SUFFICES ASSUME i # 1 PROVE X(t, i) <= x
    OBVIOUS
  <2>0. i # 1
    OBVIOUS
  <2>1. i - 1 \in 1..(Len(t) - 1) /\ i - 1 \notin S /\ (i - 1) + 1 = i
    <3>1. i \in Nat /\ i >= 1 /\ i <= Len(t) - 1 /\ Len(t) \in Nat
      BY TablePoints
    <3>2. \A j \in S : i <= j
      BY <1>1
    <3> HIDE DEF S
    <3> QED
      BY <2>0, <3>1, <3>2
  <2>2. ~(x < X(t, i)) /\ X(t, i) \in Int
    BY <2>1, TablePoints
  <2> QED
    BY <2>2
<1>3. \E j \in 1..(Len(t) - 1) : Fits(j)
  BY <1>1, <1>2
<1>4. Interval(t, x) = CHOOSE j \in 1..(Len(t) - 1) : Fits(j)
  BY DEF Interval
<1> HIDE DEF Fits
<1>5. Interval(t, x) \in 1..(Len(t) - 1) /\ Fits(Interval(t, x))
  BY <1>3, <1>4
<1> QED
  BY <1>5 DEF Fits

\* An integer part is an integer.
LEMMA QuotientIsInteger == \A a \in Int, b \in Nat \ {0} : a \div b \in Int
OBVIOUS

\* Whatever is read from a table is an integer.
LEMMA TableValue ==
    ASSUME NEW t \in Curves, NEW x \in Int
    PROVE  Evaluate(t, x) \in Int /\ Clamped(t, x) \in Int
<1> DEFINE i == Interval(t, x)
           rise == (x - X(t, i)) * (Y(t, i + 1) - Y(t, i))
           run == X(t, i + 1) - X(t, i)
<1>1. /\ X(t, i) \in Int /\ Y(t, i) \in Int /\ X(t, i + 1) \in Int /\ Y(t, i + 1) \in Int /\ X(t, i) < X(t, i + 1)
      /\ X(t, 1) \in Int /\ Y(t, 1) \in Int /\ Y(t, Len(t)) \in Int
  <2>1. i \in 1..(Len(t) - 1)
    BY IntervalFound
  <2> HIDE DEF i
  <2> QED
    BY <2>1, TablePoints
<1>2. rise \in Int /\ run \in Nat \ {0}
  <2> HIDE DEF i
  <2> QED
    BY <1>1
<1>3. Evaluate(t, x) \in Int
  <2>1. rise \div run \in Int
    <3> HIDE DEF rise, run
    <3> QED
      BY <1>2, QuotientIsInteger
  <2>2. Evaluate(t, x) = Y(t, i) + rise \div run
    BY DEF Evaluate
  <2> HIDE DEF rise, run, i
  <2> QED
    BY <1>1, <2>1, <2>2
<1> QED
  BY <1>1, <1>3 DEF Clamped

(***************************************************************************)
(* Pumps and stations.                                                     *)
(***************************************************************************)
\* A power of the speed of a pump.
LEMMA SpeedRaised ==
    ASSUME NEW n \in Nat \ {0}, NEW power \in {2, 3}
    PROVE  Raised(n, power) \in Nat \ {0}
<1>1. n * n \in Nat \ {0}
  BY Z3
<1>2. n * n * n \in Nat \ {0}
  BY Z3
<1> QED
  BY <1>1, <1>2 DEF Raised

\* What the affinity laws make of a value.
LEMMA ScaledValue ==
    ASSUME NEW pump \in PumpType, NEW value \in Int, NEW power \in {2, 3}
    PROVE  AtSpeed(pump, value, power) \in Int
<1> DEFINE a == Raised(pump.speed, power)
           b == Raised(FullSpeed, power)
<1>1. a \in Nat \ {0} /\ b \in Nat \ {0}
  <2>1. pump.speed \in Nat \ {0} /\ FullSpeed \in Nat \ {0}
    BY StationAssumption DEF PumpType
  <2> QED
    BY <2>1, SpeedRaised
<1>2. (value * a) \div b \in Int
  <2> HIDE DEF a, b
  <2> QED
    BY <1>1, QuotientIsInteger
<1> QED
  BY <1>2 DEF AtSpeed

\* The flow at full speed.
LEMMA EquivalentFlowType ==
    ASSUME NEW pump \in PumpType, NEW flow \in Int
    PROVE  EquivalentFlow(pump, flow) \in Int
<1>1. pump.speed \in Nat \ {0} /\ FullSpeed \in Nat
  BY StationAssumption DEF PumpType
<1> QED
  BY <1>1, QuotientIsInteger DEF EquivalentFlow

\* A pump never takes head.
LEMMA PumpHeadType ==
    ASSUME NEW pump \in PumpType, NEW flow \in Int
    PROVE  PumpHead(pump, flow) \in Nat
<1>1. pump.curve \in Curves
  BY DEF PumpType
<1>2. AtSpeed(pump, Evaluate(pump.curve, EquivalentFlow(pump, flow)), 2) \in Int
  BY <1>1, EquivalentFlowType, TableValue, ScaledValue
<1> QED
  BY <1>2 DEF PumpHead, Above0

\* Nor does a group.
LEMMA GroupHeadType ==
    ASSUME NEW group \in Groups, NEW flow \in Int
    PROVE  GroupHead(group, flow) \in Nat
<1> DEFINE D == ActivePumps(group)
           f == [p \in D |-> PumpHead(p, flow)]
<1>1. IsFiniteSet(D) /\ D \subseteq PumpType
  BY FS_Subset DEF ActivePumps, Groups
<1>2. f \in [D -> Nat]
  BY <1>1, PumpHeadType
<1>3. SumOver(f) \in Nat
  <2> HIDE DEF f, D
  <2> QED
    BY <1>1, <1>2, SumNatural
<1> QED
  BY <1>3 DEF GroupHead

\* The dichotomies end: there is a last flow on the side of the condition.
LEMMA LastAbove ==
    ASSUME NEW P, NEW n \in Nat, 0 \in P
    PROVE  \E q \in 0..n : q \in P /\ (q = n \/ q + 1 \notin P)
<1> SUFFICES ASSUME \A q \in 0..n : q \in P => q # n /\ q + 1 \in P PROVE FALSE
  OBVIOUS
<1>1. n \in P
  BY UpTo
<1> QED
  BY <1>1

\* The largest flow at which a group gives more than a head.
LEMMA GroupFlowType ==
    ASSUME NEW group \in Groups, NEW head \in Int
    PROVE  /\ GroupFlowAtHead(group, head) \in 0..LargestFlow
           /\ head < GroupHead(group, 0) =>
                 LET q == GroupFlowAtHead(group, head)
                 IN  GroupHead(group, q) > head /\ (q = LargestFlow \/ GroupHead(group, q + 1) <= head)
<1> DEFINE P == {q \in Nat : GroupHead(group, q) > head}
           Reaches(q) == GroupHead(group, q) > head /\ (q = LargestFlow \/ GroupHead(group, q + 1) <= head)
<1>1. LargestFlow \in Nat /\ \A q \in Nat : GroupHead(group, q) \in Nat
  BY StationAssumption, GroupHeadType
<1>2. CASE head >= GroupHead(group, 0)
  BY <1>1, <1>2 DEF GroupFlowAtHead
<1>3. CASE ~(head >= GroupHead(group, 0))
  <2>1. 0 \in P
    BY <1>1, <1>3
  <2>2. PICK q \in 0..LargestFlow : q \in P /\ (q = LargestFlow \/ q + 1 \notin P)
    <3> HIDE DEF P
    <3> QED
      BY <1>1, <2>1, LastAbove
  <2>3. Reaches(q)
    BY <1>1, <2>2
  <2>4. GroupFlowAtHead(group, head) = CHOOSE r \in 0..LargestFlow : Reaches(r)
    BY <1>3 DEF GroupFlowAtHead
  <2> HIDE DEF Reaches
  <2>5. GroupFlowAtHead(group, head) \in 0..LargestFlow /\ Reaches(GroupFlowAtHead(group, head))
    BY <2>2, <2>3, <2>4
  <2> QED
    BY <2>5 DEF Reaches
<1> QED
  BY <1>2, <1>3

\* Nor does a station, in whatever arrangement.
LEMMA StationHeadType ==
    ASSUME NEW station, station.groups \in Seq(Groups), NEW flow \in Int
    PROVE  StationHead(station, flow) \in Nat
<1> DEFINE D == ActiveGroups(station)
           heads(q) == [i \in D |-> GroupHead(station.groups[i], q)]
           flows(h) == [i \in D |-> GroupFlowAtHead(station.groups[i], h)]
<1>1. IsFiniteSet(D) /\ \A i \in D : station.groups[i] \in Groups
  <2>1. DOMAIN station.groups = 1..Len(station.groups) /\ Len(station.groups) \in Nat
        /\ \A i \in DOMAIN station.groups : station.groups[i] \in Groups
    OBVIOUS
  <2>2. IsFiniteSet(DOMAIN station.groups)
    BY <2>1, FS_Interval
  <2> QED
    BY <2>1, <2>2, FS_Subset DEF ActiveGroups
<1>2. ASSUME NEW q \in Int PROVE heads(q) \in [D -> Nat]
  BY <1>1, GroupHeadType
<1>3. SumOver(heads(flow)) \in Nat
  <2> HIDE DEF heads, D
  <2> QED
    BY <1>1, <1>2, SumNatural
<1>4. ASSUME D # {} PROVE HighestHead(station) \in Nat
  <2> DEFINE S == {GroupHead(station.groups[i], 0) : i \in D}
  <2>1. IsFiniteSet(S) /\ S # {} /\ S \subseteq Nat
    <3>1. IsFiniteSet(S)
      <4> DEFINE f == [i \in D |-> GroupHead(station.groups[i], 0)]
      <4>1. S = {f[i] : i \in D}
        OBVIOUS
      <4> HIDE DEF f, S
      <4> QED
        BY <1>1, <4>1, FiniteImage
    <3> QED
      BY <1>1, <1>4, <3>1, GroupHeadType
  <2>2. Max(S) \in S
    <3>1. S \subseteq Int
      BY <2>1
    <3> HIDE DEF S
    <3> QED
      BY <2>1, <3>1, MaxOf
  <2> QED
    BY <2>1, <2>2 DEF HighestHead
<1>5. ASSUME D # {}, flow > 0, ~(TotalFlowAt(station, 0) < flow) PROVE ParallelHead(station, flow) \in Nat
  <2> DEFINE S == {h \in 0..HighestHead(station) : TotalFlowAt(station, h) >= flow}
  <2>1. TotalFlowAt(station, 0) \in Int
    <3>1. flows(0) \in [D -> Int]
      BY <1>1, GroupFlowType
    <3>2. SumOver(flows(0)) \in Int
      <4> HIDE DEF flows, D
      <4> QED
        BY <1>1, <3>1, SumTerm
    <3> QED
      BY <3>2 DEF TotalFlowAt
  <2>2. 0 \in S
    BY <1>4, <1>5, <2>1
  <2>3. IsFiniteSet(S)
    <3>1. IsFiniteSet(0..HighestHead(station))
      BY <1>4, <1>5, FS_Interval
    <3> QED
      BY <3>1, FS_Subset
  <2>4. Max(S) \in S
    <3>1. S \subseteq Int
      OBVIOUS
    <3> HIDE DEF S
    <3> QED
      BY <2>2, <2>3, <3>1, MaxOf
  <2> QED
    BY <1>5, <2>4 DEF ParallelHead
<1> QED
  BY <1>3, <1>4, <1>5 DEF StationHead, ParallelHead

(***************************************************************************)
(* What a result is: everything it holds follows from the flow and the     *)
(* inlet pressure it was built for, and a search leaves them within the    *)
(* tolerance.                                                              *)
(***************************************************************************)
Residual(input, flow, pressure) == IF IsDirect(input) THEN 0 ELSE OutletGap(input, flow, pressure)

IsResultOf(input, result) ==
    /\ IsValid(input) /\ input.state # Refused
    /\ result.flow \in Int /\ result.inlet \in Int
    /\ result = Built(input, result.flow, result.inlet, Residual(input, result.flow, result.inlet))
    /\ ~IsDirect(input) =>
          Magnitude(Residual(input, result.flow, result.inlet)) <= input.scenario.tolerance

Failures == {Failed(status) : status \in {"invalid_input", "error", "no_physical_solution", "not_converged"}}

Frozen(s) == Put(s, "state", FluidState(s.fluid, s.scenario.temperature))

LineInv ==
    /\ study # None => \E s \in Studies : study = Frozen(s)
    /\ simulated # None => study # None /\ (simulated \in Failures \/ IsResultOf(study, simulated))

\* A study keeps what it was submitted with.
LEMMA FrozenParts ==
    ASSUME NEW s \in Studies, NEW input, input = Frozen(s)
    PROVE  /\ input.line = s.line /\ input.scenario = s.scenario /\ input.fluid = s.fluid
           /\ input.state = FluidState(s.fluid, s.scenario.temperature)
<1>1. {"line", "scenario", "fluid"} \subseteq DOMAIN s
  BY LineAssumption DEF IsStudy
<1> QED
  BY <1>1 DEF Frozen, Put

\* What a result holds.
LEMMA BuiltFields ==
    ASSUME NEW input, NEW flow, NEW pressure, NEW residual
    PROVE  /\ Built(input, flow, pressure, residual).flow = flow
           /\ Built(input, flow, pressure, residual).inlet = pressure
           /\ Built(input, flow, pressure, residual).march = March(input, flow, pressure)
           /\ Built(input, flow, pressure, residual).outcome =
                 AllChecks(input, Resolved(input), March(input, flow, pressure),
                           PumpReports(March(input, flow, pressure), input.state.vapour), flow, residual)
           /\ Built(input, flow, pressure, residual).zones =
                 IF input.scenario.detectZones THEN GravityZones(March(input, flow, pressure).points) ELSE {}
BY DEF Built, Checked, BuiltFrom

LossesOf(line, points) == [s \in DOMAIN line.segments |-> SegmentLosses(line, points, s)]

\* The losses of a result, segment by segment.
LEMMA BuiltLosses ==
    ASSUME NEW input, NEW flow, NEW pressure, NEW residual
    PROVE  Built(input, flow, pressure, residual).losses = LossesOf(Resolved(input), March(input, flow, pressure).points)
BY DEF Built, Checked, BuiltFrom, LossesOf

\* A pressure at one end is known or not.
LEMMA EndPressureType ==
    ASSUME NEW pressure \in Maybe(Int), NEW level \in Maybe(Int), NEW tank \in Maybe([elevation : Int]),
           NEW elevation \in Int
    PROVE  EndPressure(pressure, level, tank, elevation) \in Maybe(Int)
BY LineAssumption DEF EndPressure, Maybe

\* What the boundary conditions of a study give.
LEMMA BoundariesType ==
    ASSUME NEW s \in Studies, NEW input, input = Frozen(s)
    PROVE  /\ InletPressure(input.line, input.scenario) \in Maybe(Int)
           /\ OutletPressure(input.line, input.scenario) \in Maybe(Int)
           /\ input.scenario.flow \in Maybe(Int) /\ input.scenario.tolerance \in Nat
<1>1. input.line = s.line /\ input.scenario = s.scenario /\ s.line \in LineType /\ IsScenario(s.scenario)
  BY FrozenParts, LineAssumption DEF IsStudy
<1> DEFINE line == s.line
           sc == s.scenario
<1>2. /\ sc.inletPressure \in Maybe(Int) /\ sc.inletLevel \in Maybe(Int) /\ sc.outletPressure \in Maybe(Int)
      /\ sc.outletLevel \in Maybe(Int) /\ sc.flow \in Maybe(Int) /\ sc.tolerance \in Nat
  BY <1>1 DEF IsScenario
<1>3. line.originTank \in Maybe([elevation : Int]) /\ line.destinationTank \in Maybe([elevation : Int])
      /\ line.profile \in Curves /\ line.segments \in Seq(SegmentType) /\ line.segments # <<>>
  BY <1>1 DEF LineType
<1>4. LineStart(line) \in Int /\ LineEnd(line) \in Int
  <2>1. line.segments[1] \in SegmentType /\ line.segments[Len(line.segments)] \in SegmentType
    BY <1>3
  <2> QED
    BY <2>1 DEF LineStart, LineEnd, SegmentType
<1>5. Elevation(line, LineStart(line)) \in Int /\ Elevation(line, LineEnd(line)) \in Int
  BY <1>3, <1>4, TableValue DEF Elevation
<1> HIDE DEF line, sc
<1>6. InletPressure(line, sc) \in Maybe(Int) /\ OutletPressure(line, sc) \in Maybe(Int)
  BY <1>2, <1>3, <1>5, EndPressureType DEF InletPressure, OutletPressure
<1> QED
  BY <1>1, <1>2, <1>6 DEF line, sc

\* Every step keeps what the results are.
LEMMA ResultsKept == LineInv /\ [LineNext]_lineVars => LineInv'
<1> SUFFICES ASSUME LineInv, [LineNext]_lineVars PROVE LineInv'
  OBVIOUS
<1> USE DEF LineInv
<1>1. CASE UNCHANGED lineVars
  BY <1>1 DEF lineVars, IsResultOf, IsValid, Residual
<1>2. ASSUME NEW s \in Studies, SubmitStudy(s) PROVE LineInv'
  BY <1>2 DEF SubmitStudy, Frozen
<1>3. CASE RejectStudy
  BY <1>3 DEF RejectStudy, Return, Solving, Failures
<1>4. CASE FluidIsUnknown
  BY <1>4 DEF FluidIsUnknown, Return, Solving, Failures
<1>5. CASE Undetermined
  BY <1>5 DEF Undetermined, Ready, Return, Solving, Failures
<1>6. ASSUME Ready, NEW flow \in Int, NEW pressure \in Int, NEW residual,
             residual = Residual(study, flow, pressure),
             ~IsDirect(study) => Magnitude(residual) <= study.scenario.tolerance,
             Return(Built(study, flow, pressure, residual))
      PROVE  LineInv'
  <2>1. simulated' = Built(study, flow, pressure, residual) /\ study' = study /\ study # None
    BY <1>6 DEF Ready, Solving, Return
  <2>2. simulated'.flow = flow /\ simulated'.inlet = pressure
    <3>1. Built(study, flow, pressure, residual).flow = flow /\ Built(study, flow, pressure, residual).inlet = pressure
      BY BuiltFields
    <3> QED
      BY <2>1, <3>1
  <2>3. IsResultOf(study, simulated')
    BY <1>6, <2>1, <2>2 DEF Ready, IsResultOf
  <2>4. study' # None => \E s \in Studies : study' = Frozen(s)
    BY <2>1
  <2>5. study' # None /\ IsResultOf(study', simulated')
    BY <2>1, <2>3
  <2> QED
    BY <2>4, <2>5
<1>7. CASE MarchOnce
  <2>1. PICK s \in Studies : study = Frozen(s)
    BY <1>7 DEF MarchOnce, Ready, Solving
  <2>2. study.scenario.flow \in Int /\ InletPressure(study.line, study.scenario) \in Int
    BY <1>7, <2>1, BoundariesType DEF MarchOnce, IsDirect, Maybe
  <2>3. 0 = Residual(study, study.scenario.flow, InletPressure(study.line, study.scenario))
    BY <1>7 DEF MarchOnce, Residual
  <2> QED
    BY <1>6, <1>7, <2>2, <2>3 DEF MarchOnce
<1>8. CASE SearchUnknown
  <2>1. PICK s \in Studies : study = Frozen(s)
    BY <1>8 DEF SearchUnknown, Searching, Ready, Solving
  <2> DEFINE gap == Gaps(study)
  <2>2. Ready /\ Determined(study) /\ ~IsDirect(study) /\ SettleUnknown(gap)
    BY <1>8 DEF SearchUnknown, Searching
  <2>3. CASE \E x \in Roots(gap, FirstBound(study), HardBound(study), study.scenario.tolerance) : Solved(gap, x)
    <3>1. PICK x \in DOMAIN gap : Magnitude(gap[x]) <= study.scenario.tolerance /\ Solved(gap, x)
      BY <2>3 DEF Roots
    <3>2. x \in Int
      BY DEF Gaps
    <3>3. CASE SearchesInlet(study)
      <4>1. gap[x] = Residual(study, study.scenario.flow, x)
        BY <2>2, <3>3 DEF Gaps, Residual
      <4>2. study.scenario.flow \in Int
        BY <2>1, <3>3, BoundariesType DEF SearchesInlet, Maybe
      <4>3. Return(Built(study, study.scenario.flow, x, gap[x]))
        BY <3>1, <3>3 DEF Solved
      <4> QED
        BY <1>6, <2>2, <3>1, <3>2, <4>1, <4>2, <4>3
    <3>4. CASE ~SearchesInlet(study)
      <4> DEFINE inlet == InletPressure(study.line, study.scenario)
      <4>1. gap[x] = Residual(study, x, inlet)
        BY <2>2, <3>4 DEF Gaps, Residual
      <4>2. inlet \in Int
        BY <2>1, <2>2, <3>4, BoundariesType DEF SearchesInlet, Determined, Maybe
      <4>3. Return(Built(study, x, inlet, gap[x]))
        BY <3>1, <3>4 DEF Solved
      <4> HIDE DEF inlet
      <4> QED
        BY <1>6, <2>2, <3>1, <3>2, <4>1, <4>2, <4>3
    <3> QED
      BY <3>3, <3>4
  <2>4. CASE \E status \in {"no_physical_solution", "not_converged"} : Return(Failed(status))
    BY <2>2, <2>4 DEF Ready, Return, Solving, Failures
  <2> QED
    BY <2>2, <2>3, <2>4 DEF SettleUnknown
<1> QED
  BY <1>1, <1>2, <1>3, <1>4, <1>5, <1>7, <1>8 DEF LineNext, LineStep

\* Every step leaves a failure or such a result.
THEOREM ResultsAreBuilt == LineSpec => []LineInv
<1>1. LineInit => LineInv
  BY DEF LineInit, LineInv
<1> QED
  BY <1>1, ResultsKept, PTL DEF LineSpec

(***************************************************************************)
(* The checks.                                                             *)
(***************************************************************************)
\* What holds of each outcome: its findings come from the checks it executed.
Accounts(outcome, checks) ==
    /\ checks \subseteq outcome.executed \cup outcome.skipped
    /\ outcome.executed \subseteq checks
    /\ \A v \in outcome.violations \cup outcome.warnings : v[1] \in outcome.executed

\* A finding names the check it comes from.
LEMMA FindingNamed ==
    ASSUME NEW condition, NEW check, NEW text
    PROVE  \A v \in If(condition, <<check, text>>) : v[1] = check
BY DEF If

\* So do the findings of several pumps.
LEMMA FindingsNamed ==
    ASSUME NEW pumps, NEW check, NEW text
    PROVE  \A v \in {<<check, text, p.id>> : p \in pumps} : v[1] = check
OBVIOUS

\* Each check declares itself executed or skipped, and finds nothing in the name of another.
LEMMA EachAccounts ==
    ASSUME NEW inlet, NEW outlet, NEW net, NEW tolerance, NEW points, NEW vapour, NEW gravity, NEW known,
           NEW pumps, NEW segments, NEW lowest, NEW highest, NEW stations, NEW extrapolated, NEW residual
    PROVE  /\ Accounts(CheckMassBalance(inlet, outlet, net, tolerance), {"C-001"})
           /\ Accounts(CheckVapour(points, vapour, gravity, known), {"C-002"})
           /\ Accounts(CheckNpsh(pumps), {"C-003"})
           /\ Accounts(CheckMaximumPressure(points, segments), {"C-004"})
           /\ Accounts(CheckVelocity(points, lowest, highest), {"C-005"})
           /\ Accounts(CheckCurveDomain(pumps), {"C-006"})
           /\ Accounts(CheckMotorPower(pumps), {"C-007"})
           /\ Accounts(CheckConvergence(TRUE, residual, tolerance), {"C-010", "C-012"})
           /\ Accounts(CheckExtrapolation(extrapolated), {"C-011"})
<1> USE FindingNamed DEF Accounts, Outcome, Skipped
<1>1. Accounts(CheckMassBalance(inlet, outlet, net, tolerance), {"C-001"})
  <2> DEFINE gap == Magnitude(outlet - (inlet + net))
             reference == Max({Magnitude(inlet), Magnitude(outlet), 1})
             found == If(gap > tolerance * reference, <<"C-001", "mass balance">>)
  <2>1. CheckMassBalance(inlet, outlet, net, tolerance) = Outcome({"C-001"}, {}, found, {})
    BY Zenon DEF CheckMassBalance
  <2>2. \A v \in found : v[1] = "C-001"
    BY FindingNamed
  <2> HIDE DEF found
  <2> QED
    BY <2>1, <2>2
<1>2. Accounts(CheckVapour(points, vapour, gravity, known), {"C-002"})
  <2> DEFINE low == \E i \in DOMAIN points : points[i].pressure <= vapour
             violations == If(low /\ ~gravity, <<"C-002", "below vapour">>)
             warnings == If(low /\ gravity, <<"C-002", "gravity flow">>)
  <2>1. CheckVapour(points, vapour, gravity, known) =
          IF ~known THEN Skipped("C-002") ELSE Outcome({"C-002"}, {}, violations, warnings)
    BY Zenon DEF CheckVapour
  <2>2. \A v \in violations \cup warnings : v[1] = "C-002"
    BY FindingNamed
  <2> HIDE DEF violations, warnings
  <2> QED
    BY <2>1, <2>2
<1>3. Accounts(CheckNpsh(pumps), {"C-003"})
  BY DEF CheckNpsh
<1>4. Accounts(CheckMaximumPressure(points, segments), {"C-004"})
  BY DEF CheckMaximumPressure
<1>5. Accounts(CheckVelocity(points, lowest, highest), {"C-005"})
  BY DEF CheckVelocity
<1>6. Accounts(CheckCurveDomain(pumps), {"C-006"})
  <2> DEFINE running == {p \in pumps : p.running}
             violations == {<<"C-006", p.id>> : p \in {r \in running : r.minimumFlow # None /\ r.flow < r.minimumFlow}}
             outside == {<<"C-006", "extrapolated", p.id>> : p \in {r \in running : ~r.within}}
             far == {r \in running : r.offBep # None /\ r.offBep > 30}
             text == "off bep"
             off == {<<"C-006", text, p.id>> : p \in far}
             warnings == outside \cup off
  <2>1. CheckCurveDomain(pumps) =
          IF running = {} THEN Skipped("C-006") ELSE Outcome({"C-006"}, {}, violations, warnings)
    BY Zenon DEF CheckCurveDomain
  <2>2. \A v \in violations \cup warnings : v[1] = "C-006"
    <3>1. \A v \in violations : v[1] = "C-006"
      OBVIOUS
    <3>2. \A v \in outside : v[1] = "C-006"
      OBVIOUS
    <3>3. \A v \in off : v[1] = "C-006"
      <4> HIDE DEF far, text
      <4> QED
        BY FindingsNamed
    <3> HIDE DEF violations, outside, off
    <3> QED
      BY <3>1, <3>2, <3>3
  <2> HIDE DEF violations, warnings, running
  <2> QED
    BY <2>1, <2>2
<1>7. Accounts(CheckMotorPower(pumps), {"C-007"})
  BY DEF CheckMotorPower
<1>8. Accounts(CheckConvergence(TRUE, residual, tolerance), {"C-010", "C-012"})
  BY DEF CheckConvergence
<1>9. Accounts(CheckExtrapolation(extrapolated), {"C-011"})
  BY DEF CheckExtrapolation
<1> QED
  BY <1>1, <1>2, <1>3, <1>4, <1>5, <1>6, <1>7, <1>8, <1>9

\* The check of the stations shares the name of that of the pressures.
LEMMA StationsAccount ==
    ASSUME NEW stations
    PROVE  LET o == CheckStationPressures(stations)
           IN  /\ o.executed \subseteq {"C-004"} /\ o.skipped = {} /\ o.warnings = {}
               /\ \A v \in o.violations : v[1] \in o.executed
BY DEF CheckStationPressures, Outcome

\* What several outcomes hold together.
LEMMA TogetherHas ==
    ASSUME NEW outcomes
    PROVE  LET all == Together(outcomes)
           IN  /\ \A x : x \in all.executed <=> \E o \in outcomes : x \in o.executed
               /\ \A x : x \in all.skipped <=> \E o \in outcomes : x \in o.skipped
               /\ \A x : x \in all.violations <=> \E o \in outcomes : x \in o.violations
               /\ \A x : x \in all.warnings <=> \E o \in outcomes : x \in o.warnings
BY DEF Together, Outcome

\* All the checks of a result.
LEMMA AllAccount ==
    ASSUME NEW input, NEW line, NEW march, NEW pumps, NEW flow, NEW residual
    PROVE  LET all == AllChecks(input, line, march, pumps, flow, residual)
           IN  /\ Mandatory \subseteq all.executed \cup all.skipped
               /\ \A v \in all.violations \cup all.warnings : v[1] \in all.executed
               /\ (\E w \in all.warnings : w[1] = "C-011") <=> input.state.extrapolated
<1> DEFINE sc == input.scenario
           balance == CheckMassBalance(flow, Outlet(march).flow, NetInjection(line), 0)
           vapour == CheckVapour(march.points, input.state.vapour, sc.gravity, HasOwn(input.fluid, "vapour"))
           npsh == CheckNpsh(pumps)
           pressure == CheckMaximumPressure(march.points, line.segments)
           velocity == CheckVelocity(march.points, sc.minVelocity, sc.maxVelocity)
           domain == CheckCurveDomain(pumps)
           motor == CheckMotorPower(pumps)
           ends == CheckStationPressures({StationReport(march.passages[k]) : k \in DOMAIN march.passages})
           extrapolation == CheckExtrapolation(input.state.extrapolated)
           convergence == CheckConvergence(TRUE, residual, sc.tolerance)
           S == {balance, vapour, npsh, pressure, velocity, domain, motor, ends, extrapolation, convergence}
           all == AllChecks(input, line, march, pumps, flow, residual)
<1>1. all = Together(S)
  BY Zenon DEF AllChecks
<1>2. /\ Accounts(balance, {"C-001"}) /\ Accounts(vapour, {"C-002"}) /\ Accounts(npsh, {"C-003"})
      /\ Accounts(pressure, {"C-004"}) /\ Accounts(velocity, {"C-005"}) /\ Accounts(domain, {"C-006"})
      /\ Accounts(motor, {"C-007"}) /\ Accounts(convergence, {"C-010", "C-012"}) /\ Accounts(extrapolation, {"C-011"})
  BY EachAccounts
<1>3. /\ ends.executed \subseteq {"C-004"} /\ ends.skipped = {} /\ ends.warnings = {}
      /\ \A v \in ends.violations : v[1] \in ends.executed
  BY StationsAccount
<1>4. (\E w \in extrapolation.warnings : w[1] = "C-011") <=> input.state.extrapolated
  BY DEF CheckExtrapolation, Outcome, If
<1> HIDE DEF balance, vapour, npsh, pressure, velocity, domain, motor, ends, extrapolation, convergence, all
<1>5. \A o \in S : \A v \in o.violations \cup o.warnings : v[1] \in o.executed
  BY <1>2, <1>3 DEF Accounts
<1>6. \A o \in S : o # extrapolation => "C-011" \notin o.executed
  BY <1>2, <1>3 DEF Accounts
<1>7. \A c \in Mandatory : \E o \in S : c \in o.executed \cup o.skipped
  BY <1>2 DEF Accounts, Mandatory
<1>8. extrapolation \in S
  OBVIOUS
<1> HIDE DEF S
<1>9. /\ \A x : x \in all.executed <=> \E o \in S : x \in o.executed
      /\ \A x : x \in all.skipped <=> \E o \in S : x \in o.skipped
      /\ \A x : x \in all.violations <=> \E o \in S : x \in o.violations
      /\ \A x : x \in all.warnings <=> \E o \in S : x \in o.warnings
  BY <1>1, TogetherHas
<1> HIDE DEF all, sc
<1>10. Mandatory \subseteq all.executed \cup all.skipped
  BY <1>7, <1>9
<1>11. \A v \in all.violations \cup all.warnings : v[1] \in all.executed
  BY <1>5, <1>9
<1>12. (\E w \in all.warnings : w[1] = "C-011") <=> \E w \in extrapolation.warnings : w[1] = "C-011"
  BY <1>5, <1>6, <1>8, <1>9
<1>13. (\E w \in all.warnings : w[1] = "C-011") <=> input.state.extrapolated
  BY <1>4, <1>12
<1> QED
  BY <1>10, <1>11, <1>13 DEF all

\* A state of the fluid says it was extrapolated when one of its tables was.
LEMMA StateExtrapolated ==
    ASSUME NEW sheet, NEW temperature, FluidState(sheet, temperature) # Refused
    PROVE  LET t == IF temperature = None THEN sheet.reference ELSE temperature
           IN  FluidState(sheet, temperature).extrapolated
                  <=> \E p \in Properties : sheet.tables[p] # None /\ ~InDomain(sheet.tables[p], t)
<1> DEFINE t == IF temperature = None THEN sheet.reference ELSE temperature
           values == [p \in Properties |-> Provided(sheet, p, t)]
           Outside(p) == sheet.tables[p] # None /\ ~InDomain(sheet.tables[p], t)
<1>1. FluidState(sheet, temperature) = StateOf(values)
  BY DEF FluidState
<1> HIDE DEF t
<1>2. ASSUME NEW p \in Properties, values[p] # Refused PROVE values[p].extrapolated <=> Outside(p)
  BY <1>2 DEF Provided, HasOwn, OwnValue, ReadTable, Value, Missing
<1> HIDE DEF values, Outside
<1>3. /\ \A p \in Properties : values[p] # Refused
      /\ FluidState(sheet, temperature).extrapolated <=> \E p \in Properties : values[p].extrapolated
  BY <1>1 DEF StateOf
<1>4. FluidState(sheet, temperature).extrapolated <=> \E p \in Properties : Outside(p)
  BY <1>2, <1>3
<1> QED
  BY <1>4 DEF Outside, t

\* Every mandatory check is executed or declared skipped, a finding names a check that was
\* executed, and an extrapolated property is reported: checks.py, properties.py.
THEOREM ChecksAccounted == LineSpec => []ChecksAreAccounted
<1>1. LineInv => ChecksAreAccounted
  <2> SUFFICES ASSUME LineInv, HasResults PROVE ChecksAreAccounted
    BY DEF ChecksAreAccounted
  <2>1. IsResultOf(study, simulated) /\ study # None
    BY DEF LineInv, HasResults, Failures, Failed
  <2>2. PICK s \in Studies : study = Frozen(s)
    BY <2>1 DEF LineInv
  <2>3. /\ study.state = FluidState(study.fluid, study.scenario.temperature) /\ study.state # Refused
    BY <2>1, <2>2, FrozenParts DEF IsResultOf
  <2>4. study.state.extrapolated <=>
          \E p \in Properties : study.fluid.tables[p] # None /\ ~InDomain(study.fluid.tables[p], TemperatureOf(study))
    BY <2>3, StateExtrapolated DEF TemperatureOf
  <2>5. \E pumps, residual : simulated.outcome =
            AllChecks(study, Resolved(study), simulated.march, pumps, simulated.flow, residual)
    <3> DEFINE flow == simulated.flow
               inlet == simulated.inlet
               residual == Residual(study, flow, inlet)
               r == Built(study, flow, inlet, residual)
    <3>1. simulated = r
      BY <2>1 DEF IsResultOf
    <3> HIDE DEF flow, inlet, residual
    <3>2. r.march = March(study, flow, inlet) /\ r.flow = flow
          /\ r.outcome = AllChecks(study, Resolved(study), March(study, flow, inlet),
                            PumpReports(March(study, flow, inlet), study.state.vapour), flow, residual)
      BY BuiltFields
    <3> HIDE DEF r
    <3> QED
      BY <3>1, <3>2
  <2>6. /\ Mandatory \subseteq simulated.outcome.executed \cup simulated.outcome.skipped
        /\ \A v \in simulated.outcome.violations \cup simulated.outcome.warnings : v[1] \in simulated.outcome.executed
        /\ (\E w \in simulated.outcome.warnings : w[1] = "C-011") <=> study.state.extrapolated
    BY <2>5, AllAccount
  <2> QED
    BY <2>4, <2>6 DEF ChecksAreAccounted
<1> QED
  BY <1>1, ResultsAreBuilt, PTL

(***************************************************************************)
(* The line the scenario leaves, and its grid.                             *)
(***************************************************************************)
\* An override leaves a pump a pump.
LEMMA ResolvedPumpType ==
    ASSUME NEW pump \in PumpType, NEW sc, IsScenario(sc)
    PROVE  ResolvedPump(pump, sc) \in PumpType
<1>1. CASE pump.id \in DOMAIN sc.pumps
  <2> DEFINE o == sc.pumps[pump.id]
  <2>1. o.available \in Maybe(BOOLEAN) /\ o.running \in Maybe(BOOLEAN) /\ o.speed \in Maybe(Nat \ {0})
    BY <1>1 DEF IsScenario
  <2>2. ResolvedPump(pump, sc) =
          [pump EXCEPT !.available = Override(@, o.available), !.running = Override(@, o.running),
                       !.speed = Override(@, o.speed)]
    BY <1>1 DEF ResolvedPump
  <2>3. /\ Override(pump.available, o.available) \in BOOLEAN /\ Override(pump.running, o.running) \in BOOLEAN
        /\ Override(pump.speed, o.speed) \in Nat \ {0}
    BY <2>1 DEF Override, Maybe, PumpType
  <2> HIDE DEF o
  <2> QED
    BY <2>2, <2>3 DEF PumpType
<1>2. CASE pump.id \notin DOMAIN sc.pumps
  BY <1>2 DEF ResolvedPump
<1> QED
  BY <1>1, <1>2

\* It leaves a station where it is.
LEMMA ResolvedStationType ==
    ASSUME NEW station \in LineStationType, NEW sc, IsScenario(sc)
    PROVE  ResolvedStation(station, sc) \in LineStationType /\ ResolvedStation(station, sc).at = station.at
<1> DEFINE Resolve(group) == {ResolvedPump(p, sc) : p \in group}
           groups == [i \in DOMAIN station.groups |-> Resolve(station.groups[i])]
           status == IF station.id \in DOMAIN sc.stations THEN sc.stations[station.id] ELSE station.status
<1>1. ASSUME NEW group \in Groups PROVE Resolve(group) \in Groups
  <2>1. Resolve(group) \subseteq PumpType
    BY ResolvedPumpType DEF Groups
  <2>2. IsFiniteSet(Resolve(group))
    <3> DEFINE f == [p \in group |-> ResolvedPump(p, sc)]
               image == {f[p] : p \in group}
    <3>1. image = Resolve(group)
      OBVIOUS
    <3>2. IsFiniteSet(image)
      <4> HIDE DEF f
      <4> QED
        BY FiniteImage DEF Groups
    <3> HIDE DEF image, Resolve
    <3> QED
      BY <3>1, <3>2
  <2> QED
    BY <2>1, <2>2 DEF Groups
<1> HIDE DEF Resolve
<1>2. groups \in Seq(Groups)
  <2>1. station.groups \in Seq(Groups)
    BY DEF LineStationType
  <2>2. DOMAIN station.groups = 1..Len(station.groups) /\ Len(station.groups) \in Nat
        /\ \A i \in DOMAIN station.groups : station.groups[i] \in Groups
    BY <2>1
  <2> QED
    BY <1>1, <2>2
<1>3. status \in STRING
  BY DEF IsScenario, LineStationType
<1>4. ResolvedStation(station, sc) = [station EXCEPT !.status = status, !.groups = groups]
  BY DEF ResolvedStation, Resolve
<1> HIDE DEF groups, status
<1> QED
  BY <1>2, <1>3, <1>4 DEF LineStationType

\* It leaves a segment between its ends.
LEMMA ResolvedSegmentType ==
    ASSUME NEW segment \in SegmentType, NEW sc, IsScenario(sc)
    PROVE  /\ ResolvedSegment(segment, sc) \in SegmentType
           /\ ResolvedSegment(segment, sc).from = segment.from /\ ResolvedSegment(segment, sc).to = segment.to
<1>1. CASE segment.id \in DOMAIN sc.segments
  <2> DEFINE o == sc.segments[segment.id]
             extra == Extra(segment, o.k)
             fittings == segment.fittings \o extra
  <2>1. o.open \in Maybe(BOOLEAN) /\ o.k \in Maybe(Nat)
    BY <1>1 DEF IsScenario
  <2>2. extra \in Seq(FittingType)
    <3>1. segment.to \in Int
      BY DEF SegmentType
    <3>2. CASE o.k = None
      BY <3>2 DEF Extra
    <3>3. CASE o.k # None
      <4> DEFINE r == [at |-> segment.to, k |-> o.k, quantity |-> 1, narrowing |-> 1]
      <4>1. r \in FittingType
        BY <2>1, <3>1, <3>3 DEF FittingType, Maybe
      <4>2. extra = <<r>>
        BY <3>3 DEF Extra
      <4> HIDE DEF r, extra
      <4> QED
        BY <4>1, <4>2
    <3> QED
      BY <3>2, <3>3
  <2>3. fittings \in Seq(FittingType)
    <3>1. segment.fittings \in Seq(FittingType)
      BY DEF SegmentType
    <3> HIDE DEF extra
    <3> QED
      BY <2>2, <3>1
  <2>4. ResolvedSegment(segment, sc) = [segment EXCEPT !.open = Override(@, o.open), !.fittings = fittings]
    BY <1>1 DEF ResolvedSegment
  <2>5. Override(segment.open, o.open) \in BOOLEAN
    BY <2>1 DEF Override, Maybe, SegmentType
  <2> HIDE DEF fittings, o, extra
  <2> QED
    BY <2>3, <2>4, <2>5 DEF SegmentType
<1>2. CASE segment.id \notin DOMAIN sc.segments
  BY <1>2 DEF ResolvedSegment
<1> QED
  BY <1>1, <1>2

\* A segment after the other.
IsChain(line) == \A i \in 1..(Len(line.segments) - 1) : line.segments[i].to = line.segments[i + 1].from

\* The parts of a line.
LEMMA LineParts ==
    ASSUME NEW line \in LineType
    PROVE  /\ DOMAIN line.segments = 1..Len(line.segments) /\ Len(line.segments) \in Nat \ {0}
           /\ \A i \in 1..Len(line.segments) :
                 line.segments[i] \in SegmentType /\ line.segments[i].from \in Int /\ line.segments[i].to \in Int
                 /\ line.segments[i].from < line.segments[i].to
           /\ DOMAIN line.stations = 1..Len(line.stations) /\ Len(line.stations) \in Nat
           /\ \A i \in 1..Len(line.stations) : line.stations[i] \in LineStationType
           /\ DOMAIN line.injections = 1..Len(line.injections) /\ Len(line.injections) \in Nat
           /\ \A i \in 1..Len(line.injections) :
                 line.injections[i].at \in Int /\ line.injections[i].flow \in Int
           /\ line.profile \in Curves
<1>1. /\ line.segments \in Seq(SegmentType) /\ line.segments # <<>>
      /\ line.stations \in Seq(LineStationType) /\ line.profile \in Curves
      /\ line.injections \in Seq([at : Int, flow : Int, active : BOOLEAN])
  BY DEF LineType
<1>2. \A s \in SegmentType : s.from \in Int /\ s.to \in Int /\ s.from < s.to
  BY DEF SegmentType
<1>3. DOMAIN line.segments = 1..Len(line.segments) /\ Len(line.segments) \in Nat \ {0}
      /\ \A i \in 1..Len(line.segments) : line.segments[i] \in SegmentType
  BY <1>1
<1>4. DOMAIN line.stations = 1..Len(line.stations) /\ Len(line.stations) \in Nat
      /\ \A i \in 1..Len(line.stations) : line.stations[i] \in LineStationType
  BY <1>1
<1>5. DOMAIN line.injections = 1..Len(line.injections) /\ Len(line.injections) \in Nat
      /\ \A i \in 1..Len(line.injections) : line.injections[i] \in [at : Int, flow : Int, active : BOOLEAN]
  <2> DEFINE Injections == [at : Int, flow : Int, active : BOOLEAN]
  <2>1. line.injections \in Seq(Injections)
    BY <1>1
  <2> HIDE DEF Injections
  <2>2. DOMAIN line.injections = 1..Len(line.injections) /\ Len(line.injections) \in Nat
        /\ \A i \in 1..Len(line.injections) : line.injections[i] \in Injections
    BY <2>1
  <2> QED
    BY <2>2 DEF Injections
<1> QED
  BY <1>1, <1>2, <1>3, <1>4, <1>5

\* The line of a scenario has the ends, the profile and the injections of the baseline.
LEMMA ResolvedLine ==
    ASSUME NEW input, input.line \in LineType, IsScenario(input.scenario), IsChain(input.line)
    PROVE  /\ Resolved(input) \in LineType /\ IsChain(Resolved(input))
           /\ LineStart(Resolved(input)) = LineStart(input.line) /\ LineEnd(Resolved(input)) = LineEnd(input.line)
           /\ Resolved(input).profile = input.line.profile /\ Resolved(input).injections = input.line.injections
           /\ Resolved(input).destinationTank = input.line.destinationTank
<1> DEFINE line == input.line
           sc == input.scenario
           segments == [i \in DOMAIN line.segments |-> ResolvedSegment(line.segments[i], sc)]
           stations == [i \in DOMAIN line.stations |-> ResolvedStation(line.stations[i], sc)]
<1>1. Resolved(input) = [line EXCEPT !.segments = segments, !.stations = stations]
  BY DEF Resolved
<1> HIDE DEF line
<1>0. line \in LineType /\ IsScenario(sc) /\ IsChain(line)
  BY DEF line
<1>2. segments \in Seq(SegmentType) /\ Len(segments) = Len(line.segments)
  <2>1. \A i \in 1..Len(line.segments) : ResolvedSegment(line.segments[i], sc) \in SegmentType
    BY <1>0, LineParts, ResolvedSegmentType
  <2>2. DOMAIN line.segments = 1..Len(line.segments) /\ Len(line.segments) \in Nat
    BY <1>0, LineParts
  <2> QED
    BY <2>1, <2>2
<1>3. \A i \in 1..Len(line.segments) :
        segments[i].from = line.segments[i].from /\ segments[i].to = line.segments[i].to
  BY <1>0, LineParts, ResolvedSegmentType
<1>4. stations \in Seq(LineStationType)
  <2>1. \A i \in 1..Len(line.stations) : ResolvedStation(line.stations[i], sc) \in LineStationType
    BY <1>0, LineParts, ResolvedStationType
  <2>2. DOMAIN line.stations = 1..Len(line.stations) /\ Len(line.stations) \in Nat
    BY <1>0, LineParts
  <2> QED
    BY <2>1, <2>2
<1> HIDE DEF segments, stations
<1>5. /\ Resolved(input) \in LineType /\ Resolved(input).segments = segments
      /\ Resolved(input).profile = line.profile /\ Resolved(input).injections = line.injections
      /\ Resolved(input).destinationTank = line.destinationTank
  <2>1. segments # <<>>
    BY <1>0, <1>2, LineParts
  <2> QED
    BY <1>0, <1>1, <1>2, <1>4, <2>1 DEF LineType
<1>6. Len(line.segments) \in Nat \ {0}
  BY <1>0, LineParts
<1>7. IsChain(Resolved(input))
  BY <1>0, <1>2, <1>3, <1>5, <1>6 DEF IsChain
<1>8. LineStart(Resolved(input)) = LineStart(line) /\ LineEnd(Resolved(input)) = LineEnd(line)
  BY <1>2, <1>3, <1>5, <1>6 DEF LineStart, LineEnd
<1> QED
  BY <1>5, <1>7, <1>8 DEF line

\* A chain of segments advances.
LEMMA ChainAdvances ==
    ASSUME NEW line \in LineType, IsChain(line)
    PROVE  \A i, j \in 1..Len(line.segments) :
              i < j => line.segments[i].from < line.segments[j].from /\ line.segments[i].to <= line.segments[j].from
<1> DEFINE n == Len(line.segments)
           f == [i \in 1..n |-> line.segments[i].from]
<1>1. /\ n \in Nat \ {0}
      /\ \A i \in 1..n : /\ line.segments[i].from \in Int /\ line.segments[i].to \in Int
                         /\ line.segments[i].from < line.segments[i].to
  BY LineParts
<1>2. \A i \in 1..(n - 1) : line.segments[i].to = line.segments[i + 1].from
  BY DEF IsChain
<1> HIDE DEF n
<1>3. \A i \in 1..n : f[i] \in Int
  BY <1>1
<1>4. \A i \in 2..n : f[i - 1] < f[i]
  <2> SUFFICES ASSUME NEW i \in 2..n PROVE f[i - 1] < f[i]
    OBVIOUS
  <2>1. i - 1 \in 1..(n - 1) /\ (i - 1) + 1 = i /\ i - 1 \in 1..n /\ i \in 1..n
    BY <1>1
  <2>2. line.segments[i - 1].to = line.segments[i].from /\ line.segments[i - 1].from < line.segments[i - 1].to
    BY <1>1, <1>2, <2>1
  <2> QED
    BY <2>1, <2>2
<1>5. \A i, j \in 1..n : i < j => f[i] < f[j]
  <2> HIDE DEF f
  <2> QED
    BY <1>1, <1>3, <1>4, IncreasingByOne
<1>6. \A i, j \in 1..n : i < j => line.segments[i].to <= line.segments[j].from
  <2> SUFFICES ASSUME NEW i \in 1..n, NEW j \in 1..n, i < j PROVE line.segments[i].to <= line.segments[j].from
    OBVIOUS
  <2>1. i \in 1..(n - 1) /\ i + 1 \in 1..n
    BY <1>1
  <2>2. line.segments[i].to = f[i + 1]
    BY <1>2, <2>1
  <2>3. i + 1 = j \/ f[i + 1] < f[j]
    BY <1>5, <2>1
  <2>4. f[i + 1] \in Int /\ f[j] \in Int
    BY <1>3, <2>1
  <2>5. f[i + 1] <= f[j]
    <3> HIDE DEF f
    <3> QED
      BY <2>3, <2>4
  <2> QED
    BY <2>2, <2>5
<1> QED
  BY <1>5, <1>6 DEF n

\* Every chainage of the line has its segment.
LEMMA SegmentGoverns ==
    ASSUME NEW line \in LineType, IsChain(line), NEW c \in Int, OnLine(line, c)
    PROVE  \E i \in 1..Len(line.segments) :
              /\ Governing(line, c) = line.segments[i] /\ line.segments[i].from <= c /\ c <= line.segments[i].to
              /\ c < line.segments[i].to \/ i = Len(line.segments)
<1> DEFINE n == Len(line.segments)
           Fits(i) == line.segments[i].from <= c /\ (c < line.segments[i].to \/ i = n)
           S == {i \in 1..n : c < line.segments[i].to \/ i = n}
<1>1. /\ n \in Nat \ {0} /\ DOMAIN line.segments = 1..n
      /\ \A i \in 1..n : line.segments[i].from \in Int /\ line.segments[i].to \in Int
  BY LineParts
<1>2. \A i \in 1..(n - 1) : line.segments[i].to = line.segments[i + 1].from
  BY DEF IsChain
<1>3. line.segments[1].from <= c /\ c <= line.segments[n].to
  BY DEF OnLine, LineStart, LineEnd
<1> HIDE DEF n
<1>4. PICK i \in S : \A j \in S : i <= j
  <2>1. S \in SUBSET Nat /\ n \in S
    BY <1>1
  <2>2. S # {}
    BY <2>1
  <2> HIDE DEF S
  <2> QED
    BY <2>1, <2>2, LeastNatural
<1>5. line.segments[i].from <= c
  <2>1. CASE i = 1
    BY <1>3, <2>1
  <2>2. CASE i # 1
    <3>1. i - 1 \in 1..(n - 1) /\ (i - 1) + 1 = i /\ i - 1 \in 1..n /\ ~(i <= i - 1)
      BY <1>1, <2>2
    <3>2. i - 1 \notin S
      BY <1>4, <3>1
    <3>3. ~(c < line.segments[i - 1].to) /\ line.segments[i - 1].to \in Int
      BY <1>1, <3>1, <3>2
    <3>4. line.segments[i - 1].to = line.segments[i].from
      BY <1>2, <3>1
    <3> QED
      BY <3>3, <3>4
  <2> QED
    BY <2>1, <2>2
<1>6. \E j \in 1..n : Fits(j)
  BY <1>4, <1>5
<1>7. Governing(line, c) = line.segments[CHOOSE j \in 1..n : Fits(j)]
  BY <1>1 DEF Governing, n
<1>8. PICK j \in 1..n : Fits(j) /\ j = CHOOSE k \in 1..n : Fits(k)
  <2> HIDE DEF Fits
  <2> QED
    BY <1>6
<1>9. c <= line.segments[j].to
  <2>1. line.segments[j].to \in Int /\ (c < line.segments[j].to \/ j = n)
    BY <1>1, <1>8
  <2>2. j = n => c <= line.segments[j].to
    BY <1>3
  <2> HIDE DEF Fits
  <2> QED
    BY <2>1, <2>2
<1> QED
  BY <1>7, <1>8, <1>9 DEF n

\* A grid made of a finite set of integers, in increasing order.
GridOf(all) == [i \in 1..Cardinality(all) |-> CHOOSE c \in all : Cardinality({d \in all : d < c}) = i - 1]

InOrder(grid, all) ==
    /\ Cardinality(all) \in Nat /\ grid \in Seq(Int) /\ Len(grid) = Cardinality(all)
    /\ \A i \in 1..Len(grid) : grid[i] \in all
    /\ \A c \in all : \E i \in 1..Len(grid) : grid[i] = c
    /\ \A i, j \in 1..Len(grid) : i < j => grid[i] < grid[j]

\* The grid holds every chainage once, in increasing order.
LEMMA GridInOrder ==
    ASSUME NEW all, IsFiniteSet(all), all \subseteq Int, NEW grid, grid = GridOf(all)
    PROVE  InOrder(grid, all)
<1> USE DEF GridOf
<1> DEFINE R == {p \in all \X all : p[1] < p[2]}
           n == Cardinality(all)
           Rank(c) == Cardinality({d \in all : d < c})
<1>1. n \in Nat
  BY FS_CardinalityType
<1>2. /\ \A c \in all : Rank(c) \in 0..(n - 1)
      /\ \A c, d \in all : c < d => Rank(c) < Rank(d)
      /\ \A k \in 0..(n - 1) : \E c \in all : Rank(c) = k
  <2>1. StrictOrder(R, all)
    BY DEF StrictOrder
  <2>2. \A c \in all : RankIn(R, all, c) = Rank(c)
    <3> SUFFICES ASSUME NEW c \in all PROVE RankIn(R, all, c) = Rank(c)
      OBVIOUS
    <3>1. {d \in all : <<d, c>> \in R} = {d \in all : d < c}
      OBVIOUS
    <3> QED
      BY <3>1 DEF RankIn
  <2>3. \A c, d \in all : c < d => <<c, d>> \in R
    OBVIOUS
  <2> HIDE DEF R, Rank
  <2>4. /\ \A c \in all : RankIn(R, all, c) \in 0..(Cardinality(all) - 1)
        /\ \A c, d \in all : <<c, d>> \in R => RankIn(R, all, c) < RankIn(R, all, d)
        /\ \A k \in 0..(Cardinality(all) - 1) : \E c \in all : RankIn(R, all, c) = k
    <3>1. IsFiniteSet(all)
      OBVIOUS
    <3> QED
      BY ONLY <2>1, <3>1, Ranks, SMT
  <2> QED
    BY <2>2, <2>3, <2>4
<1> HIDE DEF Rank
<1>3. \A i \in 1..n : grid[i] \in all /\ Rank(grid[i]) = i - 1
  <2> SUFFICES ASSUME NEW i \in 1..n PROVE grid[i] \in all /\ Rank(grid[i]) = i - 1
    OBVIOUS
  <2>1. grid[i] = CHOOSE c \in all : Rank(c) = i - 1
    BY DEF Rank
  <2>2. \E c \in all : Rank(c) = i - 1
    <3>1. i - 1 \in 0..(n - 1)
      BY <1>1
    <3> QED
      BY <1>2, <3>1
  <2> QED
    BY <2>1, <2>2
<1>4. DOMAIN grid = 1..n
  OBVIOUS
<1> HIDE DEF n
<1>5. grid \in Seq(Int) /\ Len(grid) = n
  <2>1. grid \in [1..n -> Int]
    BY <1>3 DEF n
  <2>2. \A s \in [1..n -> Int] : s \in Seq(Int) /\ Len(s) = n
    BY <1>1
  <2> QED
    BY <2>1, <2>2, Zenon
<1>6. \A c, d \in all : Rank(c) = Rank(d) => c = d
  <2> SUFFICES ASSUME NEW c \in all, NEW d \in all, Rank(c) = Rank(d), c # d PROVE FALSE
    OBVIOUS
  <2>1. c \in Int /\ d \in Int /\ Rank(c) \in Int /\ Rank(d) \in Int
    BY <1>1, <1>2
  <2>2. c < d \/ d < c
    BY <2>1
  <2>3. Rank(c) < Rank(d) \/ Rank(d) < Rank(c)
    BY <1>2, <2>2
  <2> QED
    BY <2>1, <2>3
<1>7. ASSUME NEW c \in all PROVE \E i \in 1..n : grid[i] = c
  <2>1. Rank(c) + 1 \in 1..n /\ (Rank(c) + 1) - 1 = Rank(c)
    BY <1>1, <1>2
  <2>2. grid[Rank(c) + 1] \in all /\ Rank(grid[Rank(c) + 1]) = Rank(c)
    BY <1>3, <2>1
  <2> QED
    BY <1>6, <2>1, <2>2
<1>8. ASSUME NEW i \in 1..n, NEW j \in 1..n, i < j PROVE grid[i] < grid[j]
  <2>1. grid[i] \in all /\ grid[j] \in all /\ Rank(grid[i]) = i - 1 /\ Rank(grid[j]) = j - 1
    BY <1>3
  <2>2. grid[i] \in Int /\ grid[j] \in Int
    BY <2>1
  <2>3. ~(grid[j] < grid[i]) /\ grid[i] # grid[j]
    <3>1. ~(Rank(grid[j]) < Rank(grid[i])) /\ Rank(grid[i]) # Rank(grid[j])
      BY <1>1, <1>8, <2>1
    <3> QED
      BY <1>2, <2>1, <3>1
  <2> QED
    BY <2>2, <2>3
<1> QED
  BY <1>1, <1>3, <1>5, <1>7, <1>8 DEF n, InOrder

\* The fittings of a line are finitely many.
LEMMA FittingsKnown ==
    ASSUME NEW line \in LineType
    PROVE  /\ IsFiniteSet(Fittings(line))
           /\ \A f \in Fittings(line) :
                 /\ f[1] \in 1..Len(line.segments) /\ f[2] \in DOMAIN line.segments[f[1]].fittings
                 /\ line.segments[f[1]].fittings[f[2]] \in FittingType
                 /\ FittingAt(line.segments[f[1]], line.segments[f[1]].fittings[f[2]]) \in Int
<1> DEFINE n == Len(line.segments)
           of == [i \in 1..n |-> {<<i, j>> : j \in DOMAIN line.segments[i].fittings}]
<1>1. n \in Nat /\ DOMAIN line.segments = 1..n /\ \A i \in 1..n : line.segments[i] \in SegmentType /\ line.segments[i].to \in Int
  BY LineParts
<1> HIDE DEF n
<1>2. ASSUME NEW i \in 1..n
      PROVE  /\ IsFiniteSet(DOMAIN line.segments[i].fittings)
             /\ \A j \in DOMAIN line.segments[i].fittings : line.segments[i].fittings[j] \in FittingType
  <2>1. line.segments[i].fittings \in Seq(FittingType)
    BY <1>1 DEF SegmentType
  <2>2. \A q \in Seq(FittingType) : DOMAIN q = 1..Len(q) /\ Len(q) \in Nat /\ \A j \in DOMAIN q : q[j] \in FittingType
    OBVIOUS
  <2>3. IsFiniteSet(1..Len(line.segments[i].fittings))
    BY <2>1, <2>2, FS_Interval
  <2> QED
    BY <2>1, <2>2, <2>3
<1>3. Fittings(line) = UNION {of[i] : i \in 1..n}
  BY <1>1 DEF Fittings
<1>4. ASSUME NEW i \in 1..n PROVE IsFiniteSet(of[i])
  <2> DEFINE D == DOMAIN line.segments[i].fittings
             pair == [j \in D |-> <<i, j>>]
             image == {pair[j] : j \in D}
  <2>1. of[i] = image
    OBVIOUS
  <2>2. IsFiniteSet(D)
    BY <1>2
  <2>3. IsFiniteSet(image)
    <3> HIDE DEF D, pair
    <3> QED
      BY <2>2, FiniteImage
  <2> HIDE DEF image, of
  <2> QED
    BY <2>1, <2>3
<1>5. IsFiniteSet(UNION {of[i] : i \in 1..n})
  <2>1. IsFiniteSet(1..n)
    BY <1>1, FS_Interval
  <2> HIDE DEF of
  <2> QED
    BY <1>4, <2>1, FiniteUnion
<1>6. ASSUME NEW f \in Fittings(line)
      PROVE  /\ f[1] \in 1..n /\ f[2] \in DOMAIN line.segments[f[1]].fittings
             /\ line.segments[f[1]].fittings[f[2]] \in FittingType
  BY <1>1, <1>2 DEF Fittings
<1>7. ASSUME NEW f \in Fittings(line)
      PROVE  FittingAt(line.segments[f[1]], line.segments[f[1]].fittings[f[2]]) \in Int
  BY <1>1, <1>6 DEF FittingAt, FittingType, Maybe
<1> QED
  BY <1>3, <1>5, <1>6, <1>7 DEF n

\* The chainages the grid holds: every point where something happens, on the line.
LEMMA PointsOfLine ==
    ASSUME NEW line \in LineType, IsChain(line), NEW step \in Nat \ {0}
    PROVE  /\ IsFiniteSet(Chainages(line, step)) /\ Chainages(line, step) \subseteq Int
           /\ LineStart(line) \in Int /\ LineEnd(line) \in Int /\ LineStart(line) < LineEnd(line)
           /\ LineStart(line) \in Chainages(line, step) /\ LineEnd(line) \in Chainages(line, step)
           /\ \A c \in Chainages(line, step) : OnLine(line, c)
           /\ \A i \in 1..Len(line.segments) :
                 line.segments[i].from \in Chainages(line, step) /\ line.segments[i].to \in Chainages(line, step)
           /\ \A f \in Fittings(line) :
                 LET c == FittingAt(line.segments[f[1]], line.segments[f[1]].fittings[f[2]])
                 IN  OnLine(line, c) => c \in Chainages(line, step)
           /\ \A i \in DOMAIN line.profile :
                 OnLine(line, X(line.profile, i)) => X(line.profile, i) \in Chainages(line, step)
           /\ \A i \in DOMAIN line.injections :
                 OnLine(line, line.injections[i].at) => line.injections[i].at \in Chainages(line, step)
<1> DEFINE n == Len(line.segments)
           ends == [i \in 1..n |-> {line.segments[i].from, line.segments[i].to}]
           at(f) == FittingAt(line.segments[f[1]], line.segments[f[1]].fittings[f[2]])
           fits == [f \in Fittings(line) |-> at(f)]
           profile == [i \in DOMAIN line.profile |-> X(line.profile, i)]
           stations == [i \in DOMAIN line.stations |-> line.stations[i].at]
           injections == [i \in DOMAIN line.injections |-> line.injections[i].at]
           A == UNION {{line.segments[i].from, line.segments[i].to} : i \in DOMAIN line.segments}
           B == {at(f) : f \in Fittings(line)}
           C == {X(line.profile, i) : i \in DOMAIN line.profile}
           D == {line.stations[i].at : i \in DOMAIN line.stations}
           E == {line.injections[i].at : i \in DOMAIN line.injections}
           count == (LineEnd(line) - LineStart(line)) \div step
           F == {StepPoint(line, step, k) : k \in 0..count}
           all == A \cup B \cup C \cup D \cup E \cup F
<1>1. /\ n \in Nat \ {0} /\ DOMAIN line.segments = 1..n
      /\ \A i \in 1..n : line.segments[i].from \in Int /\ line.segments[i].to \in Int
                         /\ line.segments[i].from < line.segments[i].to
      /\ DOMAIN line.stations = 1..Len(line.stations) /\ Len(line.stations) \in Nat
      /\ \A i \in 1..Len(line.stations) : line.stations[i].at \in Int
      /\ DOMAIN line.injections = 1..Len(line.injections) /\ Len(line.injections) \in Nat
      /\ \A i \in 1..Len(line.injections) : line.injections[i].at \in Int
  BY LineParts DEF LineStationType
<1>2. /\ DOMAIN line.profile = 1..Len(line.profile) /\ Len(line.profile) \in Nat
      /\ \A i \in 1..Len(line.profile) : X(line.profile, i) \in Int
  BY LineParts, TablePoints
<1>3. LineStart(line) = line.segments[1].from /\ LineEnd(line) = line.segments[n].to
  BY DEF LineStart, LineEnd
<1>4. Chainages(line, step) = {c \in all : OnLine(line, c)}
  BY Zenon DEF Chainages
<1> HIDE DEF n
<1>5. LineStart(line) \in Int /\ LineEnd(line) \in Int /\ LineStart(line) < LineEnd(line)
  <2>1. 1 \in 1..n /\ n \in 1..n
    BY <1>1
  <2>2. CASE n = 1
    BY <1>1, <1>3, <2>1, <2>2
  <2>3. CASE n # 1
    <3>1. line.segments[1].from < line.segments[n].from
      <4>1. 1 < n
        BY <1>1, <2>3
      <4> QED
        BY <2>1, <4>1, ChainAdvances DEF n
    <3> QED
      BY <1>1, <1>3, <2>1, <3>1
  <2> QED
    BY <2>2, <2>3
<1>6. IsFiniteSet(all)
  <2>1. IsFiniteSet(A)
    <3>1. IsFiniteSet(1..n)
      <4>1. n \in Nat
        BY <1>1
      <4> QED
        BY ONLY <4>1, FS_Interval
    <3>2. \A i \in 1..n : IsFiniteSet(ends[i])
      <4>1. \A x : IsFiniteSet({x})
        BY FS_Singleton
      <4>2. \A x, y : IsFiniteSet({x} \cup {y})
        BY <4>1, FS_Union
      <4>3. \A x, y : {x, y} = {x} \cup {y}
        OBVIOUS
      <4>4. \A i \in 1..n : ends[i] = {line.segments[i].from} \cup {line.segments[i].to}
        BY <4>3
      <4> SUFFICES ASSUME NEW i \in 1..n PROVE IsFiniteSet(ends[i])
        OBVIOUS
      <4> DEFINE a == {line.segments[i].from}
                 b == {line.segments[i].to}
      <4>5. ends[i] = a \cup b /\ IsFiniteSet(a \cup b)
        BY <4>2, <4>4
      <4> HIDE DEF ends, a, b
      <4> QED
        BY <4>5
    <3>3. A = UNION {ends[i] : i \in 1..n}
      BY <1>1
    <3>4. IsFiniteSet(UNION {ends[i] : i \in 1..n})
      <4> HIDE DEF ends, A
      <4> QED
        BY <3>1, <3>2, FiniteUnion
    <3> HIDE DEF A, ends
    <3> QED
      BY <3>3, <3>4
  <2>2. IsFiniteSet(B)
    <3> DEFINE image == {fits[i] : i \in Fittings(line)}
    <3>1. image = B
      OBVIOUS
    <3>2. IsFiniteSet(Fittings(line))
      BY FittingsKnown
    <3>3. IsFiniteSet(image)
      <4> HIDE DEF fits
      <4> QED
        BY <3>2, FiniteImage
    <3> HIDE DEF image, B
    <3> QED
      BY <3>1, <3>3
  <2>3. IsFiniteSet(C)
    <3> DEFINE image == {profile[i] : i \in DOMAIN line.profile}
    <3>1. image = C
      OBVIOUS
    <3>2. IsFiniteSet(DOMAIN line.profile)
      <4>1. DOMAIN line.profile = 1..Len(line.profile) /\ Len(line.profile) \in Nat
        BY <1>2
      <4> QED
        BY <4>1, FS_Interval
    <3>3. IsFiniteSet(image)
      <4> HIDE DEF profile
      <4> QED
        BY <3>2, FiniteImage
    <3> HIDE DEF image, C
    <3> QED
      BY <3>1, <3>3
  <2>4. IsFiniteSet(D)
    <3> DEFINE image == {stations[i] : i \in DOMAIN line.stations}
    <3>1. image = D
      OBVIOUS
    <3>2. IsFiniteSet(DOMAIN line.stations)
      <4>1. DOMAIN line.stations = 1..Len(line.stations) /\ Len(line.stations) \in Nat
        BY <1>1
      <4> QED
        BY <4>1, FS_Interval
    <3>3. IsFiniteSet(image)
      <4> HIDE DEF stations
      <4> QED
        BY <3>2, FiniteImage
    <3> HIDE DEF image, D
    <3> QED
      BY <3>1, <3>3
  <2>5. IsFiniteSet(E)
    <3> DEFINE image == {injections[i] : i \in DOMAIN line.injections}
    <3>1. image = E
      OBVIOUS
    <3>2. IsFiniteSet(DOMAIN line.injections)
      <4>1. DOMAIN line.injections = 1..Len(line.injections) /\ Len(line.injections) \in Nat
        BY <1>1
      <4> QED
        BY <4>1, FS_Interval
    <3>3. IsFiniteSet(image)
      <4> HIDE DEF injections
      <4> QED
        BY <3>2, FiniteImage
    <3> HIDE DEF image, E
    <3> QED
      BY <3>1, <3>3
  <2>6. IsFiniteSet(F)
    <3> DEFINE f == [k \in 0..count |-> StepPoint(line, step, k)]
    <3>1. IsFiniteSet(0..count)
      <4>1. LineEnd(line) - LineStart(line) \in Int
        BY <1>5
      <4>2. count \in Int
        BY <4>1, QuotientIsInteger
      <4> HIDE DEF count
      <4> QED
        BY <4>2, FS_Interval
    <3>2. F = {f[k] : k \in 0..count}
      OBVIOUS
    <3> HIDE DEF f, F, count
    <3> QED
      BY <3>1, <3>2, FiniteImage
  <2> HIDE DEF A, B, C, D, E, F
  <2>7. IsFiniteSet(A \cup B) /\ IsFiniteSet(C \cup D) /\ IsFiniteSet(E \cup F)
    BY <2>1, <2>2, <2>3, <2>4, <2>5, <2>6, FS_Union
  <2>8. IsFiniteSet((A \cup B) \cup (C \cup D))
    BY <2>7, FS_Union
  <2>9. IsFiniteSet(((A \cup B) \cup (C \cup D)) \cup (E \cup F))
    BY <2>7, <2>8, FS_Union
  <2>10. ((A \cup B) \cup (C \cup D)) \cup (E \cup F) = all
    OBVIOUS
  <2> HIDE DEF all
  <2> QED
    BY <2>9, <2>10
<1>7. all \subseteq Int
  <2>1. A \subseteq Int
    BY <1>1
  <2>2. B \subseteq Int
    BY FittingsKnown
  <2>3. C \subseteq Int
    BY <1>2
  <2>4. D \subseteq Int /\ E \subseteq Int
    BY <1>1
  <2>5. F \subseteq Int
    <3>1. \A k \in Int : k * step \in Int
      OBVIOUS
    <3>2. \A k \in Int : StepPoint(line, step, k) \in Int
      BY <1>5, <3>1 DEF StepPoint
    <3>3. \A k \in 0..count : k \in Int
      OBVIOUS
    <3> HIDE DEF count
    <3> QED
      BY <3>2, <3>3
  <2> HIDE DEF A, B, C, D, E, F
  <2> QED
    BY <2>1, <2>2, <2>3, <2>4, <2>5
<1>8. \A i \in 1..n : line.segments[i].from \in all /\ line.segments[i].to \in all
  <2> SUFFICES ASSUME NEW i \in 1..n PROVE line.segments[i].from \in A /\ line.segments[i].to \in A
    <3> HIDE DEF A, B, C, D, E, F
    <3> QED
      OBVIOUS
  <2> QED
    BY <1>1
<1>9. \A f \in Fittings(line) : at(f) \in all
  <2> HIDE DEF A, C, D, E, F, at
  <2> QED
    OBVIOUS
<1>10. \A i \in DOMAIN line.profile : X(line.profile, i) \in all
  <2> HIDE DEF A, B, D, E, F
  <2> QED
    OBVIOUS
<1>11. \A i \in DOMAIN line.injections : line.injections[i].at \in all
  <2> HIDE DEF A, B, C, D, F
  <2> QED
    OBVIOUS
<1> HIDE DEF all
<1>12. \A i \in 1..n : OnLine(line, line.segments[i].from) /\ OnLine(line, line.segments[i].to)
  <2> SUFFICES ASSUME NEW i \in 1..n
               PROVE  OnLine(line, line.segments[i].from) /\ OnLine(line, line.segments[i].to)
    OBVIOUS
  <2>1. 1 \in 1..n /\ n \in 1..n /\ (i = 1 \/ 1 < i) /\ (i = n \/ i < n)
    BY <1>1
  <2>2. i = 1 \/ line.segments[1].from < line.segments[i].from
    BY <2>1, ChainAdvances DEF n
  <2>3. i = n \/ line.segments[i].to <= line.segments[n].from
    BY <2>1, ChainAdvances DEF n
  <2>4. LineStart(line) = line.segments[1].from /\ LineEnd(line) = line.segments[n].to
    BY DEF LineStart, LineEnd, n
  <2> DEFINE a == line.segments[1].from
             b == line.segments[i].from
             c == line.segments[i].to
             d == line.segments[n].from
             e == line.segments[n].to
  <2>5. a \in Int /\ b \in Int /\ c \in Int /\ d \in Int /\ e \in Int /\ b < c /\ d < e
    BY <1>1, <2>1
  <2>6. (i = 1 => b = a) /\ (i = n => c = e)
    OBVIOUS
  <2> HIDE DEF a, b, c, d, e
  <2>7. a <= b /\ b <= e /\ a <= c /\ c <= e
    <3>1. (b = a \/ a < b) /\ (c = e \/ c <= d)
      BY <2>2, <2>3, <2>6 DEF a, b, c, d
    <3> QED
      BY ONLY <2>5, <3>1
  <2> QED
    BY <2>4, <2>7 DEF OnLine, a, b, c, e
<1>13. LineStart(line) \in all /\ LineEnd(line) \in all /\ OnLine(line, LineStart(line)) /\ OnLine(line, LineEnd(line))
  <2>1. 1 \in 1..n /\ n \in 1..n
    BY <1>1
  <2> QED
    BY <1>3, <1>8, <1>12, <2>1
<1>14. IsFiniteSet(Chainages(line, step))
  BY <1>4, <1>6, FS_Subset
<1> QED
  BY <1>4, <1>5, <1>7, <1>8, <1>9, <1>10, <1>11, <1>12, <1>13, <1>14 DEF n

(***************************************************************************)
(* The march.                                                              *)
(***************************************************************************)
\* A loss is an integer.
LEMMA DropType == \A k, v \in Int : Drop(k, v) \in Int /\ Magnitude(v) \in Int
<1> SUFFICES ASSUME NEW k \in Int, NEW v \in Int PROVE Drop(k, v) \in Int /\ Magnitude(v) \in Int
  OBVIOUS
<1>1. Magnitude(v) \in Int
  BY DEF Magnitude
<1> QED
  BY <1>1 DEF Drop

\* The coefficient of a fitting, and of the fittings at a chainage.
LEMMA EffectiveKNatural == \A x \in FittingType : EffectiveK(x) \in Nat
<1> SUFFICES ASSUME NEW x \in FittingType PROVE EffectiveK(x) \in Nat
  OBVIOUS
<1>1. x.k \in Nat /\ x.quantity \in Nat /\ x.narrowing \in Nat
  BY DEF FittingType
<1>2. \A a, b, d \in Nat : a * b * d * d \in Nat
  BY Z3
<1> QED
  BY <1>1, <1>2 DEF EffectiveK

LEMMA FittingKNatural ==
    ASSUME NEW line \in LineType, NEW c
    PROVE  FittingK(line, c) \in Nat
<1> DEFINE E == {g \in Fittings(line) : FittingAt(line.segments[g[1]], line.segments[g[1]].fittings[g[2]]) = c}
           f == [g \in E |-> EffectiveK(line.segments[g[1]].fittings[g[2]])]
<1>1. IsFiniteSet(E)
  BY FittingsKnown, FS_Subset
<1>2. \A g \in E : line.segments[g[1]].fittings[g[2]] \in FittingType
  BY FittingsKnown
<1>3. f \in [E -> Nat]
  BY <1>2, EffectiveKNatural
<1>4. SumOver(f) \in Nat
  <2> HIDE DEF f, E
  <2> QED
    BY <1>1, <1>3, SumNatural
<1> QED
  BY <1>4 DEF FittingK

\* What is injected, part after part.
LEMMA InjectedParts ==
    ASSUME NEW line \in LineType
    PROVE  /\ \A here \in SUBSET (DOMAIN line.injections) : Injected(line, here) \in Int
           /\ Injected(line, {}) = 0
           /\ \A A, B \in SUBSET (DOMAIN line.injections) :
                 A \cap B = {} => Injected(line, A \cup B) = Injected(line, A) + Injected(line, B)
<1> DEFINE D == DOMAIN line.injections
           f == [i \in D |-> line.injections[i].flow]
<1>1. IsFiniteSet(D) /\ f \in [D -> Int]
  <2>1. D = 1..Len(line.injections) /\ Len(line.injections) \in Nat /\ \A i \in D : line.injections[i].flow \in Int
    BY LineParts
  <2>2. IsFiniteSet(D)
    <3> HIDE DEF D
    <3> QED
      BY <2>1, FS_Interval
  <2> QED
    BY <2>1, <2>2
<1>2. \A here \in SUBSET D : Injected(line, here) = PartOf(f, here)
  <2> SUFFICES ASSUME NEW here \in SUBSET D PROVE Injected(line, here) = PartOf(f, here)
    OBVIOUS
  <2>1. [i \in here |-> line.injections[i].flow] = [i \in here |-> f[i]]
    OBVIOUS
  <2> QED
    BY <2>1 DEF Injected, PartOf
<1> HIDE DEF f
<1>3. PartOf(f, {}) = 0 /\ \A here \in SUBSET D : PartOf(f, here) \in Int
  BY <1>1, PartOfSum
<1>4. \A A, B \in SUBSET D : A \cap B = {} => PartOf(f, A \cup B) = PartOf(f, A) + PartOf(f, B)
  BY <1>1, SumOfParts
<1>5. ASSUME NEW A \in SUBSET D, NEW B \in SUBSET D, A \cap B = {}
      PROVE  Injected(line, A \cup B) = Injected(line, A) + Injected(line, B)
  <2>1. A \cup B \in SUBSET D
    OBVIOUS
  <2> QED
    BY <1>2, <1>4, <1>5, <2>1
<1>6. Injected(line, {}) = 0
  <2>1. {} \in SUBSET D
    OBVIOUS
  <2> QED
    BY <1>2, <1>3, <2>1
<1> QED
  BY <1>2, <1>3, <1>5, <1>6

\* What is read at a chainage of the line.
LEMMA HereType ==
    ASSUME NEW line \in LineType, IsChain(line), NEW c \in Int, OnLine(line, c)
    PROVE  /\ FittingK(line, c) \in Int /\ InjectionAt(line, c) \in Int /\ Elevation(line, c) \in Int
           /\ Governing(line, c) \in SegmentType
           /\ Governing(line, c).speed \in Nat /\ Governing(line, c).drag \in Nat
           /\ StationAt(line, c) = None \/ StationAt(line, c) \in LineStationType
<1>1. FittingK(line, c) \in Int
  BY FittingKNatural
<1>2. InjectionAt(line, c) \in Int
  <2>1. {i \in ActiveInjections(line) : AtPoint(line.injections[i], c)} \in SUBSET (DOMAIN line.injections)
    BY DEF ActiveInjections
  <2> QED
    BY <2>1, InjectedParts DEF InjectionAt
<1>3. Elevation(line, c) \in Int
  BY LineParts, TableValue DEF Elevation
<1>4. Governing(line, c) \in SegmentType
  BY SegmentGoverns, LineParts
<1>5. Governing(line, c).speed \in Nat /\ Governing(line, c).drag \in Nat
  BY <1>4 DEF SegmentType
<1>6. ASSUME StationAt(line, c) # None PROVE StationAt(line, c) \in LineStationType
  <2> DEFINE near == {i \in DOMAIN line.stations : Near(line.stations[i], c)}
  <2>1. near # {} /\ StationAt(line, c) = line.stations[Min(near)]
    BY <1>6 DEF StationAt
  <2>2. DOMAIN line.stations = 1..Len(line.stations) /\ Len(line.stations) \in Nat
        /\ \A i \in 1..Len(line.stations) : line.stations[i] \in LineStationType
    BY LineParts
  <2>3. IsFiniteSet(near)
    <3>1. IsFiniteSet(DOMAIN line.stations) /\ near \subseteq DOMAIN line.stations
      BY <2>2, FS_Interval
    <3> HIDE DEF near
    <3> QED
      BY <3>1, FS_Subset
  <2>4. Min(near) \in near
    <3>1. near \subseteq Int
      BY <2>2
    <3> HIDE DEF near
    <3> QED
      BY <2>1, <2>3, <3>1, MinOf
  <2> QED
    BY <2>1, <2>2, <2>4
<1> QED
  BY <1>1, <1>2, <1>3, <1>4, <1>5, <1>6

\* The march is the sequence of its passes.
LEMMA MarchUnfolds ==
    ASSUME NEW line, NEW input, NEW grid, Len(grid) \in Nat, NEW flow, NEW pressure
    PROVE  \E m : /\ m[0] = Entering(line, grid, flow, pressure)
                  /\ \A i \in 1..Len(grid) : m[i] = Pass(line, input, grid, m[i - 1], i)
                  /\ MarchAlong(line, input, grid, flow, pressure) = m[Len(grid)]
<1> DEFINE n == Len(grid)
           Next(g, i) == IF i = 0 THEN Entering(line, grid, flow, pressure) ELSE Pass(line, input, grid, g[i - 1], i)
           IsMarch(g) == g = [i \in 0..n |-> Next(g, i)]
           March0 == CHOOSE g : IsMarch(g)
           Until(g, k) == g = [i \in 0..n |-> g[i]] /\ \A i \in 0..k : g[i] = Next(g, i)
           Reached == {k \in 0..n : \E g : Until(g, k)}
<1>0. n \in Nat
  OBVIOUS
<1>1. MarchAlong(line, input, grid, flow, pressure) = March0[n]
  BY DEF MarchAlong
<1> HIDE DEF n
<1>2. 0 \in Reached
  <2> DEFINE g == [i \in 0..n |-> Entering(line, grid, flow, pressure)]
  <2>1. Until(g, 0)
    BY <1>0
  <2> HIDE DEF g, Until
  <2> QED
    BY <1>0, <2>1
<1>3. ASSUME NEW k \in 0..(n - 1), k \in Reached PROVE k + 1 \in Reached
  <2>1. PICK g : Until(g, k)
    BY <1>3
  <2> DEFINE h == [i \in 0..n |-> IF i <= k THEN g[i] ELSE Next(g, i)]
  <2>2. k \in Nat /\ k + 1 \in 0..n
    BY <1>0
  <2>3. ASSUME NEW i \in 0..(k + 1) PROVE h[i] = Next(h, i)
    <3>1. i \in 0..n /\ (i # 0 => i - 1 \in 0..k /\ i - 1 \in 0..n)
      BY <1>0, <2>2
    <3>2. h[i] = Next(g, i)
      <4>1. i <= k => g[i] = Next(g, i)
        <5> HIDE DEF Next
        <5> QED
          BY <2>1, <2>2
      <4>2. h[i] = IF i <= k THEN g[i] ELSE Next(g, i)
        <5> HIDE DEF Next
        <5> QED
          BY <3>1
      <4> HIDE DEF h, Next
      <4> QED
        BY <4>1, <4>2
    <3>3. i # 0 => h[i - 1] = g[i - 1]
      <4> HIDE DEF Next
      <4> QED
        BY <2>2, <3>1
    <3> HIDE DEF h
    <3> QED
      BY <3>2, <3>3
  <2>4. Until(h, k + 1)
    <3>1. h = [i \in 0..n |-> h[i]]
      <4> HIDE DEF Next
      <4> QED
        OBVIOUS
    <3> HIDE DEF h, Next
    <3> QED
      BY <2>3, <3>1
  <2> HIDE DEF Until, h
  <2> QED
    BY <2>2, <2>4
<1>4. n \in Reached
  <2> HIDE DEF Reached
  <2> QED
    BY <1>0, <1>2, <1>3, UpTo
<1>5. PICK g : Until(g, n)
  BY <1>4
<1>6. IsMarch(g)
  <2> HIDE DEF Next
  <2> QED
    BY <1>5
<1>7. IsMarch(March0)
  <2> HIDE DEF IsMarch
  <2> QED
    BY <1>6
<1>8. \A i \in 0..n : March0[i] = Next(March0, i)
  <2> HIDE DEF Next, March0
  <2> QED
    BY <1>7
<1> HIDE DEF March0
<1>9. March0[0] = Entering(line, grid, flow, pressure)
      /\ \A i \in 1..n : March0[i] = Pass(line, input, grid, March0[i - 1], i)
  BY <1>0, <1>8
<1> QED
  BY <1>1, <1>9 DEF n

PointType ==
    [at : Int, elevation : Int, pressure : Int, grade : Int, flow : Int, velocity : Int, below : BOOLEAN]

Enters(m) == m.head \in Int /\ m.flow \in Int /\ m.points \in Seq(PointType)

PointAdded(line, input, c, m, after) ==
    /\ after.head \in Int /\ after.flow = m.flow + InjectionAt(line, c) /\ after.flow \in Int
    /\ \E p \in PointType : /\ after.points = Append(m.points, p) /\ p.at = c /\ p.flow = after.flow
                            /\ p.below <=> p.pressure <= input.state.vapour

\* What one pass adds: a point, at the grid's chainage and at the flow injected so far.
LEMMA PassAddsPoint ==
    ASSUME NEW line \in LineType, IsChain(line), NEW input, input.state.vapour \in Int,
           NEW grid \in Seq(Int), NEW i \in 1..Len(grid), OnLine(line, grid[i]),
           NEW m, Enters(m), NEW after, after = Pass(line, input, grid, m, i)
    PROVE  PointAdded(line, input, grid[i], m, after)
<1> USE DEF Enters
<1> DEFINE c == grid[i]
           segment == Governing(line, c)
           length == IF i = Len(grid) THEN 0 ELSE grid[i + 1] - grid[i]
           flow == m.flow + InjectionAt(line, c)
           velocity == flow * segment.speed
           elevation == Elevation(line, c)
           vapour == input.state.vapour
           suction == m.head - Drop(FittingK(line, c), velocity)
           station == StationAt(line, c)
           gain == IF station = None THEN 0 ELSE StationHead(station, flow) - BypassLoss(station, velocity)
           pumped == suction + gain
           clamps == input.scenario.gravity /\ pumped < elevation + vapour
           head == IF clamps THEN elevation + vapour ELSE pumped
           p == Point(c, elevation, head, flow, velocity, vapour)
<1>1. after = Through(line, input, m, c, length, segment, elevation, flow, velocity)
  BY DEF Pass
<1>2. /\ after.head = head - Drop(segment.drag, velocity) * length /\ after.flow = flow
      /\ after.points = Append(m.points, p)
  BY <1>1 DEF Through
<1>3. c \in Int /\ length \in Int
  BY DEF c
<1>4. /\ FittingK(line, c) \in Int /\ InjectionAt(line, c) \in Int /\ elevation \in Int
      /\ segment.speed \in Int /\ segment.drag \in Int
      /\ station = None \/ station \in LineStationType
  BY <1>3, HereType
<1>5. flow \in Int
  BY <1>4
<1>6. velocity \in Int
  <2> HIDE DEF flow, segment
  <2> QED
    BY <1>4, <1>5
<1>7. suction \in Int /\ vapour \in Int
  <2>1. Drop(FittingK(line, c), velocity) \in Int
    <3> HIDE DEF velocity, c
    <3> QED
      BY <1>4, <1>6, DropType
  <2> HIDE DEF velocity, c
  <2> QED
    BY <2>1
<1>8. gain \in Int
  <2>1. CASE station # None
    <3>1. station \in LineStationType
      BY <1>4, <2>1
    <3>2. station.groups \in Seq(Groups) /\ station.bypassK \in Int
      BY <3>1 DEF LineStationType
    <3> HIDE DEF station, flow, velocity
    <3>3. StationHead(station, flow) \in Int
      BY <1>5, <3>2, StationHeadType
    <3>4. BypassLoss(station, velocity) \in Int
      <4>1. Drop(station.bypassK, velocity) \in Int
        BY <1>6, <3>2, DropType
      <4> QED
        BY <4>1 DEF BypassLoss
    <3> QED
      BY <2>1, <3>3, <3>4
  <2> QED
    BY <2>1
<1>9. head \in Int
  <2> HIDE DEF suction, gain, elevation, vapour
  <2> QED
    BY <1>4, <1>7, <1>8
<1>10. Drop(segment.drag, velocity) * length \in Int
  <2>1. Drop(segment.drag, velocity) \in Int
    <3> HIDE DEF segment, velocity
    <3> QED
      BY <1>4, <1>6, DropType
  <2> HIDE DEF segment, velocity, length
  <2> QED
    BY <1>3, <2>1
<1> HIDE DEF c, segment, length, flow, velocity, elevation, vapour, head
<1>11. p \in PointType /\ p.at = c /\ p.flow = flow /\ (p.below <=> p.pressure <= vapour)
  <2> DEFINE below == head - elevation <= vapour
             pressure == head - elevation
  <2>1. below \in BOOLEAN /\ pressure \in Int
    BY <1>4, <1>9
  <2>2. p = [at |-> c, elevation |-> elevation, pressure |-> pressure, grade |-> head,
             flow |-> flow, velocity |-> velocity, below |-> below]
    BY Zenon DEF Point
  <2>3. below <=> pressure <= vapour
    OBVIOUS
  <2> HIDE DEF p, below, pressure
  <2>4. p \in PointType
    BY <1>3, <1>4, <1>5, <1>6, <1>9, <2>1, <2>2 DEF PointType
  <2>5. p.at = c /\ p.flow = flow /\ p.below = below /\ p.pressure = pressure
    BY <2>2
  <2> QED
    BY <2>3, <2>4, <2>5
<1> HIDE DEF p
<1>12. after.head \in Int
  <2>1. after.head = head - Drop(segment.drag, velocity) * length
    BY <1>2
  <2> DEFINE lost == Drop(segment.drag, velocity) * length
  <2> HIDE DEF lost
  <2> QED
    BY <1>9, <1>10, <2>1 DEF lost
<1> QED
  BY <1>2, <1>5, <1>11, <1>12 DEF c, flow, vapour, PointAdded

\* The points of a march: one for each chainage of the grid, with the flow that the injections
\* passed leave, when none of them is in reach of two points.
HasPoints(line, vapour, step, grid, flow, points) ==
    /\ grid \in Seq(Int) /\ Len(grid) > 0 /\ points \in Seq(PointType) /\ Len(points) = Len(grid)
    /\ \A i, j \in 1..Len(grid) : i < j => grid[i] < grid[j]
    /\ \A c \in Chainages(line, step) : \E i \in 1..Len(grid) : grid[i] = c
    /\ \A i \in 1..Len(grid) :
          LET p == points[i]
          IN  /\ p \in PointType /\ p.at = grid[i] /\ p.at \in Chainages(line, step)
              /\ p.below <=> p.pressure <= vapour
              /\ InjectionsApart(line, step) =>
                    p.flow = flow + Injected(line, {j \in ActiveInjections(line) : line.injections[j].at <= p.at})

\* The points of a march, one after the other.
LEMMA MarchPoints ==
    ASSUME NEW line \in LineType, IsChain(line), NEW input, input.state.vapour \in Int,
           NEW step \in Nat \ {0}, NEW grid, grid = Grid(line, step), NEW flow \in Int, NEW pressure \in Int,
           \A i \in DOMAIN line.injections : OnLine(line, line.injections[i].at),
           NEW march, march = MarchAlong(line, input, grid, flow, pressure)
    PROVE  HasPoints(line, input.state.vapour, step, grid, flow, march.points)
<1> DEFINE all == Chainages(line, step)
           n == Len(grid)
           At(j) == line.injections[j].at
           Before(c) == {j \in ActiveInjections(line) : At(j) <= c}
<1>1. /\ IsFiniteSet(all) /\ all \subseteq Int /\ LineStart(line) \in all
      /\ \A c \in all : OnLine(line, c)
      /\ \A i \in DOMAIN line.injections : At(i) \in all
  BY PointsOfLine
<1>2. /\ n \in Nat /\ grid \in Seq(Int) /\ n = Cardinality(all)
      /\ \A i \in 1..n : grid[i] \in all
      /\ \A c \in all : \E i \in 1..n : grid[i] = c
      /\ \A i, j \in 1..n : i < j => grid[i] < grid[j]
  <2>1. grid = GridOf(all)
    BY Zenon DEF Grid, GridOf
  <2>2. IsFiniteSet(all) /\ all \subseteq Int
    BY <1>1
  <2> HIDE DEF all
  <2>3. InOrder(grid, all)
    BY ONLY <2>1, <2>2, GridInOrder, Zenon
  <2> QED
    BY <2>3 DEF InOrder
<1>3. n > 0
  BY <1>1, <1>2
<1> HIDE DEF all
<1>4. PICK m : /\ m[0] = Entering(line, grid, flow, pressure)
               /\ \A i \in 1..n : m[i] = Pass(line, input, grid, m[i - 1], i)
               /\ march = m[n]
  BY <1>2, MarchUnfolds
<1>5. /\ \A here \in SUBSET (DOMAIN line.injections) : Injected(line, here) \in Int
      /\ Injected(line, {}) = 0
      /\ \A A, B \in SUBSET (DOMAIN line.injections) :
            A \cap B = {} => Injected(line, A \cup B) = Injected(line, A) + Injected(line, B)
  BY InjectedParts
<1>6. \A c : Before(c) \in SUBSET (DOMAIN line.injections)
  BY DEF ActiveInjections
<1> DEFINE Passed(k) == IF k = 0 THEN {} ELSE Before(grid[k])
           apart == InjectionsApart(line, step)
           Good(k) ==
             /\ m[k].head \in Int /\ m[k].points \in Seq(PointType) /\ Len(m[k].points) = k
             /\ m[k].flow \in Int /\ (apart => m[k].flow = flow + Injected(line, Passed(k)))
             /\ \A i \in 1..k : /\ m[k].points[i].at = grid[i]
                                /\ m[k].points[i].below <=> m[k].points[i].pressure <= input.state.vapour
                                /\ apart => m[k].points[i].flow = flow + Injected(line, Before(grid[i]))
           S == {k \in 0..n : Good(k)}
<1>7. ASSUME NEW k \in 1..n, apart
      PROVE  Injected(line, Before(grid[k])) = Injected(line, Passed(k - 1)) + InjectionAt(line, grid[k])
  <2> DEFINE here == {j \in ActiveInjections(line) : At(j) = grid[k]}
  <2>1. Before(grid[k]) = Passed(k - 1) \cup here
    <3>1. ASSUME NEW j \in ActiveInjections(line), At(j) <= grid[k], At(j) # grid[k] PROVE j \in Passed(k - 1)
      <4>1. PICK i \in 1..n : grid[i] = At(j)
        BY <1>1, <1>2 DEF ActiveInjections
      <4>2. grid[i] \in Int /\ grid[k] \in Int
        BY <1>1, <1>2
      <4>3. i < k
        BY <1>2, <3>1, <4>1, <4>2
      <4>4. i <= k - 1 /\ k - 1 \in 1..n
        BY <1>2, <4>3
      <4>5. At(j) <= grid[k - 1]
        <5>1. i = k - 1 \/ grid[i] < grid[k - 1]
          BY <1>2, <4>4
        <5>2. grid[k - 1] \in Int
          BY <1>1, <1>2, <4>4
        <5> QED
          BY <4>1, <4>2, <5>1, <5>2
      <4> QED
        BY <4>4, <4>5
    <3>2. ASSUME NEW j \in Passed(k - 1) PROVE j \in ActiveInjections(line) /\ At(j) <= grid[k]
      <4>1. k - 1 \in 1..n /\ k - 1 # 0 /\ k - 1 < k
        BY <1>2
      <4>2. j \in ActiveInjections(line) /\ At(j) <= grid[k - 1]
        BY <4>1
      <4>3. At(j) \in Int
        BY <1>1, <4>2 DEF ActiveInjections
      <4>4. grid[k - 1] < grid[k] /\ grid[k - 1] \in Int /\ grid[k] \in Int
        BY <1>1, <1>2, <4>1
      <4> QED
        BY <4>2, <4>3, <4>4
    <3>3. grid[k] \in Int /\ \A j \in ActiveInjections(line) : At(j) \in Int
      BY <1>1, <1>2 DEF ActiveInjections
    <3>4. \A j \in ActiveInjections(line) : At(j) = grid[k] => At(j) <= grid[k]
      BY <3>3
    <3> HIDE DEF Passed, At
    <3> QED
      BY <3>1, <3>2, <3>4
  <2>2. Passed(k - 1) \cap here = {}
    <3> SUFFICES ASSUME NEW j \in Passed(k - 1), At(j) = grid[k] PROVE FALSE
      OBVIOUS
    <3>1. k - 1 \in 1..n /\ k - 1 # 0 /\ k - 1 < k
      BY <1>2
    <3>2. At(j) <= grid[k - 1]
      BY <3>1
    <3>3. grid[k - 1] < grid[k] /\ grid[k - 1] \in Int /\ grid[k] \in Int
      BY <1>1, <1>2, <3>1
    <3> QED
      BY <3>2, <3>3
  <2>3. Passed(k - 1) \in SUBSET (DOMAIN line.injections) /\ here \in SUBSET (DOMAIN line.injections)
    BY <1>6 DEF ActiveInjections
  <2>4. InjectionAt(line, grid[k]) = Injected(line, here)
    <3>1. ASSUME NEW j \in ActiveInjections(line)
          PROVE  AtPoint(line.injections[j], grid[k]) <=> At(j) = grid[k]
      <4>1. grid[k] \in Chainages(line, step) /\ grid[k] \in Int
        BY <1>1, <1>2 DEF all
      <4>2. AtPoint(line.injections[j], grid[k]) => At(j) = grid[k]
        BY <1>7, <4>1 DEF InjectionsApart
      <4>3. ASSUME At(j) = grid[k] PROVE AtPoint(line.injections[j], grid[k])
        BY <4>1, <4>3, LineAssumption DEF AtPoint, Magnitude
      <4> QED
        BY <4>2, <4>3
    <3>2. {j \in ActiveInjections(line) : AtPoint(line.injections[j], grid[k])} = here
      BY <3>1
    <3> QED
      BY <3>2 DEF InjectionAt
  <2> HIDE DEF Before, Passed, here
  <2> QED
    BY <1>5, <2>1, <2>2, <2>3, <2>4
<1>8. 0 \in S
  <2>1. m[0].head \in Int /\ m[0].flow = flow /\ m[0].points = <<>>
    <3>1. Elevation(line, grid[1]) \in Int
      BY <1>1, <1>2, <1>3, HereType
    <3> QED
      BY <1>4, <3>1 DEF Entering
  <2>2. Good(0)
    <3>1. Injected(line, Passed(0)) = 0
      BY <1>5
    <3> HIDE DEF Passed, Before
    <3> QED
      BY <2>1, <3>1
  <2> HIDE DEF Good
  <2> QED
    BY <1>2, <2>2
<1>9. ASSUME NEW k \in 0..(n - 1), k \in S PROVE k + 1 \in S
  <2>1. k + 1 \in 1..n /\ (k + 1) - 1 = k /\ k \in Nat
    BY <1>2
  <2>2. m[k + 1] = Pass(line, input, grid, m[k], k + 1)
    BY <1>4, <2>1
  <2>3. Good(k)
    BY <1>9
  <2>4. Passed(k) \in SUBSET (DOMAIN line.injections)
    BY <1>6
  <2>5. m[k].head \in Int /\ m[k].flow \in Int /\ m[k].points \in Seq(PointType)
    BY <2>3
  <2>6. OnLine(line, grid[k + 1])
    BY <1>1, <1>2, <2>1
  <2> DEFINE after == m[k + 1]
             before == m[k]
  <2>7. /\ after.head \in Int /\ after.flow = before.flow + InjectionAt(line, grid[k + 1]) /\ after.flow \in Int
        /\ \E p \in PointType : /\ after.points = Append(before.points, p) /\ p.at = grid[k + 1] /\ p.flow = after.flow
                                /\ p.below <=> p.pressure <= input.state.vapour
    <3> HIDE DEF after, before, Good
    <3>1. after = Pass(line, input, grid, before, k + 1) /\ Enters(before)
      BY <2>2, <2>5 DEF after, before, Enters
    <3>2. grid \in Seq(Int) /\ k + 1 \in 1..Len(grid) /\ OnLine(line, grid[k + 1])
      BY <1>2, <2>1, <2>6
    <3>3. line \in LineType /\ IsChain(line) /\ input.state.vapour \in Int
      OBVIOUS
    <3>4. PointAdded(line, input, grid[k + 1], before, after)
      BY ONLY <3>1, <3>2, <3>3, PassAddsPoint, Zenon
    <3> QED
      BY <3>4 DEF PointAdded
  <2>8. PICK p \in PointType : /\ after.points = Append(before.points, p) /\ p.at = grid[k + 1] /\ p.flow = after.flow
                               /\ p.below <=> p.pressure <= input.state.vapour
    BY <2>7
  <2>9. ASSUME apart PROVE after.flow = flow + Injected(line, Before(grid[k + 1]))
    <3>1. Injected(line, Before(grid[k + 1])) = Injected(line, Passed(k)) + InjectionAt(line, grid[k + 1])
      BY <1>7, <2>1, <2>9
    <3>2. before.flow = flow + Injected(line, Passed(k)) /\ Injected(line, Passed(k)) \in Int
      BY <1>5, <2>3, <2>4, <2>9
    <3>3. InjectionAt(line, grid[k + 1]) \in Int
      BY <1>1, <1>2, <2>1, <2>6, HereType
    <3> HIDE DEF Before, Passed, after, before, Good
    <3> QED
      BY <2>7, <3>1, <3>2, <3>3
  <2>10. Passed(k + 1) = Before(grid[k + 1])
    BY <2>1
  <2>11. before.points \in Seq(PointType) /\ Len(before.points) = k
    BY <2>3
  <2>12. \A i \in 1..k : /\ before.points[i].at = grid[i]
                         /\ before.points[i].below <=> before.points[i].pressure <= input.state.vapour
                         /\ apart => before.points[i].flow = flow + Injected(line, Before(grid[i]))
    BY <2>3
  <2> HIDE DEF after, before, Before, Passed
  <2>13. after.points \in Seq(PointType) /\ Len(after.points) = k + 1 /\ after.points[k + 1] = p
         /\ \A i \in 1..k : after.points[i] = before.points[i]
    BY <2>1, <2>8, <2>11
  <2>14. ASSUME NEW i \in 1..(k + 1)
         PROVE  /\ after.points[i].at = grid[i]
                /\ after.points[i].below <=> after.points[i].pressure <= input.state.vapour
                /\ apart => after.points[i].flow = flow + Injected(line, Before(grid[i]))
    <3>1. CASE i = k + 1
      BY <2>8, <2>9, <2>13, <3>1
    <3>2. CASE i \in 1..k
      BY <2>12, <2>13, <3>2
    <3> QED
      BY <2>1, <3>1, <3>2
  <2>15. Good(k + 1)
    BY <2>7, <2>9, <2>10, <2>13, <2>14 DEF after
  <2> HIDE DEF Good
  <2> QED
    BY <2>1, <2>15
<1>10. n \in S
  <2> HIDE DEF S
  <2> QED
    BY <1>2, <1>8, <1>9, UpTo
<1>11. Good(n)
  BY <1>10
<1>12. march.points \in Seq(PointType) /\ Len(march.points) = n
  BY <1>4, <1>11
<1>13. ASSUME NEW i \in 1..n
       PROVE  /\ march.points[i] \in PointType /\ march.points[i].at = grid[i]
              /\ march.points[i].at \in Chainages(line, step)
              /\ march.points[i].below <=> march.points[i].pressure <= input.state.vapour
              /\ apart => march.points[i].flow = flow + Injected(line, Before(march.points[i].at))
  <2>1. march.points[i] \in PointType
    BY <1>12
  <2>2. /\ march.points[i].at = grid[i]
        /\ march.points[i].below <=> march.points[i].pressure <= input.state.vapour
        /\ apart => march.points[i].flow = flow + Injected(line, Before(grid[i]))
    BY <1>4, <1>11
  <2> HIDE DEF Before
  <2> QED
    BY <1>2, <2>1, <2>2 DEF all
<1> QED
  BY <1>2, <1>3, <1>12, <1>13 DEF all, HasPoints

(***************************************************************************)
(* What a result is made of.                                               *)
(***************************************************************************)
\* A fluid that is read has a vapour pressure.
LEMMA VapourType ==
    ASSUME NEW sheet, IsSheet(sheet), NEW temperature \in Maybe(Int), FluidState(sheet, temperature) # Refused
    PROVE  FluidState(sheet, temperature).vapour \in Int
<1> DEFINE t == IF temperature = None THEN sheet.reference ELSE temperature
           values == [p \in Properties |-> Provided(sheet, p, t)]
<1>1. FluidState(sheet, temperature) = StateOf(values)
  BY DEF FluidState
<1>2. t \in Int
  BY DEF IsSheet, Maybe
<1> HIDE DEF t
<1>3. values["vapour"].value \in Int
  <2>1. "vapour" \in Properties /\ values["vapour"] = Provided(sheet, "vapour", t)
    BY DEF Properties
  <2>2. CASE sheet.tables["vapour"] # None
    <3>1. sheet.tables["vapour"] \in Curves
      BY <2>1, <2>2 DEF IsSheet, Maybe
    <3>2. Evaluate(sheet.tables["vapour"], t) \in Int
      BY <1>2, <3>1, TableValue
    <3> QED
      BY <2>1, <2>2, <3>2 DEF Provided, HasOwn, OwnValue, ReadTable, Value
  <2>3. CASE sheet.tables["vapour"] = None
    <3>1. sheet.constants["vapour"] \in Maybe(Int) /\ (sheet.coolprop # None => sheet.coolprop["vapour"] \in Int)
      BY <2>1 DEF IsSheet
    <3> QED
      BY <2>1, <2>3, <3>1 DEF Provided, HasOwn, OwnValue, Value, Missing, Maybe
  <2> QED
    BY <2>2, <2>3
<1> HIDE DEF values
<1> QED
  BY <1>1, <1>3 DEF StateOf

\* Everything a result is made of, in the terms of the lemmas above.
ResultParts(input, result, line, grid) ==
    /\ line \in LineType /\ IsChain(line) /\ line = Resolved(input)
    /\ input.scenario.step \in Nat \ {0} /\ input.state.vapour \in Int /\ grid = Grid(line, input.scenario.step)
    /\ result.flow \in Int /\ result.inlet \in Int
    /\ \A i \in DOMAIN line.injections : OnLine(line, line.injections[i].at)
    /\ result.march = MarchAlong(line, input, grid, result.flow, result.inlet)
    /\ result.losses = LossesOf(line, result.march.points)
    /\ input.scenario.gravity \in BOOLEAN
    /\ \E residual : result.outcome =
          AllChecks(input, line, result.march, PumpReports(result.march, input.state.vapour), result.flow, residual)
    /\ result.zones = IF input.scenario.detectZones THEN GravityZones(result.march.points) ELSE {}
    /\ ~IsDirect(input) =>
          Magnitude(Outlet(result.march).pressure - OutletPressure(line, input.scenario)) <= input.scenario.tolerance

\* A result comes from its own march.
LEMMA ResultIsMade ==
    ASSUME LineInv, HasResults
    PROVE  \E line, grid : ResultParts(study, simulated, line, grid)
<1> DEFINE line == Resolved(study)
           flow == simulated.flow
           inlet == simulated.inlet
           grid == Grid(line, study.scenario.step)
           residual == Residual(study, flow, inlet)
           r == Built(study, flow, inlet, residual)
<1>1. IsResultOf(study, simulated) /\ study # None
  BY DEF LineInv, HasResults, Failures, Failed
<1>2. PICK s \in Studies : study = Frozen(s)
  BY <1>1 DEF LineInv
<1>3. /\ study.line \in LineType /\ IsScenario(study.scenario) /\ IsSheet(study.fluid)
      /\ study.state = FluidState(study.fluid, study.scenario.temperature)
  BY <1>2, FrozenParts, LineAssumption DEF IsStudy
<1>4. TopologyIsValid(study.line) /\ study.state # Refused /\ flow \in Int /\ inlet \in Int
  BY <1>1 DEF IsResultOf, IsValid
<1>5. IsChain(study.line) /\ \A i \in DOMAIN study.line.injections : OnLine(study.line, study.line.injections[i].at)
  BY <1>4 DEF TopologyIsValid, IsChain
<1>6. /\ line \in LineType /\ IsChain(line)
      /\ LineStart(line) = LineStart(study.line) /\ LineEnd(line) = LineEnd(study.line)
      /\ line.profile = study.line.profile /\ line.injections = study.line.injections
      /\ line.destinationTank = study.line.destinationTank
  BY <1>3, <1>5, ResolvedLine
<1>7. /\ study.scenario.step \in Nat \ {0} /\ study.scenario.temperature \in Maybe(Int)
      /\ study.scenario.gravity \in BOOLEAN
  BY <1>3 DEF IsScenario
<1>8. study.state.vapour \in Int
  BY <1>3, <1>4, <1>7, VapourType
<1>9. \A i \in DOMAIN line.injections : OnLine(line, line.injections[i].at)
  BY <1>5, <1>6 DEF OnLine
<1>10. simulated = r /\ (~IsDirect(study) => Magnitude(residual) <= study.scenario.tolerance)
  BY <1>1 DEF IsResultOf
<1>11. March(study, flow, inlet) = MarchAlong(line, study, grid, flow, inlet)
  BY DEF March, MarchOf
<1>12. ~IsDirect(study) => residual = Outlet(March(study, flow, inlet)).pressure - OutletPressure(study.line, study.scenario)
  BY DEF Residual, OutletGap
<1>13. OutletPressure(study.line, study.scenario) = OutletPressure(line, study.scenario)
  BY <1>6 DEF OutletPressure, Elevation
<1> HIDE DEF line, flow, inlet, grid, residual
<1>14. /\ r.march = March(study, flow, inlet) /\ r.flow = flow /\ r.inlet = inlet
       /\ r.outcome = AllChecks(study, line, March(study, flow, inlet),
                                PumpReports(March(study, flow, inlet), study.state.vapour), flow, residual)
       /\ r.zones = IF study.scenario.detectZones THEN GravityZones(March(study, flow, inlet).points) ELSE {}
  BY BuiltFields DEF line
<1>20. r.losses = LossesOf(line, March(study, flow, inlet).points)
  BY BuiltLosses DEF line
<1> HIDE DEF r
<1>15. \E x : simulated.outcome =
          AllChecks(study, line, simulated.march, PumpReports(simulated.march, study.state.vapour), simulated.flow, x)
  BY <1>10, <1>14
<1>16. simulated.march = MarchAlong(line, study, grid, simulated.flow, simulated.inlet)
  BY <1>10, <1>11, <1>14
<1>17. simulated.zones = IF study.scenario.detectZones THEN GravityZones(simulated.march.points) ELSE {}
  BY <1>10, <1>14
<1>18. ~IsDirect(study) =>
         Magnitude(Outlet(simulated.march).pressure - OutletPressure(line, study.scenario)) <= study.scenario.tolerance
  BY <1>10, <1>12, <1>13, <1>14
<1>19. simulated.flow \in Int /\ simulated.inlet \in Int
  BY <1>4 DEF flow, inlet
<1>21. simulated.losses = LossesOf(line, simulated.march.points)
  BY ONLY <1>10, <1>14, <1>20, Zenon
<1>22. ResultParts(study, simulated, line, grid)
  BY <1>6, <1>7, <1>8, <1>9, <1>15, <1>16, <1>17, <1>18, <1>19, <1>21 DEF ResultParts, line, grid
<1> QED
  BY <1>22

\* So do its points.
LEMMA ResultPoints ==
    ASSUME NEW input, NEW result, NEW line, NEW grid, ResultParts(input, result, line, grid)
    PROVE  HasPoints(line, input.state.vapour, input.scenario.step, grid, result.flow, result.march.points)
<1>1. /\ line \in LineType /\ IsChain(line) /\ input.state.vapour \in Int
      /\ input.scenario.step \in Nat \ {0} /\ grid = Grid(line, input.scenario.step)
      /\ result.flow \in Int /\ result.inlet \in Int
      /\ \A i \in DOMAIN line.injections : OnLine(line, line.injections[i].at)
      /\ result.march = MarchAlong(line, input, grid, result.flow, result.inlet)
  BY DEF ResultParts
<1> QED
  BY ONLY <1>1, MarchPoints, Zenon

(***************************************************************************)
(* What a result reports.                                                  *)
(***************************************************************************)
\* Nothing is found against the mass balance of a march.
LEMMA BalanceHolds ==
    ASSUME NEW flow \in Int, NEW net \in Int, NEW outlet, outlet = flow + net
    PROVE  CheckMassBalance(flow, outlet, net, 0).violations = {}
<1> DEFINE gap == Magnitude(outlet - (flow + net))
           S == {Magnitude(flow), Magnitude(outlet), 1}
           reference == Max(S)
           found == If(gap > 0 * reference, <<"C-001", "mass balance">>)
<1>1. CheckMassBalance(flow, outlet, net, 0).violations = found
  <2>1. CheckMassBalance(flow, outlet, net, 0) = Outcome({"C-001"}, {}, found, {})
    BY Zenon DEF CheckMassBalance
  <2> HIDE DEF found
  <2> QED
    BY <2>1 DEF Outcome
<1>2. gap = 0
  <2>1. outlet - (flow + net) = 0
    OBVIOUS
  <2> QED
    BY <2>1 DEF Magnitude
<1>3. reference \in Int
  <2>1. S \subseteq Int /\ S # {}
    BY DEF Magnitude
  <2>2. IsFiniteSet(S)
    <3>1. \A x : IsFiniteSet({x})
      BY FS_Singleton
    <3>2. IsFiniteSet({Magnitude(flow)} \cup {Magnitude(outlet)})
      BY <3>1, FS_Union
    <3>3. IsFiniteSet(({Magnitude(flow)} \cup {Magnitude(outlet)}) \cup {1})
      BY <3>1, <3>2, FS_Union
    <3>4. S = ({Magnitude(flow)} \cup {Magnitude(outlet)}) \cup {1}
      OBVIOUS
    <3> QED
      BY <3>3, <3>4
  <2> HIDE DEF S
  <2> QED
    BY <2>1, <2>2, MaxOf
<1> HIDE DEF gap, reference
<1>4. ~(gap > 0 * reference)
  BY <1>2, <1>3
<1> QED
  BY <1>1, <1>4 DEF If

\* Only the check of the mass balance finds a violation of C-001.
LEMMA OnlyBalanceFinds ==
    ASSUME NEW input, NEW line, NEW march, NEW pumps, NEW flow, NEW residual,
           NEW v \in AllChecks(input, line, march, pumps, flow, residual).violations, v[1] = "C-001"
    PROVE  v \in CheckMassBalance(flow, Outlet(march).flow, NetInjection(line), 0).violations
<1> DEFINE sc == input.scenario
           balance == CheckMassBalance(flow, Outlet(march).flow, NetInjection(line), 0)
           vapour == CheckVapour(march.points, input.state.vapour, sc.gravity, HasOwn(input.fluid, "vapour"))
           npsh == CheckNpsh(pumps)
           pressure == CheckMaximumPressure(march.points, line.segments)
           velocity == CheckVelocity(march.points, sc.minVelocity, sc.maxVelocity)
           domain == CheckCurveDomain(pumps)
           motor == CheckMotorPower(pumps)
           ends == CheckStationPressures({StationReport(march.passages[k]) : k \in DOMAIN march.passages})
           extrapolation == CheckExtrapolation(input.state.extrapolated)
           convergence == CheckConvergence(TRUE, residual, sc.tolerance)
           S == {balance, vapour, npsh, pressure, velocity, domain, motor, ends, extrapolation, convergence}
           all == AllChecks(input, line, march, pumps, flow, residual)
<1>1. all = Together(S)
  BY Zenon DEF AllChecks
<1>2. /\ Accounts(vapour, {"C-002"}) /\ Accounts(npsh, {"C-003"})
      /\ Accounts(pressure, {"C-004"}) /\ Accounts(velocity, {"C-005"}) /\ Accounts(domain, {"C-006"})
      /\ Accounts(motor, {"C-007"}) /\ Accounts(convergence, {"C-010", "C-012"}) /\ Accounts(extrapolation, {"C-011"})
  BY EachAccounts
<1>3. ends.executed \subseteq {"C-004"} /\ \A w \in ends.violations : w[1] \in ends.executed
  BY StationsAccount
<1> HIDE DEF balance, vapour, npsh, pressure, velocity, domain, motor, ends, extrapolation, convergence
<1>4. \A o \in S : o # balance => \A w \in o.violations : w[1] # "C-001"
  BY <1>2, <1>3 DEF Accounts
<1>5. v \in all.violations
  OBVIOUS
<1> HIDE DEF S, all
<1>6. PICK o \in S : v \in o.violations
  <2>1. \A x : x \in all.violations <=> \E o \in S : x \in o.violations
    BY <1>1, TogetherHas
  <2> QED
    BY <1>5, <2>1
<1> QED
  BY <1>4, <1>6 DEF balance

\* A balance against which nothing is found is exact.
LEMMA BalanceFound ==
    ASSUME NEW flow \in Int, NEW net \in Int, NEW outlet \in Int, CheckMassBalance(flow, outlet, net, 0).violations = {}
    PROVE  outlet = flow + net
<1> DEFINE gap == Magnitude(outlet - (flow + net))
           S == {Magnitude(flow), Magnitude(outlet), 1}
           reference == Max(S)
           found == If(gap > 0 * reference, <<"C-001", "mass balance">>)
<1>1. CheckMassBalance(flow, outlet, net, 0).violations = found
  <2>1. CheckMassBalance(flow, outlet, net, 0) = Outcome({"C-001"}, {}, found, {})
    BY Zenon DEF CheckMassBalance
  <2> HIDE DEF found
  <2> QED
    BY <2>1 DEF Outcome
<1>2. reference \in Int
  <2>1. S \subseteq Int /\ S # {}
    BY DEF Magnitude
  <2>2. IsFiniteSet(S)
    <3>1. \A x : IsFiniteSet({x})
      BY FS_Singleton
    <3>2. IsFiniteSet({Magnitude(flow)} \cup {Magnitude(outlet)})
      BY <3>1, FS_Union
    <3>3. IsFiniteSet(({Magnitude(flow)} \cup {Magnitude(outlet)}) \cup {1})
      BY <3>1, <3>2, FS_Union
    <3>4. S = ({Magnitude(flow)} \cup {Magnitude(outlet)}) \cup {1}
      OBVIOUS
    <3> QED
      BY <3>3, <3>4
  <2> HIDE DEF S
  <2> QED
    BY <2>1, <2>2, MaxOf
<1>3. ~(gap > 0 * reference)
  <2> HIDE DEF gap, reference
  <2> QED
    BY <1>1 DEF If
<1>4. gap <= 0
  <2>1. gap \in Int
    BY DEF Magnitude
  <2> HIDE DEF gap, reference
  <2> QED
    BY <1>2, <1>3, <2>1
<1> QED
  BY <1>4 DEF Magnitude

\* The checks find what the check of the mass balance finds.
LEMMA BalanceIsChecked ==
    ASSUME NEW input, NEW line, NEW march, NEW pumps, NEW flow, NEW residual
    PROVE  CheckMassBalance(flow, Outlet(march).flow, NetInjection(line), 0).violations
               \subseteq AllChecks(input, line, march, pumps, flow, residual).violations
<1> DEFINE sc == input.scenario
           balance == CheckMassBalance(flow, Outlet(march).flow, NetInjection(line), 0)
           S == {balance,
                 CheckVapour(march.points, input.state.vapour, sc.gravity, HasOwn(input.fluid, "vapour")),
                 CheckNpsh(pumps),
                 CheckMaximumPressure(march.points, line.segments),
                 CheckVelocity(march.points, sc.minVelocity, sc.maxVelocity),
                 CheckCurveDomain(pumps),
                 CheckMotorPower(pumps),
                 CheckStationPressures({StationReport(march.passages[k]) : k \in DOMAIN march.passages}),
                 CheckExtrapolation(input.state.extrapolated),
                 CheckConvergence(TRUE, residual, sc.tolerance)}
<1>1. AllChecks(input, line, march, pumps, flow, residual) = Together(S) /\ balance \in S
  BY Zenon DEF AllChecks
<1> HIDE DEF balance, S
<1>2. balance.violations \subseteq AllChecks(input, line, march, pumps, flow, residual).violations
  BY <1>1, TogetherHas
<1> QED
  BY <1>2 DEF balance

\* The outlet of an approvable result carries the inlet and every injection, once.
LEMMA ApprovableBalances ==
    ASSUME LineInv, IsApprovable
    PROVE  Outlet(simulated.march).flow = simulated.flow + NetInjection(Resolved(study))
<1>0. HasResults
  BY DEF IsApprovable
<1>1. PICK line, grid : ResultParts(study, simulated, line, grid)
  BY <1>0, ResultIsMade
<1> DEFINE march == simulated.march
           flow == simulated.flow
<1>2. HasPoints(line, study.state.vapour, study.scenario.step, grid, flow, march.points)
  BY <1>1, ResultPoints
<1>3. line \in LineType /\ line = Resolved(study) /\ flow \in Int
  BY <1>1 DEF ResultParts
<1>4. Outlet(march).flow \in Int
  <2>1. march.points \in Seq(PointType) /\ Len(march.points) > 0 /\ Len(march.points) \in Nat
    BY <1>2 DEF HasPoints
  <2>2. march.points[Len(march.points)] \in PointType
    BY <2>1
  <2> HIDE DEF march
  <2> QED
    BY <2>2 DEF Outlet, PointType
<1>5. NetInjection(line) \in Int
  <2>1. ActiveInjections(line) \in SUBSET (DOMAIN line.injections)
    BY DEF ActiveInjections
  <2> QED
    BY <1>3, <2>1, InjectedParts DEF NetInjection
<1>6. PICK residual :
        simulated.outcome = AllChecks(study, line, march, PumpReports(march, study.state.vapour), flow, residual)
  BY <1>1 DEF ResultParts
<1> HIDE DEF march, flow
<1>7. CheckMassBalance(flow, Outlet(march).flow, NetInjection(line), 0).violations = {}
  BY <1>6, BalanceIsChecked DEF IsApprovable
<1>8. Outlet(march).flow = flow + NetInjection(line)
  BY <1>3, <1>4, <1>5, <1>7, BalanceFound
<1> QED
  BY <1>3, <1>8 DEF march, flow

\* At every point the flow is that of the inlet and of the injections passed, when each of these
\* is in reach of one point.
LEMMA FlowsFollow ==
    ASSUME LineInv, HasResults, InjectionsApart(Resolved(study), study.scenario.step)
    PROVE  FlowsFollowInjections(Resolved(study))
<1>1. PICK line, grid : ResultParts(study, simulated, line, grid)
  BY ResultIsMade
<1> DEFINE march == simulated.march
           points == march.points
           flow == simulated.flow
           n == Len(grid)
           At(j) == line.injections[j].at
           Before(c) == {j \in ActiveInjections(line) : At(j) <= c}
<1>2. HasPoints(line, study.state.vapour, study.scenario.step, grid, flow, points)
  BY <1>1, ResultPoints
<1>3. /\ line \in LineType /\ IsChain(line) /\ line = Resolved(study) /\ flow \in Int
      /\ study.scenario.step \in Nat \ {0}
      /\ \A i \in DOMAIN line.injections : OnLine(line, At(i))
  BY <1>1 DEF ResultParts
<1>4. /\ points \in Seq(PointType) /\ Len(points) = n /\ n > 0 /\ n \in Nat /\ DOMAIN points = 1..n
      /\ \A i, j \in 1..n : i < j => grid[i] < grid[j]
      /\ \A c \in Chainages(line, study.scenario.step) : \E i \in 1..n : grid[i] = c
  BY <1>2 DEF HasPoints
<1>5. \A i \in 1..n : points[i].flow = flow + Injected(line, Before(points[i].at)) /\ points[i].at = grid[i]
  BY <1>2, <1>3 DEF HasPoints
<1>6. Before(grid[n]) = ActiveInjections(line)
  <2>1. LineEnd(line) \in Chainages(line, study.scenario.step) /\ LineEnd(line) \in Int
    BY <1>3, PointsOfLine
  <2>2. PICK i \in 1..n : grid[i] = LineEnd(line)
    BY <1>4, <2>1
  <2>3. grid[n] \in Int /\ grid[i] \in Int
    <3>1. grid \in Seq(Int)
      BY <1>2 DEF HasPoints
    <3> QED
      BY <1>4, <3>1
  <2>4. LineEnd(line) <= grid[n]
    <3>1. i = n \/ grid[i] < grid[n]
      BY <1>4
    <3> QED
      BY <2>2, <2>3, <3>1
  <2>5. ASSUME NEW j \in ActiveInjections(line) PROVE At(j) <= grid[n]
    <3>1. j \in 1..Len(line.injections) /\ OnLine(line, At(j)) /\ At(j) \in Int
      BY <1>3, LineParts DEF ActiveInjections
    <3>2. At(j) <= LineEnd(line)
      BY <3>1 DEF OnLine
    <3> QED
      BY <2>1, <2>3, <2>4, <3>1, <3>2
  <2> QED
    BY <2>5
<1>7. Outlet(march).flow = flow + NetInjection(line)
  <2>1. n \in 1..n
    BY <1>4
  <2>2. Outlet(march) = points[n]
    BY <1>4 DEF Outlet
  <2> HIDE DEF points, march, Before, flow, n
  <2> QED
    BY <1>5, <1>6, <2>1, <2>2 DEF NetInjection
<1>8. <<"C-001", "mass balance">> \notin simulated.outcome.violations
  <2>1. PICK residual :
          simulated.outcome = AllChecks(study, line, march, PumpReports(march, study.state.vapour), flow, residual)
    BY <1>1 DEF ResultParts
  <2>2. NetInjection(line) \in Int
    <3>1. ActiveInjections(line) \in SUBSET (DOMAIN line.injections)
      BY DEF ActiveInjections
    <3> QED
      BY <1>3, <3>1, InjectedParts DEF NetInjection
  <2>3. CheckMassBalance(flow, Outlet(march).flow, NetInjection(line), 0).violations = {}
    <3> HIDE DEF march, flow
    <3> QED
      BY <1>3, <1>7, <2>2, BalanceHolds
  <2> DEFINE v == <<"C-001", "mass balance">>
  <2>4. v[1] = "C-001"
    BY Zenon
  <2> HIDE DEF v, march, flow
  <2>5. v \notin simulated.outcome.violations
    BY <2>1, <2>3, <2>4, OnlyBalanceFinds
  <2> QED
    BY <2>5 DEF v
<1>9. \A i \in DOMAIN points :
        points[i].flow = flow + Injected(Resolved(study), {j \in ActiveInjections(Resolved(study)) : Resolved(study).injections[j].at <= points[i].at})
  <2> HIDE DEF points, n
  <2>1. \A i \in DOMAIN points :
          points[i].flow = flow + Injected(line, {j \in ActiveInjections(line) : line.injections[j].at <= points[i].at})
    BY <1>4, <1>5
  <2> QED
    BY ONLY <1>3, <2>1, Zenon
<1> QED
  BY ONLY <1>8, <1>9, Zenon DEF FlowsFollowInjections

\* Mass is conserved along the march, or the result is not approvable.
LEMMA FlowsConserved ==
    ASSUME LineInv
    PROVE  FlowsAreConserved
BY FlowsFollow, ApprovableBalances, Zenon DEF FlowsAreConserved

\* The run of depressurised points a point belongs to: there is one, and one only.
IsRun(points, a, b) ==
    /\ a \in DOMAIN points /\ b \in DOMAIN points /\ a <= b /\ \A k \in a..b : points[k].below
    /\ a = 1 \/ ~points[a - 1].below
    /\ b = Len(points) \/ ~points[b + 1].below

\* A point below lies in a run.
LEMMA RunFound ==
    ASSUME NEW points, NEW n \in Nat, DOMAIN points = 1..n, Len(points) = n, NEW i \in 1..n, points[i].below
    PROVE  \E a, b \in 1..n : a <= i /\ i <= b /\ IsRun(points, a, b)
<1> DEFINE Starts == {a \in 1..i : \A k \in a..i : points[k].below}
           Ends == {d \in 0..(n - i) : \A k \in i..(i + d) : points[k].below}
<1>1. PICK a \in Starts : \A x \in Starts : a <= x
  <2>1. Starts \in SUBSET Nat /\ i \in Starts
    OBVIOUS
  <2>2. Starts # {}
    BY <2>1
  <2> HIDE DEF Starts
  <2> QED
    BY <2>1, <2>2, LeastNatural
<1>2. a = 1 \/ ~points[a - 1].below
  <2> SUFFICES ASSUME a # 1, points[a - 1].below PROVE FALSE
    OBVIOUS
  <2>1. a - 1 \in 1..i /\ ~(a <= a - 1)
    OBVIOUS
  <2>2. \A k \in (a - 1)..i : k = a - 1 \/ k \in a..i
    OBVIOUS
  <2>3. a - 1 \in Starts
    BY <2>1, <2>2
  <2> QED
    BY <1>1, <2>1, <2>3
<1> DEFINE Over == {d \in 0..(n - i) : d = n - i \/ ~points[i + d + 1].below}
<1>3. PICK d \in Over : \A x \in Over : d <= x
  <2>1. Over \in SUBSET Nat /\ n - i \in Over
    OBVIOUS
  <2>2. Over # {}
    BY <2>1
  <2> HIDE DEF Over
  <2> QED
    BY <2>1, <2>2, LeastNatural
<1>4. ASSUME NEW k \in i..(i + d) PROVE points[k].below
  <2>1. CASE k = i
    BY <2>1
  <2>2. CASE k # i
    <3>1. k - i - 1 \in 0..(n - i) /\ k - i - 1 < d /\ i + (k - i - 1) + 1 = k /\ k - i - 1 # n - i
      BY <2>2
    <3> DEFINE e == k - i - 1
    <3>2. e \in 0..(n - i) /\ ~(d <= e) /\ e # n - i /\ i + e + 1 = k
      BY <1>3, <3>1
    <3>3. e \notin Over
      <4> HIDE DEF Over, e
      <4> QED
        BY <1>3, <3>2
    <3> HIDE DEF e
    <3> QED
      BY <3>2, <3>3
  <2> QED
    BY <2>1, <2>2
<1>5. i + d = n \/ ~points[i + d + 1].below
  BY <1>3
<1>6. \A k \in a..(i + d) : points[k].below
  <2>1. \A k \in a..(i + d) : k \in a..i \/ k \in i..(i + d)
    OBVIOUS
  <2> QED
    BY <1>1, <1>4, <2>1
<1>7. IsRun(points, a, i + d)
  BY <1>2, <1>5, <1>6 DEF IsRun
<1> QED
  BY <1>7

\* And in one only.
LEMMA RunsApart ==
    ASSUME NEW points, NEW n \in Nat, DOMAIN points = 1..n, Len(points) = n, NEW i \in 1..n,
           NEW a \in 1..n, NEW b \in 1..n, NEW c \in 1..n, NEW d \in 1..n,
           IsRun(points, a, b), IsRun(points, c, d), a <= i, i <= b, c <= i, i <= d
    PROVE  a = c /\ b = d
<1>1. ~(a < c)
  <2> SUFFICES ASSUME a < c PROVE FALSE
    OBVIOUS
  <2>1. c - 1 \in a..b /\ c # 1
    OBVIOUS
  <2> QED
    BY <2>1 DEF IsRun
<1>2. ~(c < a)
  <2> SUFFICES ASSUME c < a PROVE FALSE
    OBVIOUS
  <2>1. a - 1 \in c..d /\ a # 1
    OBVIOUS
  <2> QED
    BY <2>1 DEF IsRun
<1>3. ~(b < d)
  <2> SUFFICES ASSUME b < d PROVE FALSE
    OBVIOUS
  <2>1. b + 1 \in c..d /\ b # n
    OBVIOUS
  <2> QED
    BY <2>1 DEF IsRun
<1>4. ~(d < b)
  <2> SUFFICES ASSUME d < b PROVE FALSE
    OBVIOUS
  <2>1. d + 1 \in a..b /\ d # n
    OBVIOUS
  <2> QED
    BY <2>1 DEF IsRun
<1> QED
  BY <1>1, <1>2, <1>3, <1>4

\* The zones are the runs of the points below.
LEMMA ZonesCover ==
    ASSUME LineInv
    PROVE  ZonesCoverDepression
<1> SUFFICES ASSUME HasResults, study.scenario.detectZones PROVE ZonesCoverDepression
  BY DEF ZonesCoverDepression
<1>1. PICK line, grid : ResultParts(study, simulated, line, grid)
  BY ResultIsMade
<1> DEFINE points == simulated.march.points
           n == Len(grid)
           at(i) == points[i].at
           Zones == GravityZones(points)
<1>2. HasPoints(line, study.state.vapour, study.scenario.step, grid, simulated.flow, points)
  BY <1>1, ResultPoints
<1>3. /\ n \in Nat /\ DOMAIN points = 1..n /\ Len(points) = n
      /\ \A i \in 1..n : points[i].at = grid[i] /\ grid[i] \in Int
      /\ \A i, j \in 1..n : i < j => grid[i] < grid[j]
  <2>1. /\ grid \in Seq(Int) /\ points \in Seq(PointType) /\ Len(points) = n
        /\ \A i \in 1..n : points[i].at = grid[i]
        /\ \A i, j \in 1..n : i < j => grid[i] < grid[j]
    BY <1>2 DEF HasPoints
  <2> HIDE DEF points
  <2>2. n \in Nat /\ DOMAIN points = 1..n /\ \A i \in 1..n : grid[i] \in Int
    BY <2>1
  <2> QED
    BY <2>1, <2>2
<1>4. simulated.zones = Zones
  BY <1>1 DEF ResultParts
<1> HIDE DEF points, n
<1>5. \A i, j \in 1..n : at(i) <= at(j) <=> i <= j
  <2> SUFFICES ASSUME NEW i \in 1..n, NEW j \in 1..n PROVE at(i) <= at(j) <=> i <= j
    OBVIOUS
  <2>1. at(i) = grid[i] /\ at(j) = grid[j] /\ grid[i] \in Int /\ grid[j] \in Int
    BY <1>3
  <2>2. i < j => grid[i] < grid[j]
    BY <1>3
  <2>3. j < i => grid[j] < grid[i]
    BY <1>3
  <2>4. i = j => grid[i] = grid[j]
    OBVIOUS
  <2> HIDE DEF at
  <2> QED
    BY <1>3, <2>1, <2>2, <2>3, <2>4
<1>6. Zones = {<<at(run[1]), at(run[2])>> : run \in {p \in (1..n) \X (1..n) : IsRun(points, p[1], p[2])}}
  <2>1. \A p \in (1..n) \X (1..n) :
          IsRun(points, p[1], p[2]) <=>
            /\ p[1] <= p[2] /\ \A k \in p[1]..p[2] : points[k].below
            /\ p[1] = 1 \/ ~points[p[1] - 1].below
            /\ p[2] = Len(points) \/ ~points[p[2] + 1].below
    BY <1>3 DEF IsRun
  <2> QED
    BY <1>3, <2>1 DEF GravityZones
<1>7. \A z : z \in Zones <=> \E a, b \in 1..n : IsRun(points, a, b) /\ z = <<at(a), at(b)>>
  <2> DEFINE Runs == {p \in (1..n) \X (1..n) : IsRun(points, p[1], p[2])}
  <2>1. Zones = {<<at(run[1]), at(run[2])>> : run \in Runs}
    BY <1>6
  <2> HIDE DEF Zones, at
  <2>2. ASSUME NEW z \in Zones PROVE \E a, b \in 1..n : IsRun(points, a, b) /\ z = <<at(a), at(b)>>
    <3>1. PICK run \in Runs : z = <<at(run[1]), at(run[2])>>
      BY <2>1
    <3>2. run[1] \in 1..n /\ run[2] \in 1..n /\ IsRun(points, run[1], run[2])
      OBVIOUS
    <3> QED
      BY <3>1, <3>2
  <2>3. ASSUME NEW a \in 1..n, NEW b \in 1..n, IsRun(points, a, b) PROVE <<at(a), at(b)>> \in Zones
    <3> DEFINE run == <<a, b>>
    <3>1. run \in Runs /\ run[1] = a /\ run[2] = b
      BY <2>3
    <3> HIDE DEF run, Runs
    <3> QED
      BY <2>1, <3>1
  <2> QED
    BY <2>2, <2>3
<1> HIDE DEF Zones
<1>8. ASSUME NEW i \in 1..n
      PROVE  Cardinality({z \in Zones : z[1] <= at(i) /\ at(i) <= z[2]}) = IF points[i].below THEN 1 ELSE 0
  <2> DEFINE Here == {z \in Zones : z[1] <= at(i) /\ at(i) <= z[2]}
  <2>1. ASSUME NEW z \in Here
        PROVE  \E a, b \in 1..n : IsRun(points, a, b) /\ z = <<at(a), at(b)>> /\ a <= i /\ i <= b
    <3>1. PICK a \in 1..n, b \in 1..n : IsRun(points, a, b) /\ z = <<at(a), at(b)>>
      BY <1>7
    <3>2. z[1] = at(a) /\ z[2] = at(b)
      <4> HIDE DEF at
      <4> QED
        BY <3>1
    <3>3. at(a) <= at(i) /\ at(i) <= at(b)
      BY <3>2
    <3> HIDE DEF at
    <3> QED
      BY <1>5, <3>1, <3>3
  <2>2. CASE ~points[i].below
    <3>1. Here = {}
      <4> SUFFICES ASSUME NEW z \in Here PROVE FALSE
        OBVIOUS
      <4>1. PICK a \in 1..n, b \in 1..n : IsRun(points, a, b) /\ a <= i /\ i <= b
        BY <2>1
      <4>2. i \in a..b
        BY <4>1
      <4> QED
        BY <2>2, <4>1, <4>2 DEF IsRun
    <3> HIDE DEF Here
    <3>2. Cardinality(Here) = 0
      BY <3>1, FS_EmptySet
    <3> QED
      BY <2>2, <3>2 DEF Here
  <2>3. CASE points[i].below
    <3>1. PICK a \in 1..n, b \in 1..n : a <= i /\ i <= b /\ IsRun(points, a, b)
      BY <1>3, <2>3, RunFound
    <3> DEFINE zone == <<at(a), at(b)>>
    <3>2. zone \in Here
      <4>1. zone \in Zones
        BY <1>7, <3>1
      <4>2. at(a) <= at(i) /\ at(i) <= at(b)
        BY <1>5, <3>1
      <4>3. zone[1] = at(a) /\ zone[2] = at(b)
        <5> HIDE DEF at
        <5> QED
          OBVIOUS
      <4> HIDE DEF zone, at
      <4> QED
        BY <4>1, <4>2, <4>3 DEF at
    <3>3. ASSUME NEW z \in Here PROVE z = zone
      <4>1. PICK c \in 1..n, d \in 1..n : IsRun(points, c, d) /\ z = <<at(c), at(d)>> /\ c <= i /\ i <= d
        BY <2>1
      <4>2. a = c /\ b = d
        BY <1>3, <3>1, <4>1, RunsApart
      <4> QED
        BY <4>1, <4>2
    <3> HIDE DEF Here, zone
    <3>4. Here = {zone}
      BY <3>2, <3>3
    <3>5. Cardinality(Here) = 1
      BY <3>4, FS_Singleton
    <3> QED
      BY <2>3, <3>5 DEF Here
  <2> QED
    BY <2>2, <2>3
<1> QED
  BY <1>3, <1>4, <1>8, Zenon DEF ZonesCoverDepression, points

(***************************************************************************)
(* What is lost along the line.                                            *)
(***************************************************************************)
Passages == [station : LineStationType, flow : Int, suction : Int, discharge : Int, head : Int]

Gained(passages) == SumOver([k \in DOMAIN passages |-> passages[k].discharge - passages[k].suction])

\* The sum of a sequence that grows.
LEMMA SumAppended ==
    ASSUME NEW n \in Nat, NEW f \in [1..n -> Int], NEW g \in [1..(n + 1) -> Int], \A i \in 1..n : g[i] = f[i]
    PROVE  SumOver(f) \in Int /\ SumOver(g) = SumOver(f) + g[n + 1]
<1>1. IsFiniteSet(1..n) /\ IsFiniteSet(1..(n + 1))
  BY FS_Interval
<1>2. SumOver(f) \in Int
  BY <1>1, SumTerm
<1>3. SumOver(g) = g[n + 1] + SumOver(Rest(g, n + 1))
  <2>1. \A x \in 1..(n + 1) : SumOver(g) = g[x] + SumOver(Rest(g, x))
    BY <1>1, SumTerm
  <2>2. n + 1 \in 1..(n + 1)
    OBVIOUS
  <2> QED
    BY ONLY <2>1, <2>2, Zenon
<1>4. Rest(g, n + 1) = f
  <2>1. (1..(n + 1)) \ {n + 1} = 1..n
    OBVIOUS
  <2> QED
    BY <2>1 DEF Rest
<1>5. g[n + 1] \in Int
  <2>1. n + 1 \in 1..(n + 1)
    OBVIOUS
  <2> QED
    BY <2>1
<1> DEFINE last == g[n + 1]
           sum == SumOver(f)
<1>6. SumOver(g) = last + sum /\ last \in Int /\ sum \in Int
  BY <1>2, <1>3, <1>4, <1>5
<1> HIDE DEF last, sum
<1>7. SumOver(g) = sum + last
  BY <1>6
<1> QED
  BY <1>2, <1>7 DEF sum, last

\* A passage more adds its gain.
LEMMA GainAppended ==
    ASSUME NEW passages \in Seq(Passages)
    PROVE  /\ Gained(passages) \in Int
           /\ \A p \in Passages : /\ Append(passages, p) \in Seq(Passages)
                                  /\ Gained(Append(passages, p)) = Gained(passages) + (p.discharge - p.suction)
<1> DEFINE n == Len(passages)
           f == [k \in DOMAIN passages |-> passages[k].discharge - passages[k].suction]
<1>0. \A q \in Passages : q.discharge - q.suction \in Int
  BY DEF Passages
<1>1. n \in Nat /\ DOMAIN passages = 1..n /\ \A k \in 1..n : passages[k] \in Passages
  OBVIOUS
<1>2. f \in [1..n -> Int]
  BY <1>0, <1>1
<1>3. Gained(passages) = SumOver(f)
  BY DEF Gained
<1>4. SumOver(f) \in Int
  <2>1. IsFiniteSet(1..n)
    BY <1>1, FS_Interval
  <2> HIDE DEF f, n
  <2> QED
    BY <1>2, <2>1, SumTerm
<1>5. ASSUME NEW p \in Passages
      PROVE  /\ Append(passages, p) \in Seq(Passages)
             /\ Gained(Append(passages, p)) = Gained(passages) + (p.discharge - p.suction)
  <2> DEFINE after == Append(passages, p)
             g == [k \in DOMAIN after |-> after[k].discharge - after[k].suction]
  <2>1. /\ after \in Seq(Passages) /\ DOMAIN after = 1..(n + 1) /\ after[n + 1] = p
        /\ \A k \in 1..n : after[k] = passages[k]
    BY <1>1
  <2> HIDE DEF after
  <2>2. \A k \in 1..(n + 1) : after[k] \in Passages
    BY <1>1, <2>1
  <2>3. g \in [1..(n + 1) -> Int]
    BY <1>0, <2>1, <2>2
  <2>4. \A k \in 1..n : g[k] = f[k]
    <3>1. \A k \in 1..n : k \in 1..(n + 1)
      BY <1>1
    <3> HIDE DEF n
    <3> QED
      BY <1>1, <2>1, <3>1
  <2>5. g[n + 1] = p.discharge - p.suction
    <3>1. n + 1 \in 1..(n + 1)
      BY <1>1
    <3> HIDE DEF n
    <3> QED
      BY <2>1, <3>1
  <2>6. SumOver(g) = SumOver(f) + g[n + 1]
    <3> HIDE DEF f, g, n
    <3> QED
      BY <1>1, <1>2, <2>3, <2>4, SumAppended
  <2>7. Gained(after) = SumOver(g)
    BY DEF Gained
  <2> HIDE DEF f, g, n
  <2> QED
    BY <1>3, <2>1, <2>5, <2>6, <2>7 DEF after
<1> QED
  BY <1>3, <1>4, <1>5

\* What a pass takes: the fittings of its chainage and the interval that follows.
FittingLoss(line, c, flow) == Drop(FittingK(line, c), flow * Governing(line, c).speed)

IntervalLoss(line, grid, i, flow) ==
    Drop(Governing(line, grid[i]).drag, flow * Governing(line, grid[i]).speed)
    * (IF i = Len(grid) THEN 0 ELSE grid[i + 1] - grid[i])

Balances(line, grid, i, m, after) ==
    /\ after.passages \in Seq(Passages) /\ after.clamped \in BOOLEAN
    /\ Gained(m.passages) \in Int /\ Gained(after.passages) \in Int
    /\ FittingLoss(line, grid[i], after.flow) \in Int /\ IntervalLoss(line, grid, i, after.flow) \in Int
    /\ \E p \in PointType :
          /\ after.points = Append(m.points, p) /\ p.elevation = Elevation(line, grid[i])
          /\ ~after.clamped =>
                /\ ~m.clamped
                /\ p.grade = m.head - FittingLoss(line, grid[i], after.flow) + (Gained(after.passages) - Gained(m.passages))
                /\ after.head = p.grade - IntervalLoss(line, grid, i, after.flow)

\* One point of the march: the head after it is the head before, plus gains, minus losses.
LEMMA PassBalances ==
    ASSUME NEW line \in LineType, IsChain(line), NEW input, input.state.vapour \in Int, input.scenario.gravity \in BOOLEAN,
           NEW grid \in Seq(Int), NEW i \in 1..Len(grid), OnLine(line, grid[i]),
           NEW m, Enters(m), m.passages \in Seq(Passages), m.clamped \in BOOLEAN,
           NEW after, after = Pass(line, input, grid, m, i)
    PROVE  Balances(line, grid, i, m, after)
<1> USE DEF Enters
<1> DEFINE c == grid[i]
           segment == Governing(line, c)
           length == IF i = Len(grid) THEN 0 ELSE grid[i + 1] - grid[i]
           flow == m.flow + InjectionAt(line, c)
           velocity == flow * segment.speed
           elevation == Elevation(line, c)
           vapour == input.state.vapour
           minor == Drop(FittingK(line, c), velocity)
           suction == m.head - minor
           station == StationAt(line, c)
           gain == IF station = None THEN 0 ELSE StationHead(station, flow) - BypassLoss(station, velocity)
           pumped == suction + gain
           clamps == input.scenario.gravity /\ pumped < elevation + vapour
           head == IF clamps THEN elevation + vapour ELSE pumped
           p == Point(c, elevation, head, flow, velocity, vapour)
           passage == Passage(station, flow, suction - elevation, pumped - elevation)
           lost == Drop(segment.drag, velocity) * length
<1>1. after = Through(line, input, m, c, length, segment, elevation, flow, velocity)
  BY DEF Pass
<1> DEFINE clamped == m.clamped \/ clamps
           passages == m.passages \o (IF station = None THEN <<>> ELSE <<passage>>)
<1>2. /\ after.head = head - lost /\ after.flow = flow
      /\ after.points = Append(m.points, p)
      /\ after.clamped = clamped
      /\ after.passages = m.passages \o (IF station = None THEN <<>> ELSE <<passage>>)
  <2> DEFINE left == head - lost
             points == Append(m.points, p)
  <2>1. after = [head |-> left, flow |-> flow, clamped |-> clamped, points |-> points, passages |-> passages]
    BY <1>1, Zenon DEF Through
  <2> HIDE DEF left, points, clamped, passages, flow
  <2>2. after.head = left /\ after.flow = flow /\ after.points = points /\ after.clamped = clamped /\ after.passages = passages
    BY <2>1
  <2> QED
    BY <2>2 DEF left, points, passages
<1>3. c \in Int /\ length \in Int
  BY DEF c
<1>4. /\ FittingK(line, c) \in Int /\ InjectionAt(line, c) \in Int /\ elevation \in Int
      /\ segment.speed \in Int /\ segment.drag \in Int
      /\ station = None \/ station \in LineStationType
  <2>1. OnLine(line, c) /\ line \in LineType /\ IsChain(line)
    OBVIOUS
  <2> HIDE DEF c
  <2>2. /\ FittingK(line, c) \in Int /\ InjectionAt(line, c) \in Int /\ Elevation(line, c) \in Int
        /\ Governing(line, c).speed \in Nat /\ Governing(line, c).drag \in Nat
        /\ StationAt(line, c) = None \/ StationAt(line, c) \in LineStationType
    BY ONLY <1>3, <2>1, HereType, Zenon
  <2> QED
    BY <2>2
<1>5. flow \in Int
  BY <1>4
<1>6. velocity \in Int
  <2> HIDE DEF flow, segment
  <2> QED
    BY <1>4, <1>5
<1>7. minor \in Int /\ vapour \in Int /\ lost \in Int
  <2>1. minor \in Int /\ Drop(segment.drag, velocity) \in Int
    <3> HIDE DEF velocity, c, segment
    <3> QED
      BY <1>4, <1>6, DropType
  <2>2. lost \in Int
    <3> DEFINE per == Drop(segment.drag, velocity)
    <3>1. per \in Int /\ length \in Int
      BY <1>3, <2>1
    <3> HIDE DEF per, length
    <3> QED
      BY <3>1 DEF per
  <2> QED
    BY <2>1, <2>2
<1>8. gain \in Int /\ (station # None => StationHead(station, flow) \in Int)
  <2>1. CASE station # None
    <3>1. station \in LineStationType
      BY <1>4, <2>1
    <3>2. station.groups \in Seq(Groups) /\ station.bypassK \in Int
      BY <3>1 DEF LineStationType
    <3> HIDE DEF station, flow, velocity
    <3>3. StationHead(station, flow) \in Int
      BY <1>5, <3>2, StationHeadType
    <3>4. BypassLoss(station, velocity) \in Int
      <4>1. Drop(station.bypassK, velocity) \in Int
        BY <1>6, <3>2, DropType
      <4> QED
        BY <4>1 DEF BypassLoss
    <3> QED
      BY <2>1, <3>3, <3>4
  <2>2. CASE station = None
    BY <2>2
  <2> QED
    BY <2>1, <2>2
<1>9. FittingLoss(line, c, after.flow) = minor /\ IntervalLoss(line, grid, i, after.flow) = lost
  <2>1. FittingLoss(line, c, flow) = minor /\ IntervalLoss(line, grid, i, flow) = lost
    BY Zenon DEF FittingLoss, IntervalLoss
  <2> HIDE DEF flow, minor, lost, c
  <2> QED
    BY <1>2, <2>1
<1> HIDE DEF c, segment, length, flow, velocity, elevation, vapour, minor, lost, gain, station
<1>10. suction \in Int /\ pumped \in Int /\ clamps \in BOOLEAN /\ head \in Int /\ (~clamps => head = pumped)
  <2>1. suction \in Int
    BY <1>7
  <2> HIDE DEF suction
  <2>2. pumped \in Int
    BY <1>8, <2>1
  <2> HIDE DEF pumped
  <2>3. clamps \in BOOLEAN
    <3> DEFINE shallow == pumped < elevation + vapour
    <3>1. shallow \in BOOLEAN
      OBVIOUS
    <3> HIDE DEF shallow
    <3> QED
      BY <3>1
  <2> HIDE DEF clamps
  <2> QED
    BY <1>4, <1>7, <2>1, <2>2, <2>3
<1>11. station # None =>
          /\ passage \in Passages /\ passage.discharge = pumped - elevation /\ passage.suction = suction - elevation
  <2> SUFFICES ASSUME station # None
               PROVE  passage \in Passages /\ passage.discharge = pumped - elevation /\ passage.suction = suction - elevation
    OBVIOUS
  <2> DEFINE s == suction - elevation
             d == pumped - elevation
             h == StationHead(station, flow)
  <2>1. s \in Int /\ d \in Int /\ h \in Int
    <3> HIDE DEF suction, pumped
    <3> QED
      BY <1>4, <1>8, <1>10
  <2>2. passage = [station |-> station, flow |-> flow, suction |-> s, discharge |-> d, head |-> h]
    BY Zenon DEF Passage
  <2> HIDE DEF s, d, h, passage
  <2>3. passage \in Passages /\ passage.discharge = d /\ passage.suction = s
    BY <1>4, <1>5, <2>1, <2>2 DEF Passages
  <2> QED
    BY <2>3 DEF s, d
<1>12. /\ after.passages \in Seq(Passages) /\ Gained(after.passages) \in Int /\ Gained(m.passages) \in Int
       /\ Gained(after.passages) = Gained(m.passages) + gain
  <2>0. /\ Gained(m.passages) \in Int
        /\ \A q \in Passages : /\ Append(m.passages, q) \in Seq(Passages)
                               /\ Gained(Append(m.passages, q)) = Gained(m.passages) + (q.discharge - q.suction)
    BY GainAppended
  <2>1. CASE station = None
    <3>1. after.passages = m.passages
      BY <1>2, <2>1
    <3>2. gain = 0
      BY <2>1 DEF gain
    <3> QED
      BY <2>0, <3>1, <3>2
  <2>2. CASE station # None
    <3>1. passage \in Passages /\ passage.discharge = pumped - elevation /\ passage.suction = suction - elevation
      BY <1>11, <2>2
    <3>2. after.passages = Append(m.passages, passage)
      <4> HIDE DEF passage
      <4> QED
        BY <1>2, <2>2, <3>1
    <3> HIDE DEF passage
    <3>3. passage.discharge - passage.suction = gain
      <4>1. pumped = suction + gain
        OBVIOUS
      <4> HIDE DEF suction, pumped
      <4> QED
        BY <1>4, <1>8, <1>10, <3>1, <4>1
    <3> QED
      BY <1>8, <2>0, <3>1, <3>2, <3>3
  <2> QED
    BY <2>1, <2>2
<1> HIDE DEF suction, pumped, clamps, head, passage, passages
<1>13. p \in PointType /\ p.elevation = elevation /\ p.grade = head
  <2> DEFINE below == head - elevation <= vapour
             pressure == head - elevation
  <2>1. below \in BOOLEAN /\ pressure \in Int
    BY <1>4, <1>10
  <2>2. p = [at |-> c, elevation |-> elevation, pressure |-> pressure, grade |-> head,
             flow |-> flow, velocity |-> velocity, below |-> below]
    BY Zenon DEF Point
  <2> HIDE DEF p, below, pressure
  <2> QED
    BY <1>3, <1>4, <1>5, <1>6, <1>10, <2>1, <2>2 DEF PointType
<1> HIDE DEF p
<1>14. after.clamped \in BOOLEAN /\ (~after.clamped => ~m.clamped /\ ~clamps)
  BY <1>2, <1>10
<1>15. pumped = (m.head - minor) + gain
  BY DEF pumped, suction
<1>16. ASSUME ~after.clamped
       PROVE  /\ ~m.clamped /\ p.grade = m.head - minor + (Gained(after.passages) - Gained(m.passages))
              /\ after.head = p.grade - lost
  <2>1. ~m.clamped /\ head = pumped
    BY <1>10, <1>14, <1>16
  <2>2. after.head = head - lost
    BY <1>2
  <2> DEFINE g == Gained(m.passages)
             h == Gained(after.passages)
  <2>3. g \in Int /\ h = g + gain
    BY <1>12
  <2> HIDE DEF g, h
  <2>4. p.grade = m.head - minor + (h - g)
    BY <1>7, <1>8, <1>13, <1>15, <2>1, <2>3
  <2> QED
    BY <1>13, <2>1, <2>2, <2>4 DEF g, h
<1>17. \E q \in PointType :
          /\ after.points = Append(m.points, q) /\ q.elevation = Elevation(line, grid[i])
          /\ ~after.clamped =>
                /\ ~m.clamped
                /\ q.grade = m.head - FittingLoss(line, grid[i], after.flow) + (Gained(after.passages) - Gained(m.passages))
                /\ after.head = q.grade - IntervalLoss(line, grid, i, after.flow)
  BY <1>2, <1>9, <1>13, <1>16 DEF c, elevation
<1> QED
  BY <1>7, <1>9, <1>12, <1>14, <1>17 DEF Balances, c

\* The sum of the first terms, one term more at a time.
LEMMA PartUpTo ==
    ASSUME NEW n \in Nat, NEW f \in [1..n -> Int]
    PROVE  /\ PartOf(f, 1..0) = 0 /\ PartOf(f, 1..n) = SumOver(f)
           /\ \A k \in 0..n : PartOf(f, 1..k) \in Int
           /\ \A k \in 0..(n - 1) : PartOf(f, 1..(k + 1)) = f[k + 1] + PartOf(f, 1..k)
<1>1. IsFiniteSet(1..n)
  BY FS_Interval
<1>2. /\ PartOf(f, 1..n) = SumOver(f) /\ PartOf(f, {}) = 0
      /\ \A s \in SUBSET (1..n) : PartOf(f, s) \in Int
      /\ \A s \in SUBSET (1..n) : \A x \in s : PartOf(f, s) = f[x] + PartOf(f, s \ {x})
  BY <1>1, PartOfSum
<1>3. 1..0 = {} /\ \A k \in 0..n : 1..k \in SUBSET (1..n)
  OBVIOUS
<1>4. ASSUME NEW k \in 0..(n - 1) PROVE PartOf(f, 1..(k + 1)) = f[k + 1] + PartOf(f, 1..k)
  <2> DEFINE s == 1..(k + 1)
             x == k + 1
  <2>1. x \in s /\ s \in SUBSET (1..n) /\ s \ {x} = 1..k
    OBVIOUS
  <2>2. \A r \in SUBSET (1..n) : \A y \in r : PartOf(f, r) = f[y] + PartOf(f, r \ {y})
    BY <1>2
  <2> HIDE DEF s, x
  <2>3. PartOf(f, s) = f[x] + PartOf(f, 1..k)
    BY ONLY <2>1, <2>2, Zenon
  <2> QED
    BY <2>3 DEF s, x
<1> QED
  BY ONLY <1>2, <1>3, <1>4, Zenon

FittingLosses(line, grid, points) == [i \in 1..Len(grid) |-> FittingLoss(line, grid[i], points[i].flow)]
IntervalLosses(line, grid, points) == [i \in 1..Len(grid) |-> IntervalLoss(line, grid, i, points[i].flow)]

HeadBalances(line, grid, pressure, march) ==
    LET minor    == FittingLosses(line, grid, march.points)
        friction == IntervalLosses(line, grid, march.points)
    IN  /\ minor \in [1..Len(grid) -> Int] /\ friction \in [1..Len(grid) -> Int]
        /\ march.points[1].elevation \in Int /\ Gained(march.passages) \in Int
        /\ march.passages \in Seq(Passages)
        /\ ~march.clamped =>
              Outlet(march).grade = march.points[1].elevation + pressure + Gained(march.passages)
                                    - (SumOver(minor) + SumOver(friction))

\* The head that leaves is the head that enters, what was gained and what was lost.
LEMMA MarchBalances ==
    ASSUME NEW line \in LineType, IsChain(line), NEW input, input.state.vapour \in Int,
           input.scenario.gravity \in BOOLEAN, NEW step \in Nat \ {0}, NEW grid, NEW flow \in Int, NEW pressure \in Int,
           NEW march, march = MarchAlong(line, input, grid, flow, pressure),
           HasPoints(line, input.state.vapour, step, grid, flow, march.points)
    PROVE  HeadBalances(line, grid, pressure, march)
<1> DEFINE n == Len(grid)
<1>1. n \in Nat /\ n > 0 /\ grid \in Seq(Int) /\ Len(march.points) = n
  BY DEF HasPoints
<1>2. ASSUME NEW i \in 1..n PROVE grid[i] \in Int /\ OnLine(line, grid[i])
  <2>1. grid[i] \in Int /\ grid[i] \in Chainages(line, step)
    <3>1. grid[i] \in Chainages(line, step)
      BY DEF HasPoints
    <3>2. grid[i] \in Int
      BY <1>1
    <3> QED
      BY <3>1, <3>2
  <2> QED
    BY <2>1, PointsOfLine
<1>3. PICK m : /\ m[0] = Entering(line, grid, flow, pressure)
               /\ \A i \in 1..n : m[i] = Pass(line, input, grid, m[i - 1], i)
               /\ march = m[n]
  BY <1>1, MarchUnfolds
<1> DEFINE start == Elevation(line, grid[1]) + pressure
<1>4. /\ m[0].head = start /\ start \in Int /\ m[0].flow = flow /\ m[0].points = <<>> /\ m[0].passages = <<>>
      /\ m[0].clamped = FALSE
  <2>1. 1 \in 1..n
    BY <1>1
  <2>2. Elevation(line, grid[1]) \in Int
    BY <1>2, <2>1, HereType
  <2> QED
    BY <1>3, <2>2 DEF Entering
<1> HIDE DEF start
<1> DEFINE Typed(k) == Enters(m[k]) /\ m[k].passages \in Seq(Passages) /\ m[k].clamped \in BOOLEAN
           Kept(k) == /\ Len(m[k].points) = k /\ \A i \in 1..k : m[k].points[i].flow = m[i].flow
                      /\ k > 0 => m[k].points[1].elevation = Elevation(line, grid[1])
           Steps(k) == k > 0 => Balances(line, grid, k, m[k - 1], m[k])
           S == {k \in 0..n : Typed(k) /\ Kept(k) /\ Steps(k)}
<1>5. 0 \in S
  <2>1. Typed(0)
    <3>1. \A X0 : <<>> \in Seq(X0)
      OBVIOUS
    <3> QED
      BY <1>4, <3>1 DEF Enters
  <2>2. Kept(0) /\ Steps(0)
    BY <1>4
  <2> HIDE DEF Typed, Kept, Steps
  <2> QED
    BY <1>1, <2>1, <2>2
<1>6. ASSUME NEW k \in 0..(n - 1), k \in S PROVE k + 1 \in S
  <2>1. k + 1 \in 1..n /\ (k + 1) - 1 = k /\ k \in Nat /\ k + 1 \in 0..n /\ k + 1 > 0
    BY <1>1
  <2>2. Typed(k) /\ Kept(k)
    BY <1>6
  <2> DEFINE before == m[k]
             after == m[k + 1]
             c == grid[k + 1]
  <2>3. after = Pass(line, input, grid, before, k + 1)
    BY <1>3, <2>1
  <2>4. Enters(before) /\ before.passages \in Seq(Passages) /\ before.clamped \in BOOLEAN
    BY <2>2
  <2>5. /\ grid \in Seq(Int) /\ k + 1 \in 1..Len(grid) /\ OnLine(line, grid[k + 1])
        /\ line \in LineType /\ IsChain(line) /\ input.state.vapour \in Int /\ input.scenario.gravity \in BOOLEAN
    BY <1>1, <1>2, <2>1
  <2> HIDE DEF before, after, Typed, Kept
  <2>6. PointAdded(line, input, grid[k + 1], before, after)
    BY ONLY <2>3, <2>4, <2>5, PassAddsPoint, Zenon
  <2>7. Balances(line, grid, k + 1, before, after)
    BY ONLY <2>3, <2>4, <2>5, PassBalances, Zenon
  <2>8. PICK p \in PointType : after.points = Append(before.points, p) /\ p.flow = after.flow
    BY <2>6 DEF PointAdded
  <2>9. PICK q \in PointType : after.points = Append(before.points, q) /\ q.elevation = Elevation(line, c)
    BY <2>7 DEF Balances
  <2>10. before.points \in Seq(PointType) /\ Len(before.points) = k
    BY <2>2, <2>4 DEF before, Enters, Kept
  <2>11. /\ after.points \in Seq(PointType) /\ Len(after.points) = k + 1
         /\ after.points[k + 1] = p /\ after.points[k + 1] = q /\ \A i \in 1..k : after.points[i] = before.points[i]
    <3> DEFINE s == before.points
               t == after.points
    <3>1. s \in Seq(PointType) /\ Len(s) = k /\ k \in Nat
      BY <2>1, <2>10
    <3>2. t = Append(s, p) /\ p \in PointType
      BY <2>8
    <3>3. t = Append(s, q) /\ q \in PointType
      BY <2>9
    <3> HIDE DEF s, t
    <3>4. t \in Seq(PointType) /\ Len(t) = k + 1
      BY ONLY <3>1, <3>2, SMT
    <3>5. t[k + 1] = p /\ \A i \in 1..k : t[i] = s[i]
      BY ONLY <3>1, <3>2, SMT
    <3>6. t[k + 1] = q
      BY ONLY <3>1, <3>3, SMT
    <3> QED
      BY <3>4, <3>5, <3>6 DEF s, t
  <2>12. Enters(after)
    BY <2>6, <2>11 DEF PointAdded, Enters
  <2>13. Typed(k + 1)
    BY <2>7, <2>12 DEF Typed, after, Balances
  <2>14. ASSUME NEW i \in 1..(k + 1) PROVE m[k + 1].points[i].flow = m[i].flow
    <3>1. CASE i = k + 1
      BY <2>8, <2>11, <3>1 DEF after
    <3>2. CASE i # k + 1
      <4>1. i \in 1..k
        BY <2>1, <3>2
      <4> QED
        BY <2>2, <2>11, <4>1 DEF after, before, Kept
    <3> QED
      BY <3>1, <3>2
  <2>15. m[k + 1].points[1].elevation = Elevation(line, grid[1])
    <3>1. CASE k = 0
      BY <2>9, <2>11, <3>1 DEF after
    <3>2. CASE k # 0
      <4>1. 1 \in 1..k /\ k > 0
        BY <2>1, <3>2
      <4> QED
        BY <2>2, <2>11, <4>1 DEF after, before, Kept
    <3> QED
      BY <3>1, <3>2
  <2>16. Kept(k + 1)
    BY <2>11, <2>14, <2>15 DEF Kept, after
  <2>17. Steps(k + 1)
    BY <2>1, <2>7 DEF before, after
  <2> HIDE DEF Steps
  <2> QED
    BY <2>1, <2>13, <2>16, <2>17
<1>7. \A k \in 0..n : k \in S
  <2> HIDE DEF S
  <2> QED
    BY <1>1, <1>5, <1>6, UpTo
<1>8. \A k \in 0..n : Typed(k) /\ Kept(k)
  BY <1>7
<1>9. \A k \in 0..n : Steps(k)
  BY <1>7
<1> HIDE DEF S
<1> DEFINE minor == FittingLosses(line, grid, march.points)
           friction == IntervalLosses(line, grid, march.points)
<1>10. ASSUME NEW k \in 1..n
       PROVE  /\ Balances(line, grid, k, m[k - 1], m[k])
              /\ minor[k] = FittingLoss(line, grid[k], m[k].flow) /\ minor[k] \in Int
              /\ friction[k] = IntervalLoss(line, grid, k, m[k].flow) /\ friction[k] \in Int
  <2>1. k \in 0..n /\ k > 0 /\ n \in 0..n
    BY <1>1
  <2>2. Balances(line, grid, k, m[k - 1], m[k])
    BY <1>9, <2>1
  <2>3. march.points[k].flow = m[k].flow
    BY <1>3, <1>8, <2>1
  <2>4. minor[k] = FittingLoss(line, grid[k], m[k].flow) /\ friction[k] = IntervalLoss(line, grid, k, m[k].flow)
    BY <2>3 DEF FittingLosses, IntervalLosses
  <2> QED
    BY <2>2, <2>4 DEF Balances
<1>11. minor \in [1..n -> Int] /\ friction \in [1..n -> Int]
  <2>1. \A k \in 1..n : minor[k] \in Int /\ friction[k] \in Int
    BY <1>10
  <2> QED
    BY <2>1 DEF FittingLosses, IntervalLosses
<1> HIDE DEF minor, friction, Steps
<1>12. /\ PartOf(minor, 1..0) = 0 /\ PartOf(minor, 1..n) = SumOver(minor)
       /\ \A k \in 0..n : PartOf(minor, 1..k) \in Int
       /\ \A k \in 0..(n - 1) : PartOf(minor, 1..(k + 1)) = minor[k + 1] + PartOf(minor, 1..k)
  BY <1>1, <1>11, PartUpTo
<1>13. /\ PartOf(friction, 1..0) = 0 /\ PartOf(friction, 1..n) = SumOver(friction)
       /\ \A k \in 0..n : PartOf(friction, 1..k) \in Int
       /\ \A k \in 0..(n - 1) : PartOf(friction, 1..(k + 1)) = friction[k + 1] + PartOf(friction, 1..k)
  BY <1>1, <1>11, PartUpTo
<1> DEFINE Level(k) == start + Gained(m[k].passages) - PartOf(minor, 1..k) - PartOf(friction, 1..k)
           Good(k) == ~m[k].clamped => m[k].head = Level(k)
           T == {k \in 0..n : Good(k)}
<1>14. 0 \in T
  <2>1. Gained(<<>>) = 0
    <3> DEFINE none == [k \in DOMAIN <<>> |-> <<>>[k].discharge - <<>>[k].suction]
    <3>1. Gained(<<>>) = SumOver(none)
      BY DEF Gained
    <3>2. none \in [{} -> Int] /\ IsFiniteSet({})
      BY FS_EmptySet
    <3> HIDE DEF none
    <3>3. SumOver(none) = 0
      BY <3>2, SumTerm
    <3> QED
      BY <3>1, <3>3
  <2>2. Good(0)
    BY <1>4, <1>12, <1>13, <2>1
  <2> HIDE DEF Good
  <2> QED
    BY <1>1, <2>2
<1>15. ASSUME NEW k \in 0..(n - 1), k \in T PROVE k + 1 \in T
  <2>1. k + 1 \in 1..n /\ (k + 1) - 1 = k /\ k \in Nat /\ k + 1 \in 0..n /\ k \in 0..n
    BY <1>1
  <2>2. Balances(line, grid, k + 1, m[k], m[k + 1])
    BY <1>10, <2>1
  <2>3. /\ minor[k + 1] = FittingLoss(line, grid[k + 1], m[k + 1].flow) /\ minor[k + 1] \in Int
        /\ friction[k + 1] = IntervalLoss(line, grid, k + 1, m[k + 1].flow) /\ friction[k + 1] \in Int
    BY <1>10, <2>1
  <2>4. /\ PartOf(minor, 1..(k + 1)) = minor[k + 1] + PartOf(minor, 1..k) /\ PartOf(minor, 1..k) \in Int
        /\ PartOf(friction, 1..(k + 1)) = friction[k + 1] + PartOf(friction, 1..k) /\ PartOf(friction, 1..k) \in Int
    BY <1>12, <1>13, <2>1
  <2>5. m[k].head \in Int /\ Gained(m[k].passages) \in Int /\ Gained(m[k + 1].passages) \in Int
    BY <1>8, <2>1, <2>2 DEF Balances, Enters
  <2>6. Good(k)
    BY <1>15
  <2>7. ASSUME ~m[k + 1].clamped PROVE m[k + 1].head = Level(k + 1)
    <3>1. /\ ~m[k].clamped
          /\ m[k + 1].head = (m[k].head - minor[k + 1] + (Gained(m[k + 1].passages) - Gained(m[k].passages))) - friction[k + 1]
      BY <2>2, <2>3, <2>7 DEF Balances
    <3>2. m[k].head = Level(k)
      BY <2>6, <3>1
    <3> DEFINE a == PartOf(minor, 1..k)
               b == PartOf(friction, 1..k)
               g == Gained(m[k].passages)
               h == Gained(m[k + 1].passages)
    <3>3. /\ m[k].head = start + g - a - b /\ Level(k + 1) = start + h - (minor[k + 1] + a) - (friction[k + 1] + b)
          /\ m[k + 1].head = (m[k].head - minor[k + 1] + (h - g)) - friction[k + 1]
          /\ a \in Int /\ b \in Int /\ g \in Int /\ h \in Int
      BY <2>4, <2>5, <3>1, <3>2
    <3> HIDE DEF Level, a, b, g, h
    <3> QED
      BY <1>4, <2>3, <3>3
  <2>8. Good(k + 1)
    BY <2>7
  <2> HIDE DEF Good
  <2> QED
    BY <2>1, <2>8
<1>16. n \in T
  <2> HIDE DEF T
  <2> QED
    BY <1>1, <1>14, <1>15, UpTo
<1>17. Good(n)
  BY <1>16
<1>18. friction[n] = 0
  <2>1. n \in 1..n
    BY <1>1
  <2>2. friction[n] = IntervalLoss(line, grid, n, m[n].flow)
    BY <1>10, <2>1
  <2> DEFINE per == Drop(Governing(line, grid[n]).drag, m[n].flow * Governing(line, grid[n]).speed)
  <2>3. friction[n] = per * 0
    BY <2>2, Zenon DEF IntervalLoss
  <2>4. per \in Int
    <3>1. Governing(line, grid[n]).drag \in Int /\ Governing(line, grid[n]).speed \in Int
      BY <1>2, <2>1, HereType
    <3>2. m[n].flow \in Int
      <4>1. n \in 0..n
        BY <1>1
      <4>2. Enters(m[n])
        BY <1>8, <4>1
      <4> QED
        BY <4>2 DEF Enters
    <3> DEFINE v == m[n].flow * Governing(line, grid[n]).speed
    <3>3. v \in Int
      BY <3>1, <3>2
    <3> HIDE DEF v
    <3> QED
      BY <3>1, <3>3, DropType DEF v
  <2> HIDE DEF per
  <2> QED
    BY <2>3, <2>4
<1>19. march.points[1].elevation = Elevation(line, grid[1]) /\ Elevation(line, grid[1]) \in Int
  <2>1. n \in 0..n /\ n > 0 /\ 1 \in 1..n
    BY <1>1
  <2>2. Elevation(line, grid[1]) \in Int
    BY <1>2, <2>1, HereType
  <2> QED
    BY <1>3, <1>8, <2>1, <2>2
<1>20. Gained(march.passages) \in Int
  <2>1. n \in 1..n
    BY <1>1
  <2> QED
    BY <1>3, <1>10, <2>1 DEF Balances
<1>21. ASSUME ~march.clamped
       PROVE  Outlet(march).grade = march.points[1].elevation + pressure + Gained(march.passages)
                                    - (SumOver(minor) + SumOver(friction))
  <2>1. n \in 1..n /\ n - 1 \in 0..n /\ n \in 0..n
    BY <1>1
  <2>2. Balances(line, grid, n, m[n - 1], m[n])
    BY <1>10, <2>1
  <2>3. PICK p \in PointType :
          /\ m[n].points = Append(m[n - 1].points, p)
          /\ m[n].head = p.grade - IntervalLoss(line, grid, n, m[n].flow)
    BY <1>3, <1>21, <2>2 DEF Balances
  <2>4. Outlet(march) = p
    <3>1. m[n - 1].points \in Seq(PointType) /\ Len(m[n - 1].points) = n - 1
      BY <1>8, <2>1 DEF Enters
    <3>2. (n - 1) + 1 = n
      BY <1>1
    <3> HIDE DEF n
    <3> QED
      BY <1>1, <1>3, <2>3, <3>1, <3>2 DEF Outlet
  <2>5. p.grade \in Int /\ IntervalLoss(line, grid, n, m[n].flow) = 0
    BY <1>10, <1>18, <2>1 DEF PointType
  <2>6. m[n].head = p.grade
    BY <2>3, <2>5
  <2>7. m[n].head = Level(n)
    BY <1>3, <1>17, <1>21
  <2> DEFINE a == SumOver(minor)
             b == SumOver(friction)
             g == Gained(march.passages)
             e == march.points[1].elevation
  <2>8. p.grade = start + g - a - b /\ a \in Int /\ b \in Int /\ g \in Int
    BY <1>3, <1>12, <1>13, <1>20, <2>1, <2>6, <2>7
  <2>9. start = e + pressure /\ e \in Int
    BY <1>19 DEF start
  <2> HIDE DEF a, b, g, e, Level
  <2>10. p.grade = e + pressure + g - (a + b)
    BY <2>8, <2>9
  <2> QED
    BY <2>4, <2>10 DEF a, b, g, e
<1>22. march.passages \in Seq(Passages)
  <2>1. n \in 0..n
    BY <1>1
  <2> QED
    BY <1>3, <1>8, <2>1 DEF Typed
<1> QED
  BY <1>11, <1>19, <1>20, <1>21, <1>22 DEF HeadBalances, minor, friction

(***************************************************************************)
(* What the segments report is what the march took.                        *)
(***************************************************************************)
\* What a loss is computed from.
LEMMA LossTypes ==
    ASSUME NEW line \in LineType, IsChain(line), NEW c \in Int, OnLine(line, c), NEW flow \in Int
    PROVE  /\ Governing(line, c).speed \in Int /\ Governing(line, c).drag \in Int
           /\ flow * Governing(line, c).speed \in Int
           /\ Drop(Governing(line, c).drag, flow * Governing(line, c).speed) \in Int
<1> DEFINE speed == Governing(line, c).speed
           drag == Governing(line, c).drag
           v == flow * speed
<1>1. speed \in Int /\ drag \in Int
  BY HereType
<1>2. v \in Int
  <2> HIDE DEF speed
  <2> QED
    BY <1>1
<1>3. Drop(drag, v) \in Int
  <2> HIDE DEF v, drag, speed
  <2> QED
    BY <1>1, <1>2, DropType
<1> QED
  BY <1>1, <1>2, <1>3

Inside(segment, points) == {i \in DOMAIN points : segment.from <= points[i].at /\ points[i].at <= segment.to}
Intervals(segment, points) == {i \in Inside(segment, points) : i + 1 \in Inside(segment, points)}

\* The segment of each interval.
SegmentIndex(line, grid) ==
    [i \in 1..(Len(grid) - 1) |->
        CHOOSE s \in 1..Len(line.segments) : line.segments[s].from <= grid[i] /\ grid[i] < line.segments[s].to]

IndexGoverns(line, grid, points) ==
    LET index == SegmentIndex(line, grid)
        last  == Len(grid) - 1
    IN  /\ index \in [1..last -> 1..Len(line.segments)]
        /\ \A i \in 1..last : Governing(line, grid[i]) = line.segments[index[i]]
        /\ \A s \in 1..Len(line.segments) : Intervals(line.segments[s], points) = Class(1..last, index, s)

GridOver(line, step, grid, points) ==
    /\ Len(grid) \in Nat \ {0} /\ DOMAIN points = 1..Len(grid)
    /\ \A i \in 1..Len(grid) : /\ points[i].at = grid[i] /\ grid[i] \in Int /\ OnLine(line, grid[i])
                               /\ points[i].flow \in Int
    /\ \A i, j \in 1..Len(grid) : i < j => grid[i] < grid[j]
    /\ \A i, j \in 1..Len(grid) : grid[i] = grid[j] => i = j
    /\ \A c \in Chainages(line, step) : \E i \in 1..Len(grid) : grid[i] = c

\* What the points of a march have of the grid.
LEMMA GridParts ==
    ASSUME NEW line \in LineType, IsChain(line), NEW vapour, NEW step \in Nat \ {0}, NEW grid, NEW flow, NEW points,
           HasPoints(line, vapour, step, grid, flow, points)
    PROVE  GridOver(line, step, grid, points)
<1>1. /\ grid \in Seq(Int) /\ Len(grid) > 0 /\ points \in Seq(PointType) /\ Len(points) = Len(grid)
      /\ \A i, j \in 1..Len(grid) : i < j => grid[i] < grid[j]
      /\ \A c \in Chainages(line, step) : \E i \in 1..Len(grid) : grid[i] = c
  BY DEF HasPoints
<1>2. \A i \in 1..Len(grid) : points[i].at = grid[i] /\ points[i].at \in Chainages(line, step)
  BY DEF HasPoints
<1>3. Len(grid) \in Nat \ {0} /\ DOMAIN points = 1..Len(grid) /\ \A i \in 1..Len(grid) : grid[i] \in Int
  BY <1>1
<1>4. \A i \in 1..Len(grid) : points[i].flow \in Int
  <2>1. \A i \in 1..Len(grid) : points[i] \in PointType
    BY <1>1, <1>3
  <2> QED
    BY <2>1 DEF PointType
<1>5. \A i \in 1..Len(grid) : OnLine(line, grid[i])
  BY <1>2, PointsOfLine
<1>6. ASSUME NEW i \in 1..Len(grid), NEW j \in 1..Len(grid), grid[i] = grid[j] PROVE i = j
  <2>1. ~(i < j) /\ ~(j < i)
    BY <1>1, <1>3, <1>6
  <2> QED
    BY <1>3, <2>1
<1> QED
  BY <1>1, <1>2, <1>3, <1>4, <1>5, <1>6 DEF GridOver

\* The segment that governs a point is the one its interval is counted in.
LEMMA IntervalsOfSegments ==
    ASSUME NEW line \in LineType, IsChain(line), NEW step \in Nat \ {0}, NEW grid, NEW points,
           GridOver(line, step, grid, points)
    PROVE  IndexGoverns(line, grid, points)
<1> DEFINE n == Len(grid)
           N == Len(line.segments)
           last == n - 1
           from(s) == line.segments[s].from
           to(s) == line.segments[s].to
           index == SegmentIndex(line, grid)
<1>1. /\ n \in Nat \ {0} /\ DOMAIN points = 1..n
      /\ \A i \in 1..n : points[i].at = grid[i] /\ grid[i] \in Int /\ OnLine(line, grid[i])
      /\ \A i, j \in 1..n : i < j => grid[i] < grid[j]
      /\ \A c \in Chainages(line, step) : \E i \in 1..n : grid[i] = c
  BY DEF GridOver
<1>2. N \in Nat \ {0} /\ \A s \in 1..N : from(s) \in Int /\ to(s) \in Int /\ from(s) < to(s)
  BY LineParts
<1>3. \A s, t \in 1..N : s < t => to(s) <= from(t)
  BY ChainAdvances
<1>4. \A s \in 1..N : \E k \in 1..n : grid[k] = to(s)
  BY <1>1, PointsOfLine
<1>5. \A i \in 1..n : grid[i] <= to(N)
  BY <1>1 DEF OnLine, LineEnd
<1> HIDE DEF n, N
<1>6. ASSUME NEW i \in 1..last
      PROVE  i \in 1..n /\ i + 1 \in 1..n /\ grid[i] < grid[i + 1] /\ grid[i] < to(N)
  <2>1. i \in 1..n /\ i + 1 \in 1..n /\ i < i + 1
    BY <1>1
  <2>2. grid[i] < grid[i + 1] /\ grid[i] \in Int /\ grid[i + 1] \in Int
    BY <1>1, <2>1
  <2>3. N \in 1..N /\ grid[i + 1] <= to(N)
    BY <1>2, <1>5, <2>1
  <2>4. to(N) \in Int
    BY <1>2, <2>3
  <2> HIDE DEF to
  <2> QED
    BY <2>1, <2>2, <2>3, <2>4
<1>7. ASSUME NEW i \in 1..last, NEW s \in 1..N, NEW t \in 1..N,
             from(s) <= grid[i], grid[i] < to(s), from(t) <= grid[i], grid[i] < to(t)
      PROVE  s = t
  <2>1. grid[i] \in Int
    BY <1>1, <1>6
  <2>2. from(s) \in Int /\ from(t) \in Int /\ to(s) \in Int /\ to(t) \in Int
    BY <1>2
  <2>3. ~(s < t) /\ ~(t < s)
    <3>1. ~(to(s) <= from(t)) /\ ~(to(t) <= from(s))
      <4> HIDE DEF from, to
      <4> QED
        BY <1>7, <2>1, <2>2
    <3> HIDE DEF from, to
    <3> QED
      BY <1>3, <3>1
  <2> QED
    BY <1>2, <2>3
<1>8. ASSUME NEW i \in 1..last
      PROVE  /\ index[i] \in 1..N /\ from(index[i]) <= grid[i] /\ grid[i] < to(index[i])
             /\ Governing(line, grid[i]) = line.segments[index[i]]
  <2>1. grid[i] \in Int /\ OnLine(line, grid[i]) /\ grid[i] < to(N)
    BY <1>1, <1>6
  <2>2. PICK s \in 1..N : /\ Governing(line, grid[i]) = line.segments[s] /\ from(s) <= grid[i]
                          /\ grid[i] < to(s) \/ s = N
    BY <2>1, SegmentGoverns DEF N
  <2>3. grid[i] < to(s)
    BY <2>1, <2>2
  <2>4. index[i] = CHOOSE t \in 1..N : from(t) <= grid[i] /\ grid[i] < to(t)
    BY DEF SegmentIndex, N, n
  <2>5. index[i] \in 1..N /\ from(index[i]) <= grid[i] /\ grid[i] < to(index[i])
    <3> HIDE DEF index, from, to
    <3> QED
      BY <2>2, <2>3, <2>4, Zenon
  <2>6. index[i] = s
    <3> HIDE DEF index, from, to
    <3> QED
      BY <1>7, <2>2, <2>3, <2>5
  <2> QED
    BY <2>2, <2>5, <2>6
<1>9. index \in [1..last -> 1..N]
  <2>1. \A i \in 1..last : index[i] \in 1..N
    BY <1>8
  <2> QED
    BY <2>1 DEF SegmentIndex, N, n
<1> HIDE DEF index
<1>10. ASSUME NEW s \in 1..N
       PROVE  Intervals(line.segments[s], points) = Class(1..last, index, s)
  <2> DEFINE In == Inside(line.segments[s], points)
  <2>1. \A i : i \in In <=> i \in 1..n /\ from(s) <= grid[i] /\ grid[i] <= to(s)
    BY <1>1 DEF Inside
  <2>2. from(s) \in Int /\ to(s) \in Int
    BY <1>2
  <2> HIDE DEF In, from, to, last
  <2>3. ASSUME NEW i \in In, i + 1 \in In PROVE i \in 1..last /\ index[i] = s
    <3>1. i \in 1..n /\ i + 1 \in 1..n
      BY <2>1, <2>3
    <3>2. i \in 1..last
      BY <1>1, <3>1 DEF last
    <3>3. from(s) <= grid[i] /\ grid[i + 1] <= to(s) /\ grid[i] < grid[i + 1]
      BY <1>6, <2>1, <2>3, <3>2
    <3>4. grid[i] \in Int /\ grid[i + 1] \in Int
      BY <1>1, <3>1
    <3>5. grid[i] < to(s)
      BY <2>2, <3>3, <3>4
    <3> QED
      BY <1>7, <1>8, <3>2, <3>3, <3>5
  <2>4. ASSUME NEW i \in 1..last, index[i] = s PROVE i \in In /\ i + 1 \in In
    <3>1. i \in 1..n /\ i + 1 \in 1..n /\ grid[i] < grid[i + 1]
      BY <1>6
    <3>2. grid[i] \in Int /\ grid[i + 1] \in Int
      BY <1>1, <3>1
    <3>3. from(s) <= grid[i] /\ grid[i] < to(s)
      BY <1>8, <2>4
    <3>4. PICK k \in 1..n : grid[k] = to(s)
      BY <1>4
    <3>5. i < k
      <4>1. ~(k < i) /\ k # i
        <5>1. ~(grid[k] < grid[i]) /\ grid[k] # grid[i]
          BY <2>2, <3>2, <3>3, <3>4
        <5> QED
          BY <1>1, <3>1, <5>1
      <4> QED
        BY <1>1, <3>1, <4>1
    <3>6. i + 1 = k \/ i + 1 < k
      BY <1>1, <3>1, <3>5
    <3>7. grid[i + 1] <= to(s)
      <4>1. CASE i + 1 = k
        BY <2>2, <3>4, <4>1
      <4>2. CASE i + 1 < k
        <5>1. grid[i + 1] < grid[k]
          BY <1>1, <3>1, <4>2
        <5> QED
          BY <2>2, <3>2, <3>4, <5>1
      <4> QED
        BY <3>6, <4>1, <4>2
    <3>8. from(s) <= grid[i + 1] /\ grid[i] <= to(s)
      BY <2>2, <3>1, <3>2, <3>3
    <3> QED
      BY <2>1, <3>1, <3>3, <3>7, <3>8
  <2>5. \A i : i \in Intervals(line.segments[s], points) <=> i \in In /\ i + 1 \in In
    BY DEF Intervals, In
  <2>6. \A i : i \in Class(1..last, index, s) <=> i \in 1..last /\ index[i] = s
    BY DEF Class
  <2> QED
    BY ONLY <2>3, <2>4, <2>5, <2>6, Zenon
<1> QED
  BY <1>8, <1>9, <1>10 DEF IndexGoverns, index, N, n

FrictionOf(line, points) == [s \in 1..Len(line.segments) |-> SegmentLosses(line, points, s).friction]
MinorOf(line, points) == [s \in 1..Len(line.segments) |-> SegmentLosses(line, points, s).minor]

\* The friction reported by segment is the friction met along the march.
LEMMA FrictionReported ==
    ASSUME NEW line \in LineType, IsChain(line), NEW step \in Nat \ {0}, NEW grid, NEW points,
           GridOver(line, step, grid, points)
    PROVE  /\ FrictionOf(line, points) \in [1..Len(line.segments) -> Int]
           /\ SumOver(FrictionOf(line, points)) = SumOver(IntervalLosses(line, grid, points))
<1> DEFINE n == Len(grid)
           N == Len(line.segments)
           last == n - 1
           index == SegmentIndex(line, grid)
           friction == FrictionOf(line, points)
           all == IntervalLosses(line, grid, points)
           f == [i \in 1..last |-> all[i]]
<1>1. /\ n \in Nat \ {0} /\ DOMAIN points = 1..n
      /\ \A i \in 1..n : points[i].at = grid[i] /\ grid[i] \in Int /\ OnLine(line, grid[i]) /\ points[i].flow \in Int
  BY DEF GridOver
<1>2. /\ index \in [1..last -> 1..N] /\ \A i \in 1..last : Governing(line, grid[i]) = line.segments[index[i]]
      /\ \A s \in 1..N : Intervals(line.segments[s], points) = Class(1..last, index, s)
  <2>1. IndexGoverns(line, grid, points)
    BY IntervalsOfSegments
  <2> QED
    BY <2>1 DEF IndexGoverns
<1>3. N \in Nat \ {0}
  BY LineParts
<1> HIDE DEF index, n, N
<1> DEFINE per(i) == Drop(Governing(line, grid[i]).drag, points[i].flow * Governing(line, grid[i]).speed)
<1>4. \A i \in 1..n : per(i) \in Int
  BY <1>1, LossTypes
<1>5. \A i \in 1..n : all[i] = per(i) * (IF i = n THEN 0 ELSE grid[i + 1] - grid[i])
  BY Zenon DEF IntervalLosses, IntervalLoss, n
<1> HIDE DEF per, all
<1>6. ASSUME NEW i \in 1..last PROVE all[i] = per(i) * (grid[i + 1] - grid[i]) /\ all[i] \in Int
  <2>1. i \in 1..n /\ i + 1 \in 1..n /\ i # n
    BY <1>1
  <2>2. all[i] = per(i) * (grid[i + 1] - grid[i])
    BY <1>5, <2>1
  <2> DEFINE w == grid[i + 1] - grid[i]
  <2>3. w \in Int /\ per(i) \in Int
    BY <1>1, <1>4, <2>1
  <2> HIDE DEF w
  <2>4. per(i) * w \in Int
    BY <2>3
  <2> QED
    BY <2>2, <2>4 DEF w
<1>7. n \in 1..n /\ all[n] = 0
  <2>1. n \in 1..n
    BY <1>1
  <2>2. all[n] = per(n) * 0 /\ per(n) \in Int
    BY <1>4, <1>5, <2>1
  <2> QED
    BY <2>1, <2>2
<1>8. f \in [1..last -> Int]
  BY <1>6
<1>9. SumOver(all) = SumOver(f) /\ SumOver(f) \in Int
  <2>1. last \in Nat /\ last + 1 = n
    BY <1>1
  <2>2. all \in [1..n -> Int]
    <3>1. \A i \in 1..n : i \in 1..last \/ i = n
      BY <1>1
    <3>2. \A i \in 1..n : all[i] \in Int
      BY <1>6, <1>7, <3>1
    <3>3. DOMAIN all = 1..n /\ all = [i \in DOMAIN all |-> all[i]]
      BY DEF all, IntervalLosses, n
    <3> QED
      BY <3>2, <3>3
  <2>3. \A i \in 1..last : all[i] = f[i]
    OBVIOUS
  <2>4. all \in [1..(last + 1) -> Int]
    BY <2>1, <2>2
  <2> HIDE DEF last, f
  <2>5. SumOver(f) \in Int /\ SumOver(all) = SumOver(f) + all[last + 1]
    BY ONLY <1>8, <2>1, <2>3, <2>4, SumAppended, Zenon
  <2>6. all[last + 1] = 0
    BY <1>7, <2>1
  <2> QED
    BY <2>5, <2>6
<1>10. \A s \in 1..N : Class(1..last, index, s) \in SUBSET (1..last)
  BY DEF Class
<1>11. ASSUME NEW s \in 1..N PROVE friction[s] = PartOf(f, Class(1..last, index, s))
  <2> DEFINE segment == line.segments[s]
             In == Intervals(segment, points)
             g == [i \in In |-> Drop(segment.drag, points[i].flow * segment.speed) * (points[i + 1].at - points[i].at)]
  <2>1. friction[s] = SumOver(g)
    <3>1. SegmentLosses(line, points, s).friction = SumOver(g)
      BY DEF SegmentLosses, Intervals, Inside
    <3>2. friction[s] = SegmentLosses(line, points, s).friction
      BY DEF FrictionOf, N
    <3> QED
      BY ONLY <3>1, <3>2, Zenon
  <2>2. In = Class(1..last, index, s)
    BY <1>2
  <2>3. ASSUME NEW i \in In
        PROVE  Drop(segment.drag, points[i].flow * segment.speed) * (points[i + 1].at - points[i].at) = f[i]
    <3>1. i \in 1..last /\ index[i] = s
      BY <2>2 DEF Class
    <3>2. i \in 1..n /\ i + 1 \in 1..n
      BY <1>1, <3>1
    <3>3. Governing(line, grid[i]) = segment
      BY <1>2, <3>1
    <3>4. points[i].at = grid[i] /\ points[i + 1].at = grid[i + 1]
      BY <1>1, <3>2
    <3>5. per(i) = Drop(segment.drag, points[i].flow * segment.speed)
      BY <3>3 DEF per
    <3>6. f[i] = per(i) * (grid[i + 1] - grid[i])
      BY <1>6, <3>1
    <3> HIDE DEF f, segment
    <3> QED
      BY ONLY <3>4, <3>5, <3>6, Zenon
  <2>4. g = [i \in In |-> f[i]]
    <3> HIDE DEF f, In, segment
    <3> QED
      BY <2>3
  <2> HIDE DEF f, g, In
  <2>5. SumOver(g) = PartOf(f, In)
    BY <2>4 DEF PartOf
  <2> QED
    BY ONLY <2>1, <2>2, <2>5, Zenon
<1> HIDE DEF friction, f, last
<1>12. IsFiniteSet(1..last) /\ IsFiniteSet(1..N)
  <2>1. last \in Int
    BY <1>1 DEF last
  <2> QED
    BY <1>3, <2>1, FS_Interval
<1>13. friction \in [1..N -> Int]
  <2>1. \A s \in 1..N : PartOf(f, Class(1..last, index, s)) \in Int
    BY <1>8, <1>10, <1>12, PartOfSum
  <2>2. \A s \in 1..N : friction[s] \in Int
    BY <1>11, <2>1
  <2>3. friction = [s \in 1..N |-> friction[s]]
    BY DEF friction, FrictionOf, N
  <2> QED
    BY <2>2, <2>3
<1>14. SumOver(friction) = SumOver(f)
  <2> DEFINE D == 1..last
             E == 1..N
  <2>1. IsFiniteSet(D) /\ IsFiniteSet(E) /\ f \in [D -> Int] /\ index \in [D -> E] /\ friction \in [E -> Int]
    BY <1>2, <1>8, <1>12, <1>13 DEF last
  <2>2. \A s \in E : friction[s] = PartOf(f, Class(D, index, s))
    BY <1>11
  <2> HIDE DEF D, E
  <2>3. SumsByClass(friction, f, D, E, index)
    BY <2>1, <2>2 DEF SumsByClass
  <2> QED
    BY <2>3, SumOfClasses
<1>15. SumOver(friction) = SumOver(all)
  BY <1>9, <1>14
<1> QED
  BY <1>13, <1>15 DEF friction, all, N

\* The fittings that lie on a chainage of the grid: the index of each, and its loss.
FittingOf(line, f) == line.segments[f[1]].fittings[f[2]]
PlaceOf(line, f) == FittingAt(line.segments[f[1]], FittingOf(line, f))

PointIndex(line, grid) == [f \in Fittings(line) |-> CHOOSE i \in 1..Len(grid) : grid[i] = PlaceOf(line, f)]

EachLoss(line, grid, points) ==
    [f \in Fittings(line) |->
        Drop(EffectiveK(FittingOf(line, f)), points[PointIndex(line, grid)[f]].flow * line.segments[f[1]].speed)]

FittingsPlaced(line, grid, points) ==
    LET index == PointIndex(line, grid)
        loss  == EachLoss(line, grid, points)
    IN  /\ IsFiniteSet(Fittings(line)) /\ index \in [Fittings(line) -> 1..Len(grid)] /\ loss \in [Fittings(line) -> Int]
        /\ \A f \in Fittings(line) :
              /\ f[1] \in 1..Len(line.segments) /\ f[2] \in DOMAIN line.segments[f[1]].fittings
              /\ grid[index[f]] = PlaceOf(line, f) /\ EffectiveK(FittingOf(line, f)) \in Int
              /\ line.segments[f[1]].from <= grid[index[f]] /\ grid[index[f]] <= line.segments[f[1]].to
              /\ Governing(line, grid[index[f]]).speed = line.segments[f[1]].speed

\* Every fitting in place is met at one point of the grid, at the velocity of its own segment.
LEMMA PlacesFound ==
    ASSUME NEW line \in LineType, IsChain(line), NEW step \in Nat \ {0}, NEW grid, NEW points,
           GridOver(line, step, grid, points), FittingsInPlace(line)
    PROVE  FittingsPlaced(line, grid, points)
<1> DEFINE F == Fittings(line)
           n == Len(grid)
           index == PointIndex(line, grid)
           loss == EachLoss(line, grid, points)
<1>1. /\ n \in Nat \ {0} /\ \A i \in 1..n : grid[i] \in Int /\ OnLine(line, grid[i]) /\ points[i].flow \in Int
      /\ \A c \in Chainages(line, step) : \E i \in 1..n : grid[i] = c
  BY DEF GridOver
<1>2. /\ IsFiniteSet(F)
      /\ \A f \in F : /\ f[1] \in 1..Len(line.segments) /\ f[2] \in DOMAIN line.segments[f[1]].fittings
                      /\ FittingOf(line, f) \in FittingType /\ PlaceOf(line, f) \in Int
  BY FittingsKnown DEF FittingOf, PlaceOf
<1>3. \A f \in F : /\ line.segments[f[1]].from <= PlaceOf(line, f) /\ PlaceOf(line, f) <= line.segments[f[1]].to
                   /\ Governing(line, PlaceOf(line, f)).speed = line.segments[f[1]].speed
  BY DEF FittingsInPlace, FittingOf, PlaceOf
<1>4. /\ LineStart(line) \in Int /\ LineEnd(line) \in Int
      /\ \A s \in 1..Len(line.segments) : OnLine(line, line.segments[s].from) /\ OnLine(line, line.segments[s].to)
      /\ \A f \in F : OnLine(line, PlaceOf(line, f)) => PlaceOf(line, f) \in Chainages(line, step)
  BY PointsOfLine DEF FittingOf, PlaceOf
<1>5. \A s \in 1..Len(line.segments) : line.segments[s].from \in Int /\ line.segments[s].to \in Int
  BY LineParts
<1>6. ASSUME NEW f \in F PROVE \E i \in 1..n : grid[i] = PlaceOf(line, f)
  <2> DEFINE c == PlaceOf(line, f)
             a == line.segments[f[1]].from
             b == line.segments[f[1]].to
  <2>1. a \in Int /\ b \in Int /\ c \in Int /\ a <= c /\ c <= b
    BY <1>2, <1>3, <1>5
  <2>2. LineStart(line) <= a /\ b <= LineEnd(line)
    BY <1>2, <1>4 DEF OnLine
  <2>3. OnLine(line, c)
    <3> HIDE DEF a, b, c
    <3> QED
      BY <1>4, <2>1, <2>2 DEF OnLine
  <2> QED
    BY <1>1, <1>4, <2>3
<1>7. ASSUME NEW f \in F PROVE index[f] \in 1..n /\ grid[index[f]] = PlaceOf(line, f)
  <2>1. index[f] = CHOOSE i \in 1..n : grid[i] = PlaceOf(line, f)
    BY DEF PointIndex
  <2> HIDE DEF index, n
  <2> QED
    BY <1>6, <2>1
<1>8. index \in [F -> 1..n]
  <2>1. \A f \in F : index[f] \in 1..n
    BY <1>7
  <2> QED
    BY <2>1 DEF PointIndex
<1>9. \A f \in F : EffectiveK(FittingOf(line, f)) \in Int
  BY <1>2, EffectiveKNatural
<1>10. loss \in [F -> Int]
  <2> SUFFICES ASSUME NEW f \in F PROVE loss[f] \in Int
    BY DEF EachLoss
  <2> DEFINE k == EffectiveK(FittingOf(line, f))
             q == points[index[f]].flow
             speed == line.segments[f[1]].speed
             v == q * speed
  <2>1. loss[f] = Drop(k, v)
    BY DEF EachLoss
  <2>2. k \in Int /\ q \in Int
    BY <1>1, <1>7, <1>9
  <2>3. speed \in Int
    <3>1. line.segments[f[1]] \in SegmentType
      BY <1>2, LineParts
    <3> QED
      BY <3>1 DEF SegmentType
  <2>4. v \in Int
    <3> HIDE DEF q, speed
    <3> QED
      BY <2>2, <2>3
  <2> HIDE DEF k, v, loss
  <2> QED
    BY <2>1, <2>2, <2>4, DropType
<1> HIDE DEF index, loss
<1> QED
  BY <1>2, <1>3, <1>7, <1>8, <1>9, <1>10 DEF FittingsPlaced, index, loss, n

\* The losses of the fittings, chainage by chainage.
LEMMA FittingLossesByPoint ==
    ASSUME NEW line \in LineType, IsChain(line), NEW step \in Nat \ {0}, NEW grid, NEW points,
           GridOver(line, step, grid, points), FittingsPlaced(line, grid, points)
    PROVE  SumOver(FittingLosses(line, grid, points)) = SumOver(EachLoss(line, grid, points))
<1> DEFINE F == Fittings(line)
           n == Len(grid)
           index == PointIndex(line, grid)
           loss == EachLoss(line, grid, points)
           all == FittingLosses(line, grid, points)
           K == [f \in F |-> EffectiveK(FittingOf(line, f))]
<1>1. /\ n \in Nat \ {0}
      /\ \A i \in 1..n : grid[i] \in Int /\ OnLine(line, grid[i]) /\ points[i].flow \in Int
      /\ \A i, j \in 1..n : grid[i] = grid[j] => i = j
  BY DEF GridOver
<1>2. /\ IsFiniteSet(F) /\ index \in [F -> 1..n] /\ loss \in [F -> Int]
      /\ \A f \in F : /\ grid[index[f]] = PlaceOf(line, f) /\ EffectiveK(FittingOf(line, f)) \in Int
                      /\ Governing(line, grid[index[f]]).speed = line.segments[f[1]].speed
  BY DEF FittingsPlaced
<1>3. K \in [F -> Int]
  BY <1>2
<1>4. \A f \in F : loss[f] = Drop(K[f], points[index[f]].flow * line.segments[f[1]].speed)
  BY DEF EachLoss
<1>5. ASSUME NEW i \in 1..n PROVE all[i] = PartOf(loss, Class(F, index, i)) /\ all[i] \in Int
  <2> DEFINE here == Class(F, index, i)
             v == points[i].flow * Governing(line, grid[i]).speed
             c == v * Magnitude(v)
             k == [f \in here |-> K[f]]
             h == [f \in here |-> loss[f]]
  <2>1. here \in SUBSET F /\ IsFiniteSet(here)
    <3>1. here \in SUBSET F
      BY DEF Class
    <3> QED
      BY <1>2, <3>1, FS_Subset
  <2>2. v \in Int
    BY <1>1, LossTypes
  <2>3. c \in Int /\ Magnitude(v) \in Int
    <3> HIDE DEF v
    <3>1. Magnitude(v) \in Int
      BY <2>2 DEF Magnitude
    <3> DEFINE w == Magnitude(v)
    <3> HIDE DEF w
    <3> QED
      BY <2>2, <3>1 DEF w
  <2>4. \A x \in Int : Drop(x, v) = x * c
    <3> DEFINE w == Magnitude(v)
    <3> HIDE DEF v, w
    <3>1. \A x \in Int : (x * v) * w = x * (v * w)
      BY <2>2, <2>3 DEF w
    <3> QED
      BY <3>1 DEF Drop, w
  <2>5. ASSUME NEW f \in here PROVE loss[f] = K[f] * c
    <3>1. f \in F /\ index[f] = i
      BY DEF Class
    <3>2. line.segments[f[1]].speed = Governing(line, grid[i]).speed
      BY <1>2, <3>1
    <3>3. loss[f] = Drop(K[f], v)
      BY <1>4, <3>1, <3>2
    <3>4. K[f] \in Int
      BY <1>3, <3>1
    <3> HIDE DEF K, c, v, loss
    <3> QED
      BY <2>4, <3>3, <3>4
  <2>6. FittingK(line, grid[i]) = SumOver(k)
    <3>1. {g \in F : PlaceOf(line, g) = grid[i]} = here
      <4>1. \A f \in F : PlaceOf(line, f) = grid[i] <=> index[f] = i
        <5> SUFFICES ASSUME NEW f \in F PROVE PlaceOf(line, f) = grid[i] <=> index[f] = i
          OBVIOUS
        <5>1. grid[index[f]] = PlaceOf(line, f) /\ index[f] \in 1..n
          BY <1>2
        <5> HIDE DEF index, n
        <5> QED
          BY <1>1, <5>1
      <4> HIDE DEF index, F
      <4> QED
        BY <4>1 DEF Class
    <3>2. FittingK(line, grid[i]) = SumOver([f \in {g \in F : PlaceOf(line, g) = grid[i]} |-> EffectiveK(FittingOf(line, f))])
      BY Zenon DEF FittingK, PlaceOf, FittingOf
    <3>3. k = [f \in here |-> EffectiveK(FittingOf(line, f))]
      BY <2>1
    <3> HIDE DEF here, k
    <3> QED
      BY <3>1, <3>2, <3>3
  <2>7. all[i] = SumOver(k) * c
    <3>1. all[i] = Drop(SumOver(k), v)
      BY <2>6 DEF FittingLosses, FittingLoss
    <3>2. SumOver(k) \in Int
      <4>1. k \in [here -> Int]
        BY <1>3, <2>1
      <4> HIDE DEF k, here
      <4> QED
        BY <2>1, <4>1, SumTerm
    <3> HIDE DEF k, v, c, all
    <3> QED
      BY <2>4, <3>1, <3>2
  <2>8. SumOver(h) = SumOver(k) * c /\ SumOver(h) \in Int
    <3>1. k \in [here -> Int] /\ h \in [here -> Int] /\ \A f \in here : k[f] = K[f] /\ h[f] = loss[f]
      <4> HIDE DEF here, K, loss
      <4> QED
        BY <1>2, <1>3, <2>1
    <3> HIDE DEF here, k, h, K, loss, c
    <3>2. Scales(h, k, c, here)
      BY <2>1, <2>3, <2>5, <3>1 DEF Scales
    <3>3. SumOver(h) = SumOver(k) * c
      BY <3>2, SumScaled
    <3>4. SumOver(h) \in Int
      BY <2>1, <3>1, SumTerm
    <3> QED
      BY <3>3, <3>4
  <2>9. PartOf(loss, here) = SumOver(h)
    BY DEF PartOf
  <2> HIDE DEF here, h, k, c, loss, all
  <2> QED
    BY <2>7, <2>8, <2>9 DEF here
<1>6. all \in [1..n -> Int]
  <2>1. all = [i \in 1..n |-> all[i]]
    BY DEF FittingLosses
  <2> HIDE DEF all
  <2> QED
    BY <1>5, <2>1
<1>7. IsFiniteSet(1..n)
  <2>1. n \in Int
    BY <1>1
  <2> HIDE DEF n
  <2> QED
    BY <2>1, FS_Interval
<1> HIDE DEF all, loss, index, F, n
<1>8. SumsByClass(all, loss, F, 1..n, index)
  BY <1>2, <1>5, <1>6, <1>7 DEF SumsByClass
<1>9. SumOver(all) = SumOver(loss)
  BY <1>8, SumOfClasses
<1> QED
  BY <1>9 DEF all, loss

\* The same losses, segment by segment.
LEMMA MinorReported ==
    ASSUME NEW line \in LineType, IsChain(line), NEW step \in Nat \ {0}, NEW grid, NEW points,
           GridOver(line, step, grid, points), FittingsPlaced(line, grid, points)
    PROVE  /\ MinorOf(line, points) \in [1..Len(line.segments) -> Int]
           /\ SumOver(MinorOf(line, points)) = SumOver(EachLoss(line, grid, points))
<1> DEFINE F == Fittings(line)
           n == Len(grid)
           N == Len(line.segments)
           index == PointIndex(line, grid)
           loss == EachLoss(line, grid, points)
           minor == MinorOf(line, points)
           of == [f \in F |-> f[1]]
<1>1. /\ n \in Nat \ {0} /\ DOMAIN points = 1..n
      /\ \A i \in 1..n : points[i].at = grid[i] /\ grid[i] \in Int
      /\ \A i, j \in 1..n : grid[i] = grid[j] => i = j
  BY DEF GridOver
<1>2. /\ IsFiniteSet(F) /\ index \in [F -> 1..n] /\ loss \in [F -> Int]
      /\ \A f \in F : /\ f[1] \in 1..N /\ grid[index[f]] = PlaceOf(line, f)
                      /\ line.segments[f[1]].from <= grid[index[f]] /\ grid[index[f]] <= line.segments[f[1]].to
  BY DEF FittingsPlaced
<1>3. DOMAIN line.segments = 1..N /\ N \in Nat \ {0} /\ \A s \in 1..N : line.segments[s] \in SegmentType
  BY LineParts
<1>4. \A f : f \in F <=> \E s \in 1..N : \E j \in DOMAIN line.segments[s].fittings : f = <<s, j>>
  BY <1>3 DEF Fittings
<1>5. \A f \in F : loss[f] = Drop(EffectiveK(FittingOf(line, f)), points[index[f]].flow * line.segments[f[1]].speed)
  BY DEF EachLoss
<1> HIDE DEF F, n, N, index, loss
<1>6. ASSUME NEW s \in 1..N PROVE minor[s] = PartOf(loss, Class(F, of, s)) /\ minor[s] \in Int
  <2> DEFINE segment == line.segments[s]
             D == DOMAIN segment.fittings
             E == Class(F, of, s)
             g == [j \in D |-> <<s, j>>]
             h == [f \in E |-> loss[f]]
             mean == SumOver([i \in Intervals(segment, points) |-> points[i].flow * (points[i + 1].at - points[i].at)])
                     \div (segment.to - segment.from)
             flowAt(c) == IF \E i \in Inside(segment, points) : points[i].at = c
                          THEN points[CHOOSE i \in Inside(segment, points) : points[i].at = c].flow ELSE mean
             k == [j \in D |-> Drop(EffectiveK(segment.fittings[j]), flowAt(FittingAt(segment, segment.fittings[j])) * segment.speed)]
  <2>1. minor[s] = SumOver(k)
    <3>1. SegmentLosses(line, points, s).minor = SumOver(k)
      BY DEF SegmentLosses, Intervals, Inside
    <3>2. minor[s] = SegmentLosses(line, points, s).minor
      BY DEF MinorOf, N
    <3> QED
      BY ONLY <3>1, <3>2, Zenon
  <2>2. E \in SUBSET F /\ IsFiniteSet(E) /\ \A f \in F : f \in E <=> f[1] = s
    <3>1. E \in SUBSET F /\ \A f \in F : f \in E <=> f[1] = s
      BY DEF Class
    <3> QED
      BY <1>2, <3>1, FS_Subset
  <2> HIDE DEF mean
  <2>3. \A j \in D : g[j] \in E /\ g[j] \in F /\ g[j][1] = s /\ g[j][2] = j
    BY <1>4, <2>2
  <2>4. \A f \in E : \E j \in D : g[j] = f
    <3> SUFFICES ASSUME NEW f \in E PROVE \E j \in D : g[j] = f
      OBVIOUS
    <3>1. f \in F /\ f[1] = s
      BY <2>2
    <3>2. PICK t \in 1..N : \E j \in DOMAIN line.segments[t].fittings : f = <<t, j>>
      BY <1>4, <3>1
    <3>3. t = s
      BY <3>1, <3>2
    <3> QED
      BY <3>2, <3>3
  <2>5. IsFiniteSet(D)
    <3>1. segment.fittings \in Seq(FittingType)
      BY <1>3 DEF SegmentType
    <3>2. \A q \in Seq(FittingType) : DOMAIN q = 1..Len(q) /\ Len(q) \in Nat
      OBVIOUS
    <3> HIDE DEF segment
    <3> QED
      BY <3>1, <3>2, FS_Interval
  <2>6. ASSUME NEW j \in D PROVE k[j] = h[g[j]]
    <3> DEFINE f == <<s, j>>
               i == index[f]
               c == PlaceOf(line, f)
    <3>1. f \in F /\ f \in E /\ f[1] = s /\ f[2] = j /\ g[j] = f
      BY <2>3
    <3>2. FittingOf(line, f) = segment.fittings[j] /\ c = FittingAt(segment, segment.fittings[j])
      BY <3>1 DEF FittingOf, PlaceOf
    <3>3. i \in 1..n /\ grid[i] = c /\ segment.from <= grid[i] /\ grid[i] <= segment.to
      BY <1>2, <3>1
    <3>4. i \in Inside(segment, points) /\ points[i].at = c
      BY <1>1, <3>3 DEF Inside
    <3>5. \A x \in Inside(segment, points) : points[x].at = c => x = i
      BY <1>1, <3>3 DEF Inside
    <3> DEFINE x0 == CHOOSE x \in Inside(segment, points) : points[x].at = c
    <3>6. x0 = i
      <4>1. x0 \in Inside(segment, points) /\ points[x0].at = c
        <5> HIDE DEF i, c
        <5> QED
          BY <3>4
      <4> HIDE DEF x0
      <4> QED
        BY <3>5, <4>1
    <3>7. flowAt(c) = points[i].flow
      <4>1. \E x \in Inside(segment, points) : points[x].at = c
        BY <3>4
      <4>2. flowAt(c) = points[x0].flow
        BY <4>1
      <4> HIDE DEF flowAt, x0, i, c
      <4> QED
        BY <3>6, <4>2
    <3>8. loss[f] = Drop(EffectiveK(segment.fittings[j]), points[i].flow * segment.speed)
      BY <1>5, <3>1, <3>2
    <3>9. k[j] = Drop(EffectiveK(segment.fittings[j]), flowAt(c) * segment.speed)
      BY <3>2
    <3>10. h[f] = loss[f]
      BY <3>1
    <3> HIDE DEF k, h, flowAt, f, i, c, segment
    <3> QED
      BY <3>1, <3>7, <3>8, <3>9, <3>10
  <2>7. h \in [E -> Int]
    BY <1>2, <2>2
  <2>8. k \in [D -> Int]
    <3>1. \A j \in D : k[j] \in Int
      <4> HIDE DEF k, h, g, E, D
      <4> QED
        BY <2>3, <2>6, <2>7
    <3> HIDE DEF flowAt
    <3> QED
      BY <3>1
  <2>9. g \in [D -> E] /\ \A i, j \in D : g[i] = g[j] => i = j
    <3>1. \A i, j \in D : g[i] = g[j] => i = j
      <4> SUFFICES ASSUME NEW i \in D, NEW j \in D, g[i] = g[j] PROVE i = j
        OBVIOUS
      <4>1. g[i][2] = i /\ g[j][2] = j
        BY <2>3
      <4> HIDE DEF g
      <4> QED
        BY <4>1
    <3>2. g \in [D -> E]
      BY <2>3
    <3> QED
      BY <3>1, <3>2
  <2> HIDE DEF k, h, g, D, E
  <2>10. Reindexes(k, h, D, E, g)
    BY <2>2, <2>4, <2>5, <2>6, <2>7, <2>8, <2>9 DEF Reindexes
  <2>11. SumOver(k) = SumOver(h)
    BY <2>10, SumReindexed
  <2>12. SumOver(h) = PartOf(loss, E)
    BY DEF PartOf, h
  <2>13. SumOver(h) \in Int
    BY <2>2, <2>7, SumTerm
  <2> QED
    BY <2>1, <2>11, <2>12, <2>13 DEF E
<1>7. of \in [F -> 1..N]
  BY <1>2
<1>8. minor \in [1..N -> Int]
  <2>1. minor = [s \in 1..N |-> minor[s]]
    BY DEF MinorOf, N
  <2> HIDE DEF minor
  <2> QED
    BY <1>6, <2>1
<1>9. IsFiniteSet(1..N)
  BY <1>3, FS_Interval
<1> HIDE DEF minor, of
<1>10. SumsByClass(minor, loss, F, 1..N, of)
  BY <1>2, <1>6, <1>7, <1>8, <1>9 DEF SumsByClass
<1>11. SumOver(minor) = SumOver(loss)
  BY <1>10, SumOfClasses
<1> QED
  BY <1>8, <1>11 DEF minor, loss, N

\* The head that enters, gains and reported losses give the head that leaves.
LEMMA LossesBalance ==
    ASSUME LineInv
    PROVE  LossesAccountForHead
<1> SUFFICES ASSUME HasResults, ~simulated.march.clamped, FittingsInPlace(Resolved(study))
             PROVE  LossesAccountForHead
  BY DEF LossesAccountForHead
<1>1. PICK line, grid : ResultParts(study, simulated, line, grid)
  BY ResultIsMade
<1> DEFINE march == simulated.march
           points == march.points
           step == study.scenario.step
           N == Len(line.segments)
           friction == FrictionOf(line, points)
           minor == MinorOf(line, points)
           lost == [s \in DOMAIN simulated.losses |-> simulated.losses[s].friction + simulated.losses[s].minor]
           e == points[1].elevation
           g == Gained(march.passages)
           a == SumOver(FittingLosses(line, grid, points))
           b == SumOver(IntervalLosses(line, grid, points))
<1>2. HasPoints(line, study.state.vapour, step, grid, simulated.flow, points)
  BY <1>1, ResultPoints
<1>3. /\ line \in LineType /\ IsChain(line) /\ line = Resolved(study) /\ step \in Nat \ {0}
      /\ study.state.vapour \in Int /\ study.scenario.gravity \in BOOLEAN
      /\ simulated.flow \in Int /\ simulated.inlet \in Int
      /\ march = MarchAlong(line, study, grid, simulated.flow, simulated.inlet)
      /\ simulated.losses = LossesOf(line, points)
  BY <1>1 DEF ResultParts
<1>4. DOMAIN line.segments = 1..N /\ N \in Nat \ {0} /\ IsFiniteSet(1..N)
  BY <1>3, LineParts, FS_Interval
<1> HIDE DEF march, step
<1>5. line \in LineType /\ IsChain(line) /\ step \in Nat \ {0}
  BY <1>3
<1>6. HeadBalances(line, grid, simulated.inlet, march)
  BY ONLY <1>2, <1>3, MarchBalances, Zenon DEF points
<1>7. GridOver(line, step, grid, points)
  BY ONLY <1>2, <1>5, GridParts, Zenon
<1>8. FittingsPlaced(line, grid, points)
  <2>1. FittingsInPlace(line)
    BY <1>3
  <2> QED
    BY ONLY <1>5, <1>7, <2>1, PlacesFound, Zenon
<1>9. friction \in [1..N -> Int] /\ SumOver(friction) = b
  BY ONLY <1>5, <1>7, FrictionReported, Zenon
<1>10. a = SumOver(EachLoss(line, grid, points))
  BY ONLY <1>5, <1>7, <1>8, FittingLossesByPoint, Zenon
<1>11. minor \in [1..N -> Int] /\ SumOver(minor) = a
  <2>1. minor \in [1..N -> Int] /\ SumOver(minor) = SumOver(EachLoss(line, grid, points))
    BY ONLY <1>5, <1>7, <1>8, MinorReported, Zenon
  <2> QED
    BY ONLY <1>10, <2>1, Zenon
<1>12. SumOver(lost) = b + a
  <2>1. ASSUME NEW s \in 1..N PROVE lost[s] = friction[s] + minor[s]
    <3>1. lost[s] = SegmentLosses(line, points, s).friction + SegmentLosses(line, points, s).minor
      BY <1>3, <1>4 DEF LossesOf
    <3>2. friction[s] = SegmentLosses(line, points, s).friction /\ minor[s] = SegmentLosses(line, points, s).minor
      BY Zenon DEF FrictionOf, MinorOf
    <3> QED
      BY ONLY <3>1, <3>2, Zenon
  <2>2. DOMAIN lost = 1..N /\ lost = [s \in DOMAIN lost |-> lost[s]]
    BY <1>3, <1>4 DEF LossesOf
  <2> HIDE DEF lost, friction, minor, a, b, N
  <2>3. \A s \in 1..N : lost[s] \in Int
    BY <1>9, <1>11, <2>1
  <2>4. lost \in [1..N -> Int]
    BY <2>2, <2>3
  <2>5. Adds(lost, friction, minor, 1..N)
    BY <1>4, <1>9, <1>11, <2>1, <2>4 DEF Adds
  <2>6. SumOver(lost) = SumOver(friction) + SumOver(minor)
    BY ONLY <2>5, SumPlus
  <2> QED
    BY ONLY <1>9, <1>11, <2>6, Zenon
<1>13. /\ a \in Int /\ b \in Int /\ e \in Int /\ g \in Int
       /\ Outlet(march).grade = e + simulated.inlet + g - (a + b)
  <2>1. IsFiniteSet(1..Len(grid))
    <3>1. Len(grid) \in Nat \ {0}
      BY <1>7 DEF GridOver
    <3> QED
      BY <3>1, FS_Interval
  <2>2. /\ FittingLosses(line, grid, points) \in [1..Len(grid) -> Int]
        /\ IntervalLosses(line, grid, points) \in [1..Len(grid) -> Int]
        /\ e \in Int /\ g \in Int
    BY <1>6 DEF HeadBalances
  <2>3. a \in Int /\ b \in Int
    BY ONLY <2>1, <2>2, SumTerm
  <2>4. Outlet(march).grade = e + simulated.inlet + g - (a + b)
    BY <1>6 DEF HeadBalances, march
  <2> QED
    BY ONLY <2>2, <2>3, <2>4, Zenon
<1> HIDE DEF a, b, e, lost
<1>14. Outlet(march).grade = e + simulated.inlet + g - SumOver(lost)
  <2> HIDE DEF g
  <2> QED
    BY <1>3, <1>12, <1>13
<1> QED
  BY ONLY <1>14, Zenon DEF LossesAccountForHead, e, g, lost, points, march, Gained

\* What a result reports follows from the march, whatever line it was computed for.
THEOREM ResultAccounts == LineSpec => []ResultAccountsForLine
<1>1. LineInv => ResultAccountsForLine
  BY FlowsConserved, LossesBalance, ZonesCover DEF ResultAccountsForLine
<1> QED
  BY <1>1, ResultsAreBuilt, PTL

(***************************************************************************)
(* Tables of which the values fall.                                        *)
(***************************************************************************)
\* The integer part of a quotient grows with what is divided.
LEMMA Quotient ==
    ASSUME NEW a \in Int, NEW d \in Nat \ {0}
    PROVE  a \div d \in Int /\ (a \div d) * d <= a /\ a < (a \div d) * d + d
BY Z3

\* A quotient is at least what was multiplied.
LEMMA QuotientAtLeast ==
    ASSUME NEW a \in Int, NEW d \in Nat \ {0}, NEW c \in Int, c * d <= a
    PROVE  c <= a \div d
<1> DEFINE q == a \div d
<1>1. q \in Int /\ a < q * d + d
  BY Quotient
<1> HIDE DEF q
<1>2. c * d < (q + 1) * d
  BY <1>1, Z3
<1>3. c < q + 1
  BY <1>1, <1>2, Z3
<1> QED
  BY <1>1, <1>3 DEF q

\* A quotient grows with what is divided.
LEMMA QuotientGrows ==
    ASSUME NEW a \in Int, NEW b \in Int, a <= b, NEW d \in Nat \ {0}
    PROVE  a \div d <= b \div d
<1> DEFINE q == a \div d
<1>1. q \in Int /\ q * d <= a
  BY Quotient
<1> HIDE DEF q
<1>2. q * d <= b
  BY <1>1, Z3
<1> QED
  BY <1>1, <1>2, QuotientAtLeast DEF q

\* Between two points of which the second is lower, the interpolation falls.
Between(a, b, x) == a[2] + ((x - a[1]) * (b[2] - a[2])) \div (b[1] - a[1])

\* Its value, and where it stands between those of the two points.
LEMMA FallsBetween ==
    ASSUME NEW a \in Int \X Int, NEW b \in Int \X Int, a[1] < b[1], b[2] < a[2],
           NEW x \in Int, NEW y \in Int
    PROVE  /\ Between(a, b, x) \in Int
           /\ x <= y => Between(a, b, y) <= Between(a, b, x)
           /\ x <= b[1] => b[2] <= Between(a, b, x)
           /\ a[1] <= x => Between(a, b, x) <= a[2]
<1> DEFINE d == b[1] - a[1]
           s == b[2] - a[2]
           p == (x - a[1]) * s
           r == (y - a[1]) * s
<1>1. a[1] \in Int /\ a[2] \in Int /\ b[1] \in Int /\ b[2] \in Int
  OBVIOUS
<1>2. d \in Nat \ {0} /\ s \in Int /\ s < 0 /\ p \in Int /\ r \in Int
  BY <1>1
<1>3. Between(a, b, x) = a[2] + p \div d /\ Between(a, b, y) = a[2] + r \div d
  BY DEF Between
<1>4. p \div d \in Int /\ r \div d \in Int
  <2> HIDE DEF p, r, d
  <2> QED
    BY <1>2, Quotient
<1>5. ASSUME x <= y PROVE r \div d <= p \div d
  <2>1. r <= p
    <3> HIDE DEF s
    <3> QED
      BY <1>1, <1>2, <1>5, Z3
  <2> HIDE DEF p, r, d
  <2> QED
    BY <1>2, <2>1, QuotientGrows
<1>6. ASSUME x <= b[1] PROVE s <= p \div d
  <2>1. s * d <= p
    <3>1. x - a[1] <= d /\ x - a[1] \in Int
      BY <1>1, <1>6
    <3> DEFINE e == x - a[1]
    <3>2. p = e * s
      OBVIOUS
    <3> HIDE DEF s, d, e, p
    <3> QED
      BY <1>2, <3>1, <3>2, Z3 DEF e
  <2> HIDE DEF p, r, d, s
  <2> QED
    BY <1>2, <2>1, QuotientAtLeast
<1>7. ASSUME a[1] <= x PROVE p \div d <= 0
  <2>1. p <= 0
    <3>1. x - a[1] >= 0 /\ x - a[1] \in Int
      BY <1>1, <1>7
    <3> HIDE DEF s
    <3> QED
      BY <1>2, <3>1, Z3
  <2> DEFINE q == p \div d
  <2>2. q \in Int /\ q * d <= p
    <3> HIDE DEF p, d
    <3> QED
      BY <1>2, Quotient
  <2> HIDE DEF p, q, d
  <2> QED
    BY <1>2, <2>1, <2>2, Z3
<1> DEFINE u == p \div d
           v == r \div d
<1> HIDE DEF u, v
<1>8. u \in Int /\ v \in Int /\ (x <= y => v <= u) /\ (a[1] <= x => u <= 0) /\ (x <= b[1] => b[2] - a[2] <= u)
      /\ Between(a, b, x) = a[2] + u /\ Between(a, b, y) = a[2] + v
  BY <1>3, <1>4, <1>5, <1>6, <1>7 DEF u, v
<1> QED
  BY <1>1, <1>8

\* A table of which the points fall is a falling function, beyond its ends too.
LEMMA FallingTable ==
    ASSUME NEW t \in Curves, Decreasing(t), NEW x \in Int, NEW y \in Int, x <= y
    PROVE  Evaluate(t, y) <= Evaluate(t, x)
<1> DEFINE i == Interval(t, x)
           j == Interval(t, y)
           n == Len(t)
<1>1. /\ n \in Nat /\ n >= 2 /\ \A k \in 1..n : t[k] \in Int \X Int /\ X(t, k) = t[k][1] /\ Y(t, k) = t[k][2]
      /\ \A k \in 1..(n - 1) : X(t, k) < X(t, k + 1)
  BY TablePoints DEF X, Y, Curves
<1>2. \A k \in 1..(n - 1) : Y(t, k + 1) < Y(t, k)
  BY <1>1 DEF Decreasing
<1>3. \A k, l \in 1..n : k <= l => X(t, k) <= X(t, l) /\ Y(t, l) <= Y(t, k)
  <2> DEFINE f == [k \in 1..n |-> X(t, k)]
             g == [k \in 1..n |-> -Y(t, k)]
  <2>1. \A k \in 1..n : f[k] \in Int /\ g[k] \in Int /\ X(t, k) \in Int /\ Y(t, k) \in Int
    BY <1>1
  <2>2. \A k \in 2..n : f[k - 1] < f[k] /\ g[k - 1] < g[k]
    <3> SUFFICES ASSUME NEW k \in 2..n PROVE f[k - 1] < f[k] /\ g[k - 1] < g[k]
      OBVIOUS
    <3>1. k - 1 \in 1..(n - 1) /\ (k - 1) + 1 = k /\ k - 1 \in 1..n /\ k \in 1..n
      BY <1>1
    <3>2. X(t, k - 1) < X(t, k) /\ Y(t, k) < Y(t, k - 1)
      BY <1>1, <1>2, <3>1
    <3>3. f[k - 1] = X(t, k - 1) /\ f[k] = X(t, k) /\ g[k - 1] = -Y(t, k - 1) /\ g[k] = -Y(t, k)
      BY <3>1
    <3> HIDE DEF f, g, n
    <3> QED
      BY <2>1, <3>1, <3>2, <3>3
  <2>3. (\A k, l \in 1..n : k < l => f[k] < f[l]) /\ (\A k, l \in 1..n : k < l => g[k] < g[l])
    <3> HIDE DEF f, g, n
    <3> QED
      BY <1>1, <2>1, <2>2, IncreasingByOne
  <2>4. \A k, l \in 1..n : k < l => X(t, k) < X(t, l) /\ -Y(t, k) < -Y(t, l)
    BY <2>3
  <2> HIDE DEF n
  <2> QED
    BY <1>1, <2>1, <2>4
<1>4. /\ i \in 1..(n - 1) /\ j \in 1..(n - 1)
      /\ i = n - 1 \/ x < X(t, i + 1)
      /\ i = 1 \/ X(t, i) <= x
      /\ j = 1 \/ X(t, j) <= y
      /\ j = n - 1 \/ y < X(t, j + 1)
  BY IntervalFound
<1>5. Evaluate(t, x) = Between(t[i], t[i + 1], x) /\ Evaluate(t, y) = Between(t[j], t[j + 1], y)
  BY DEF Evaluate, Between, X, Y
<1> HIDE DEF i, j, n
<1>6. /\ i \in 1..n /\ i + 1 \in 1..n /\ j \in 1..n /\ j + 1 \in 1..n
  BY <1>1, <1>4
<1>7. /\ t[i] \in Int \X Int /\ t[i + 1] \in Int \X Int /\ t[i][1] < t[i + 1][1] /\ t[i + 1][2] < t[i][2]
      /\ t[j] \in Int \X Int /\ t[j + 1] \in Int \X Int /\ t[j][1] < t[j + 1][1] /\ t[j + 1][2] < t[j][2]
  BY <1>1, <1>2, <1>4, <1>6
<1>8. CASE i = j
  <2>1. Between(t[i], t[i + 1], y) <= Between(t[i], t[i + 1], x)
    BY <1>7, FallsBetween
  <2> QED
    BY <1>5, <1>8, <2>1
<1>9. CASE i < j
  <2>1. i + 1 <= j /\ i # n - 1 /\ j # 1
    BY <1>1, <1>4, <1>9
  <2>2. x <= t[i + 1][1] /\ t[j][1] <= y
    BY <1>1, <1>4, <1>6, <2>1
  <2>3. t[i + 1][2] <= Between(t[i], t[i + 1], x) /\ Between(t[i], t[i + 1], x) \in Int
    BY <1>7, <2>2, FallsBetween
  <2>4. Between(t[j], t[j + 1], y) <= t[j][2] /\ Between(t[j], t[j + 1], y) \in Int
    BY <1>7, <2>2, FallsBetween
  <2>5. t[j][2] <= t[i + 1][2] /\ t[j][2] \in Int /\ t[i + 1][2] \in Int
    BY <1>1, <1>3, <1>6, <2>1
  <2> QED
    BY <1>5, <2>3, <2>4, <2>5
<1>10. CASE j < i
  <2>1. j + 1 <= i /\ j # n - 1 /\ i # 1
    BY <1>1, <1>4, <1>10
  <2>2. y < X(t, j + 1) /\ X(t, i) <= x /\ X(t, j + 1) <= X(t, i) /\ X(t, i) \in Int /\ X(t, j + 1) \in Int
    BY <1>1, <1>3, <1>4, <1>6, <2>1
  <2> QED
    BY <2>2
<1> QED
  BY <1>4, <1>8, <1>9, <1>10

(***************************************************************************)
(* The characteristics of pumps, groups and stations fall.                 *)
(***************************************************************************)
\* The head of a pump at its speed.
LEMMA PumpHeadFalls ==
    ASSUME NEW pump \in PumpType, NEW flow \in Int, NEW more \in Int, flow <= more
    PROVE  PumpHead(pump, more) <= PumpHead(pump, flow)
<1> DEFINE at == EquivalentFlow(pump, flow)
           beyond == EquivalentFlow(pump, more)
           high == Evaluate(pump.curve, at)
           low == Evaluate(pump.curve, beyond)
           a == Raised(pump.speed, 2)
           b == Raised(FullSpeed, 2)
<1>1. /\ pump.curve \in Curves /\ Decreasing(pump.curve) /\ pump.speed \in Nat \ {0} /\ FullSpeed \in Nat \ {0}
  BY StationAssumption DEF PumpType
<1>2. at \in Int /\ beyond \in Int
  BY EquivalentFlowType
<1>3. at <= beyond
  <2>1. flow * FullSpeed <= more * FullSpeed
    BY <1>1, Z3
  <2>2. flow * FullSpeed \in Int /\ more * FullSpeed \in Int
    BY <1>1
  <2> DEFINE f == flow * FullSpeed
             g == more * FullSpeed
  <2>3. f \div pump.speed <= g \div pump.speed
    <3> HIDE DEF f, g
    <3> QED
      BY <1>1, <2>1, <2>2, QuotientGrows DEF f, g
  <2> QED
    BY <2>3 DEF EquivalentFlow
<1>4. high \in Int /\ low \in Int /\ low <= high
  <2> HIDE DEF at, beyond
  <2> QED
    BY <1>1, <1>2, <1>3, TableValue, FallingTable
<1>5. a \in Nat \ {0} /\ b \in Nat \ {0}
  BY <1>1, SpeedRaised
<1>6. (low * a) \div b \in Int /\ (high * a) \div b \in Int /\ (low * a) \div b <= (high * a) \div b
  <2> HIDE DEF low, high, a, b
  <2> DEFINE f == low * a
             g == high * a
  <2>1. f \in Int /\ g \in Int /\ f <= g
    BY <1>4, <1>5, Z3
  <2> HIDE DEF f, g
  <2>2. f \div b \in Int /\ g \div b \in Int /\ f \div b <= g \div b
    BY <1>5, <2>1, QuotientGrows, Quotient
  <2> QED
    BY <2>2 DEF f, g
<1>7. /\ PumpHead(pump, flow) = Above0((high * a) \div b)
      /\ PumpHead(pump, more) = Above0((low * a) \div b)
  BY DEF PumpHead, AtSpeed
<1> HIDE DEF low, high, a, b
<1> QED
  BY <1>6, <1>7 DEF Above0

\* The head of a group, the sum of those of its running pumps.
LEMMA GroupHeadFalls ==
    ASSUME NEW group \in Groups, NEW flow \in Int, NEW more \in Int, flow <= more
    PROVE  GroupHead(group, more) <= GroupHead(group, flow)
<1> DEFINE D == ActivePumps(group)
           f == [p \in D |-> PumpHead(p, more)]
           g == [p \in D |-> PumpHead(p, flow)]
<1>1. IsFiniteSet(D) /\ D \subseteq PumpType
  BY FS_Subset DEF ActivePumps, Groups
<1>2. f \in [D -> Int] /\ g \in [D -> Int] /\ \A p \in D : f[p] <= g[p]
  BY <1>1, PumpHeadType, PumpHeadFalls
<1>3. SumOver(f) <= SumOver(g)
  <2> HIDE DEF f, g, D
  <2> QED
    BY <1>1, <1>2, SumMonotone
<1> QED
  BY <1>3 DEF GroupHead

\* The groups of a station that run.
LEMMA GroupsOfStation ==
    ASSUME NEW station, station.groups \in Seq(Groups)
    PROVE  IsFiniteSet(ActiveGroups(station)) /\ \A i \in ActiveGroups(station) : station.groups[i] \in Groups
<1>1. /\ DOMAIN station.groups = 1..Len(station.groups) /\ Len(station.groups) \in Nat
      /\ \A i \in DOMAIN station.groups : station.groups[i] \in Groups
  OBVIOUS
<1>2. IsFiniteSet(DOMAIN station.groups)
  BY <1>1, FS_Interval
<1> QED
  BY <1>1, <1>2, FS_Subset DEF ActiveGroups

\* What they give at no flow, and carry at a head.
LEMMA HeadsOfStation ==
    ASSUME NEW station, station.groups \in Seq(Groups), ActiveGroups(station) # {}
    PROVE  /\ HighestHead(station) \in Nat
           /\ \A i \in ActiveGroups(station) : GroupHead(station.groups[i], 0) <= HighestHead(station)
           /\ \A h \in Int : TotalFlowAt(station, h) \in Nat
<1> DEFINE D == ActiveGroups(station)
           S == {GroupHead(station.groups[i], 0) : i \in D}
           f == [i \in D |-> GroupHead(station.groups[i], 0)]
           flows(h) == [i \in D |-> GroupFlowAtHead(station.groups[i], h)]
<1>1. IsFiniteSet(D) /\ D # {} /\ \A i \in D : station.groups[i] \in Groups
  BY GroupsOfStation
<1>2. IsFiniteSet(S)
  <2>1. S = {f[i] : i \in D}
    OBVIOUS
  <2> HIDE DEF f, S
  <2> QED
    BY <1>1, <2>1, FiniteImage
<1>3. S # {} /\ S \subseteq Nat
  BY <1>1, GroupHeadType
<1>4. Max(S) \in S /\ \A x \in S : x <= Max(S)
  <2>1. S \subseteq Int
    BY <1>3
  <2> HIDE DEF S
  <2> QED
    BY <1>2, <1>3, <2>1, MaxOf
<1>5. ASSUME NEW h \in Int PROVE TotalFlowAt(station, h) \in Nat
  <2>1. flows(h) \in [D -> Nat]
    BY <1>1, GroupFlowType
  <2>2. SumOver(flows(h)) \in Nat
    <3> HIDE DEF flows, D
    <3> QED
      BY <1>1, <2>1, SumNatural
  <2> QED
    BY <2>2 DEF TotalFlowAt
<1> QED
  BY <1>3, <1>4, <1>5 DEF HighestHead

\* The heads at which the groups in parallel carry a flow, of which the station takes the last.
Reachable(station, flow) == {h \in 0..HighestHead(station) : TotalFlowAt(station, h) >= flow}

\* The head a station reports is the last one at which its groups carry the flow.
LEMMA SharedHead ==
    ASSUME NEW station, station.groups \in Seq(Groups), ActiveGroups(station) # {},
           NEW flow \in Int, flow > 0, ~(TotalFlowAt(station, 0) < flow)
    PROVE  /\ ParallelHead(station, flow) \in Reachable(station, flow)
           /\ \A h \in Reachable(station, flow) : h <= ParallelHead(station, flow)
<1> DEFINE S == Reachable(station, flow)
<1>1. HighestHead(station) \in Nat /\ TotalFlowAt(station, 0) \in Nat
  BY HeadsOfStation
<1>2. 0 \in S /\ S \subseteq Int
  BY <1>1 DEF Reachable
<1>3. IsFiniteSet(S)
  <2>1. IsFiniteSet(0..HighestHead(station))
    BY <1>1, FS_Interval
  <2> QED
    BY <2>1, FS_Subset DEF Reachable
<1>4. Max(S) \in S /\ \A h \in S : h <= Max(S)
  <2> HIDE DEF S
  <2> QED
    BY <1>2, <1>3, MaxOf
<1>5. ParallelHead(station, flow) = Max(S)
  BY DEF ParallelHead, Reachable
<1> QED
  BY <1>4, <1>5

\* The head of a station does not rise with one more unit of flow.
LEMMA StationHeadFalls ==
    ASSUME NEW station, station.groups \in Seq(Groups), NEW flow \in Nat
    PROVE  StationHead(station, flow + 1) <= StationHead(station, flow)
<1> DEFINE D == ActiveGroups(station)
           heads(q) == [i \in D |-> GroupHead(station.groups[i], q)]
           more == flow + 1
<1>1. IsFiniteSet(D) /\ \A i \in D : station.groups[i] \in Groups
  BY GroupsOfStation
<1>2. StationHead(station, flow) \in Nat /\ StationHead(station, more) \in Nat
  BY StationHeadType
<1>3. CASE D = {}
  BY <1>3 DEF StationHead
<1>4. CASE D # {} /\ InSeries(station)
  <2>1. heads(more) \in [D -> Int] /\ heads(flow) \in [D -> Int] /\ \A i \in D : heads(more)[i] <= heads(flow)[i]
    BY <1>1, GroupHeadType, GroupHeadFalls
  <2>2. SumOver(heads(more)) <= SumOver(heads(flow))
    <3> HIDE DEF heads, D
    <3> QED
      BY <1>1, <2>1, SumMonotone
  <2> QED
    BY <1>4, <2>2 DEF StationHead
<1>5. CASE D # {} /\ ~InSeries(station)
  <2>1. StationHead(station, flow) = ParallelHead(station, flow) /\ StationHead(station, more) = ParallelHead(station, more)
    BY <1>5 DEF StationHead
  <2>2. /\ HighestHead(station) \in Nat /\ TotalFlowAt(station, 0) \in Nat
    BY <1>5, HeadsOfStation
  <2>3. CASE TotalFlowAt(station, 0) < more
    <3>1. ParallelHead(station, more) = 0
      BY <2>3 DEF ParallelHead
    <3> QED
      BY <1>2, <2>1, <3>1
  <2>4. CASE ~(TotalFlowAt(station, 0) < more)
    <3>1. ParallelHead(station, more) \in Reachable(station, more)
      BY <1>5, <2>4, SharedHead
    <3>2. CASE flow = 0
      <4>1. ParallelHead(station, flow) = HighestHead(station)
        BY <3>2 DEF ParallelHead
      <4> QED
        BY <2>1, <2>2, <3>1, <4>1 DEF Reachable
    <3>3. CASE flow > 0
      <4>1. \A h \in Int : TotalFlowAt(station, h) \in Nat
        BY <1>5, HeadsOfStation
      <4>2. ParallelHead(station, more) \in Reachable(station, flow)
        BY <2>2, <3>1, <4>1 DEF Reachable
      <4>3. \A h \in Reachable(station, flow) : h <= ParallelHead(station, flow)
        BY <1>5, <2>2, <2>4, <3>3, SharedHead
      <4> QED
        BY <2>1, <4>2, <4>3
    <3> QED
      BY <3>2, <3>3
  <2> QED
    BY <2>3, <2>4
<1> QED
  BY <1>3, <1>4, <1>5

(***************************************************************************)
(* Groups in parallel.                                                     *)
(***************************************************************************)

\* A unit of flow always costs a unit of head: the curves, which strictly fall, are read in
\* a unit of head that is small enough, and no group gives any head at the largest flow.
FallsByUnits(group) ==
    /\ \A q \in Nat \ {0} : GroupHead(group, q) > 0 => GroupHead(group, q) < GroupHead(group, q - 1)
    /\ GroupHead(group, LargestFlow) = 0

\* What a group carries at a head, and at the next one.
LEMMA FlowFound ==
    ASSUME NEW group \in Groups, FallsByUnits(group), NEW h \in Nat
    PROVE  /\ GroupFlowAtHead(group, h) \in Nat
           /\ GroupFlowAtHead(group, h) > 0 => GroupHead(group, GroupFlowAtHead(group, h)) > h
           /\ GroupHead(group, GroupFlowAtHead(group, h) + 1) <= h
           /\ GroupHead(group, 0) <= h => GroupFlowAtHead(group, h) = 0
           /\ GroupFlowAtHead(group, h) <= GroupFlowAtHead(group, h + 1) + 1
<1> DEFINE Flow(k) == GroupFlowAtHead(group, k)
<1>1. /\ LargestFlow \in Nat /\ \A q \in Int : GroupHead(group, q) \in Nat
      /\ \A q, more \in Int : q <= more => GroupHead(group, more) <= GroupHead(group, q)
  BY StationAssumption, GroupHeadType, GroupHeadFalls
<1>2. ASSUME NEW k \in Nat
      PROVE  /\ Flow(k) \in Nat /\ GroupHead(group, Flow(k) + 1) <= k
             /\ GroupHead(group, 0) <= k => Flow(k) = 0
             /\ k < GroupHead(group, 0) => GroupHead(group, Flow(k)) > k
  <2>1. Flow(k) \in 0..LargestFlow
    BY GroupFlowType
  <2>2. CASE GroupHead(group, 0) <= k
    <3>1. Flow(k) = 0
      BY <1>1, <2>2 DEF GroupFlowAtHead
    <3>2. GroupHead(group, 1) <= GroupHead(group, 0) /\ GroupHead(group, 1) \in Nat /\ GroupHead(group, 0) \in Nat
      BY <1>1
    <3> QED
      BY <2>2, <3>1, <3>2
  <2>3. CASE k < GroupHead(group, 0)
    <3>1. GroupHead(group, Flow(k)) > k /\ (Flow(k) = LargestFlow \/ GroupHead(group, Flow(k) + 1) <= k)
      BY <2>3, GroupFlowType
    <3>2. Flow(k) # LargestFlow
      BY <3>1 DEF FallsByUnits
    <3> QED
      BY <1>1, <2>1, <2>3, <3>1, <3>2
  <2> QED
    BY <1>1, <2>2, <2>3
<1>3. ASSUME Flow(h) > 0 PROVE GroupHead(group, Flow(h)) > h
  <2>1. GroupHead(group, 0) \in Nat /\ ~(GroupHead(group, 0) <= h)
    BY <1>1, <1>2, <1>3
  <2> HIDE DEF Flow
  <2> QED
    BY <1>2, <2>1
<1>4. Flow(h) <= Flow(h + 1) + 1
  <2> DEFINE r == Flow(h)
             s == Flow(h + 1)
  <2>1. r \in Nat /\ s \in Nat /\ GroupHead(group, s + 1) <= h + 1
    BY <1>2
  <2>2. SUFFICES ASSUME r > s + 1 PROVE FALSE
    BY <2>1
  <2>3. GroupHead(group, r) > h
    BY <1>3, <2>1, <2>2
  <2> HIDE DEF r, s
  <2>4. r \in Nat \ {0} /\ r - 1 \in Int /\ s + 1 \in Int /\ s + 1 <= r - 1
    BY <2>1, <2>2
  <2>5. GroupHead(group, r) > 0 /\ GroupHead(group, r) < GroupHead(group, r - 1)
    BY <1>1, <2>3, <2>4 DEF FallsByUnits
  <2>6. GroupHead(group, r - 1) <= GroupHead(group, s + 1)
    BY <1>1, <2>4
  <2>7. GroupHead(group, r) \in Nat /\ GroupHead(group, r - 1) \in Nat /\ GroupHead(group, s + 1) \in Nat
    BY <1>1, <2>4
  <2> QED
    BY <2>1, <2>3, <2>5, <2>6, <2>7
<1> QED
  BY <1>2, <1>3, <1>4

\* A part of a quantity, rounded down: what is carried when the total is a little less.
LEMMA SharesRounded ==
    ASSUME NEW r \in Nat, NEW q \in Nat, NEW total \in Nat, NEW n \in Nat, n > 0,
           0 < q, q <= total, r <= total, total <= q + n - 1,
           NEW share, share = IF r = 0 THEN 0 ELSE (r * q) \div total
    PROVE  /\ share \in Nat /\ share <= r /\ r < share + n
           /\ share * total <= r * q /\ r * q <= share * total + (total - 1)
<1>1. CASE r = 0
  BY <1>1, Z3
<1>2. CASE r # 0
  <2> DEFINE a == r * q
             d == total
  <2>1. a \in Int /\ d \in Nat \ {0}
    OBVIOUS
  <2>2. share \in Int /\ share * d <= a /\ a < share * d + d
    <3>1. share = a \div d
      BY <1>2
    <3> HIDE DEF a, d
    <3> QED
      BY <2>1, <3>1, Quotient
  <2>3. share >= 0
    <3>1. 0 <= r * q
      BY Z3
    <3>2. 0 * d <= a
      BY <3>1
    <3> HIDE DEF a, d
    <3>3. 0 <= a \div d
      BY <2>1, <3>2, QuotientAtLeast
    <3> QED
      BY <1>2, <3>3 DEF a, d
  <2>4. share <= r
    <3> SUFFICES ASSUME r + 1 <= share PROVE FALSE
      BY <2>2
    <3>1. (r + 1) * total <= share * total
      BY <2>2, Z3
    <3>2. r * q <= r * total
      BY Z3
    <3> QED
      BY <2>2, <3>1, <3>2, Z3
  <2>5. r < share + n
    <3> SUFFICES ASSUME share + n <= r PROVE FALSE
      BY <2>2
    <3>1. (share + 1) * total <= (r - n + 1) * total
      BY <2>2, Z3
    <3>2. r * (n - 1) <= total * (n - 1)
      BY Z3
    <3>3. r * (total - (n - 1)) <= r * q
      BY Z3
    <3>4. (r - n + 1) * total = r * total - total * (n - 1) /\ r * (total - (n - 1)) = r * total - r * (n - 1)
      BY Z3
    <3>5. (share + 1) * total = share * total + total
      BY <2>2, Z3
    <3> DEFINE u == share * total
               v == r * q
               x == r * total
               y == total * (n - 1)
               z == r * (n - 1)
    <3>6. u \in Int /\ v \in Int /\ x \in Int /\ y \in Int /\ z \in Int
      BY <2>2
    <3>7. u + total <= x - y /\ z <= y /\ x - z <= v /\ v < u + total
      <4>1. u + total <= x - y
        BY <3>1, <3>4, <3>5
      <4>2. z <= y
        BY <3>2
      <4>3. x - z <= v
        BY <3>3, <3>4
      <4>4. v < u + total
        BY <2>2
      <4> QED
        BY <4>1, <4>2, <4>3, <4>4
    <3> HIDE DEF u, v, x, y, z
    <3> QED
      BY <3>6, <3>7
  <2>6. r * q <= share * total + (total - 1)
    <3> DEFINE u == share * total
    <3>1. u \in Int /\ a < u + total
      BY <2>2
    <3> HIDE DEF a, u
    <3>2. a <= u + (total - 1)
      BY <2>1, <3>1
    <3> QED
      BY <3>2 DEF a, u
  <2> QED
    BY <2>2, <2>3, <2>4, <2>5, <2>6
<1> QED
  BY <1>1, <1>2

\* What the groups carry at a head does not fall by more than one unit each at the next head.
LEMMA TotalFalls ==
    ASSUME NEW station, station.groups \in Seq(Groups), ActiveGroups(station) # {}, NEW h \in Nat,
           \A i \in ActiveGroups(station) : FallsByUnits(station.groups[i])
    PROVE  /\ Cardinality(ActiveGroups(station)) \in Nat \ {0}
           /\ TotalFlowAt(station, h) \in Nat /\ TotalFlowAt(station, h + 1) \in Nat
           /\ TotalFlowAt(station, h) <= TotalFlowAt(station, h + 1) + Cardinality(ActiveGroups(station))
           /\ \A i \in ActiveGroups(station) : GroupFlowAtHead(station.groups[i], h) <= TotalFlowAt(station, h)
           /\ h = HighestHead(station) => TotalFlowAt(station, h) = 0
<1> DEFINE D == ActiveGroups(station)
           n == Cardinality(D)
           flows(k) == [i \in D |-> GroupFlowAtHead(station.groups[i], k)]
           ones == [i \in D |-> 1]
           more == [i \in D |-> flows(h + 1)[i] + 1]
<1>1. IsFiniteSet(D) /\ D # {} /\ \A i \in D : station.groups[i] \in Groups
  BY GroupsOfStation
<1>2. \A k \in Int : TotalFlowAt(station, k) \in Nat /\ TotalFlowAt(station, k) = SumOver(flows(k))
  BY HeadsOfStation DEF TotalFlowAt
<1>3. flows(h) \in [D -> Nat] /\ flows(h + 1) \in [D -> Nat]
      /\ \A i \in D : flows(h)[i] <= flows(h + 1)[i] + 1
  <2>1. ASSUME NEW i \in D
        PROVE  /\ GroupFlowAtHead(station.groups[i], h) \in Nat /\ GroupFlowAtHead(station.groups[i], h + 1) \in Nat
               /\ GroupFlowAtHead(station.groups[i], h) <= GroupFlowAtHead(station.groups[i], h + 1) + 1
    <3>1. station.groups[i] \in Groups /\ FallsByUnits(station.groups[i]) /\ h + 1 \in Nat
      BY <1>1
    <3> DEFINE group == station.groups[i]
    <3> HIDE DEF group
    <3>2. GroupFlowAtHead(group, h) \in Nat /\ GroupFlowAtHead(group, h + 1) \in Nat
          /\ GroupFlowAtHead(group, h) <= GroupFlowAtHead(group, h + 1) + 1
      BY <3>1, FlowFound DEF group
    <3> QED
      BY <3>2 DEF group
  <2> QED
    BY <2>1
<1>4. n \in Nat \ {0} /\ SumOver(ones) = n
  <2>1. n \in Nat /\ n # 0
    BY <1>1, FS_EmptySet, FS_CardinalityType
  <2>2. ones \in [D -> Int] /\ \A i \in D : ones[i] = 1
    OBVIOUS
  <2>3. SumOver(ones) = n * 1
    <3> HIDE DEF ones, D
    <3> QED
      BY <1>1, <2>2, SumConstant
  <2> HIDE DEF n
  <2> QED
    BY <2>1, <2>3
<1> DEFINE f == flows(h)
           g == flows(h + 1)
<1> HIDE DEF n, flows
<1>5. SumOver(f) <= SumOver(more)
  <2>1. f \in [D -> Int] /\ more \in [D -> Int] /\ \A i \in D : f[i] <= more[i]
    BY <1>3
  <2> HIDE DEF f, more, D
  <2> QED
    BY <1>1, <2>1, SumMonotone
<1>6. SumOver(more) = SumOver(g) + SumOver(ones)
  <2>1. Adds(more, g, ones, D)
    BY <1>1, <1>3 DEF Adds
  <2> HIDE DEF more, g, ones, D
  <2> QED
    BY ONLY <2>1, SumPlus
<1>7. ASSUME NEW i \in D PROVE f[i] <= SumOver(f)
  <2>1. f \in [D -> Int]
    BY <1>3
  <2>2. Rest(f, i) \in [D \ {i} -> Int] /\ SumOver(f) = f[i] + SumOver(Rest(f, i)) /\ SumOver(f) \in Int
    <3> HIDE DEF f, D
    <3> QED
      BY <1>1, <1>7, <2>1, SumTerm
  <2>3. Rest(f, i) \in [D \ {i} -> Nat] /\ IsFiniteSet(D \ {i})
    BY <1>1, <1>3, FS_RemoveElement DEF Rest
  <2>4. SumOver(Rest(f, i)) \in Nat
    <3> HIDE DEF f, D
    <3> QED
      BY <2>3, SumNatural
  <2>5. f[i] \in Nat
    BY <1>3
  <2> HIDE DEF f
  <2> QED
    BY <2>2, <2>4, <2>5
<1>8. \A i \in D : f[i] = GroupFlowAtHead(station.groups[i], h)
  BY DEF flows
<1>9. ASSUME h = HighestHead(station) PROVE SumOver(f) = 0
  <2>1. ASSUME NEW i \in D PROVE f[i] = 0
    <3>1. GroupHead(station.groups[i], 0) <= h
      BY <1>9, HeadsOfStation
    <3> QED
      BY <1>1, <1>8, <3>1, FlowFound
  <2>2. f \in [D -> Int]
    BY <1>3
  <2>3. SumOver(f) = n * 0
    <3> HIDE DEF f, D
    <3> QED
      BY <1>1, <2>1, <2>2, SumConstant DEF n
  <2> QED
    BY <1>4, <2>3
<1>10. TotalFlowAt(station, h) = SumOver(f) /\ TotalFlowAt(station, h + 1) = SumOver(g)
       /\ TotalFlowAt(station, h) \in Nat /\ TotalFlowAt(station, h + 1) \in Nat
  BY <1>2
<1> HIDE DEF f, g, more, ones
<1>11. \A i \in D : GroupFlowAtHead(station.groups[i], h) <= TotalFlowAt(station, h)
  BY <1>7, <1>8, <1>10
<1> QED
  BY <1>4, <1>5, <1>6, <1>9, <1>10, <1>11 DEF n

\* The shares of a flow, rounded down, carry it to less than one unit each.
LEMMA SharesCarry ==
    ASSUME NEW D, IsFiniteSet(D), D # {}, NEW n, n = Cardinality(D), NEW q \in Nat, q > 0,
           NEW r \in [D -> Nat], NEW total, total = SumOver(r), q <= total, total <= q + n - 1,
           NEW f \in [D -> Nat], \A i \in D : f[i] = IF r[i] = 0 THEN 0 ELSE (r[i] * q) \div total,
           \A i \in D : r[i] <= total
    PROVE  SumOver(f) \in Nat /\ SumOver(f) <= q /\ q < SumOver(f) + n
<1> DEFINE scaled == [i \in D |-> f[i] * total]
           wanted == [i \in D |-> r[i] * q]
           slack == [i \in D |-> total - 1]
           above == [i \in D |-> scaled[i] + slack[i]]
<1>1. n \in Nat /\ n > 0 /\ total \in Nat /\ total > 0 /\ SumOver(f) \in Nat
  <2>1. n \in Nat /\ n # 0
    BY FS_EmptySet, FS_CardinalityType
  <2>2. SumOver(r) \in Nat /\ SumOver(f) \in Nat
    BY SumNatural
  <2> QED
    BY <2>1, <2>2
<1>2. ASSUME NEW i \in D
      PROVE  f[i] * total \in Int /\ r[i] * q \in Int /\ f[i] * total <= r[i] * q /\ r[i] * q <= f[i] * total + (total - 1)
  <2> DEFINE a == r[i]
             s == f[i]
  <2>1. a \in Nat /\ s \in Nat /\ a <= total /\ s = IF a = 0 THEN 0 ELSE (a * q) \div total
    OBVIOUS
  <2> HIDE DEF a, s
  <2>2. s * total <= a * q /\ a * q <= s * total + (total - 1)
    BY <1>1, <2>1, SharesRounded
  <2>3. s * total \in Int /\ a * q \in Int
    BY <1>1, <2>1
  <2> QED
    BY <2>2, <2>3 DEF a, s
<1>3. /\ scaled \in [D -> Int] /\ wanted \in [D -> Int] /\ slack \in [D -> Int] /\ above \in [D -> Int]
      /\ \A i \in D : scaled[i] <= wanted[i] /\ wanted[i] <= above[i]
  <2>1. scaled \in [D -> Int] /\ wanted \in [D -> Int] /\ \A i \in D : scaled[i] = f[i] * total /\ wanted[i] = r[i] * q
    BY <1>2
  <2>2. slack \in [D -> Int] /\ \A i \in D : slack[i] = total - 1
    BY <1>1
  <2> HIDE DEF scaled, wanted, slack
  <2>3. above \in [D -> Int] /\ \A i \in D : above[i] = f[i] * total + (total - 1)
    BY <2>1, <2>2
  <2> QED
    BY <1>2, <2>1, <2>2, <2>3
<1>4. SumOver(scaled) = SumOver(f) * total
  <2>1. Scales(scaled, f, total, D)
    BY <1>1, <1>3 DEF Scales
  <2> HIDE DEF scaled
  <2> QED
    BY ONLY <2>1, SumScaled
<1>5. SumOver(wanted) = total * q
  <2>1. Scales(wanted, r, q, D)
    BY <1>3 DEF Scales
  <2>2. SumOver(wanted) = SumOver(r) * q
    <3> HIDE DEF wanted
    <3> QED
      BY ONLY <2>1, SumScaled
  <2> QED
    BY <2>2
<1>6. SumOver(slack) = n * (total - 1)
  <2>1. total - 1 \in Int /\ \A i \in D : slack[i] = total - 1
    BY <1>1
  <2> HIDE DEF slack
  <2> QED
    BY <1>3, <2>1, SumConstant
<1>7. SumOver(above) = SumOver(scaled) + SumOver(slack)
  <2>1. Adds(above, scaled, slack, D)
    BY <1>3 DEF Adds
  <2> HIDE DEF above, scaled, slack
  <2> QED
    BY ONLY <2>1, SumPlus
<1>8. SumOver(scaled) <= SumOver(wanted) /\ SumOver(wanted) <= SumOver(above)
  <2> HIDE DEF scaled, wanted, above
  <2> QED
    BY <1>3, SumMonotone
<1> DEFINE c == SumOver(f)
<1>9. c * total <= total * q /\ total * q <= c * total + n * (total - 1)
  <2> HIDE DEF scaled, wanted, above, slack
  <2> QED
    BY <1>4, <1>5, <1>6, <1>7, <1>8
<1> HIDE DEF scaled, wanted, above, slack
<1>10. c \in Nat
  BY <1>1
<1> HIDE DEF c
<1>11. c <= q
  <2> SUFFICES ASSUME q + 1 <= c PROVE FALSE
    BY <1>10
  <2>1. (q + 1) * total <= c * total
    BY <1>1, <1>10, Z3
  <2> QED
    BY <1>1, <1>9, <1>10, <2>1, Z3
<1>12. q < c + n
  <2> SUFFICES ASSUME c + n <= q PROVE FALSE
    BY <1>1, <1>10
  <2>1. (c + n) * total <= q * total
    BY <1>1, <1>10, Z3
  <2> QED
    BY <1>1, <1>9, <1>10, <2>1, Z3
<1> QED
  BY <1>10, <1>11, <1>12 DEF c

\* The flow the groups in parallel are asked for, at the head they share.
LEMMA ParallelShares ==
    ASSUME NEW station, station.groups \in Seq(Groups), ActiveGroups(station) # {}, NEW q \in Nat, q > 0,
           \A i \in ActiveGroups(station) : FallsByUnits(station.groups[i]),
           NEW h, h = ParallelHead(station, q), h > 0,
           NEW f, f = [i \in ActiveGroups(station) |-> ShareAt(station, i, q, h)]
    PROVE  /\ SumOver(f) <= q /\ q < SumOver(f) + Cardinality(ActiveGroups(station))
           /\ \A i \in ActiveGroups(station) :
                 /\ f[i] > 0 => GroupHead(station.groups[i], f[i]) >= h
                 /\ GroupHead(station.groups[i], f[i] + Cardinality(ActiveGroups(station))) <= h
<1> DEFINE D == ActiveGroups(station)
           n == Cardinality(D)
           total == TotalFlowAt(station, h)
           r == [i \in D |-> GroupFlowAtHead(station.groups[i], h)]
<1>1. IsFiniteSet(D) /\ \A i \in D : station.groups[i] \in Groups
  BY GroupsOfStation
<1>2. HighestHead(station) \in Nat /\ \A k \in Int : TotalFlowAt(station, k) \in Nat
  BY HeadsOfStation
<1>3. ~(TotalFlowAt(station, 0) < q)
  BY DEF ParallelHead
<1>4. h \in Reachable(station, q) /\ \A k \in Reachable(station, q) : k <= h
  <2>1. q \in Int
    OBVIOUS
  <2>2. /\ ParallelHead(station, q) \in Reachable(station, q)
        /\ \A k \in Reachable(station, q) : k <= ParallelHead(station, q)
    BY <1>3, <2>1, SharedHead
  <2> QED
    BY <2>2
<1>5. h \in Nat /\ h <= HighestHead(station) /\ total >= q
  BY <1>2, <1>4 DEF Reachable
<1>6. /\ n \in Nat \ {0} /\ total \in Nat /\ TotalFlowAt(station, h + 1) \in Nat
      /\ total <= TotalFlowAt(station, h + 1) + n
      /\ \A i \in D : GroupFlowAtHead(station.groups[i], h) <= total
      /\ h = HighestHead(station) => total = 0
  BY <1>5, TotalFalls
<1>7. TotalFlowAt(station, h + 1) < q
  <2>1. h + 1 \in 0..HighestHead(station)
    <3>1. h # HighestHead(station)
      <4>1. total # 0
        BY <1>5, <1>6
      <4> QED
        BY <1>6, <4>1
    <3>2. HighestHead(station) \in Nat /\ h \in Nat /\ h <= HighestHead(station)
      BY <1>2, <1>5
    <3> QED
      BY ONLY <3>1, <3>2
  <2>2. h + 1 \notin Reachable(station, q)
    BY <1>4, <1>5
  <2> QED
    BY <1>2, <1>6, <2>1, <2>2 DEF Reachable
<1>8. q <= total /\ total <= q + n - 1
  <2> HIDE DEF total, n
  <2> QED
    BY <1>5, <1>6, <1>7
<1>9. r \in [D -> Nat] /\ total = SumOver(r) /\ \A i \in D : r[i] = GroupFlowAtHead(station.groups[i], h) /\ r[i] <= total
  <2>1. \A i \in D : GroupFlowAtHead(station.groups[i], h) \in Nat
    BY <1>1, <1>5, GroupFlowType
  <2>2. total = SumOver(r)
    BY DEF TotalFlowAt
  <2> HIDE DEF total
  <2> QED
    BY <1>6, <2>1, <2>2
<1>10. ASSUME NEW i \in D
       PROVE  /\ f[i] = IF r[i] = 0 THEN 0 ELSE (r[i] * q) \div total
              /\ f[i] \in Nat /\ f[i] <= r[i] /\ r[i] < f[i] + n
  <2>1. f[i] = IF r[i] = 0 THEN 0 ELSE (r[i] * q) \div total
    BY DEF ShareAt
  <2> DEFINE a == r[i]
             s == f[i]
  <2>2. a \in Nat /\ a <= total /\ s = IF a = 0 THEN 0 ELSE (a * q) \div total
    BY <1>9, <2>1
  <2>3. n \in Nat /\ n > 0 /\ total \in Nat /\ 0 < q /\ q \in Nat
    BY <1>6
  <2> HIDE DEF a, s, total, n
  <2>4. s \in Nat /\ s <= a /\ a < s + n
    BY ONLY <1>8, <2>2, <2>3, SharesRounded
  <2> QED
    BY <2>1, <2>4 DEF a, s
<1>11. f \in [D -> Nat]
  BY <1>10
<1> HIDE DEF total, r, n
<1>12. SumOver(f) <= q /\ q < SumOver(f) + n
  <2>1. D # {} /\ IsFiniteSet(D) /\ n = Cardinality(D)
    BY <1>1 DEF n
  <2>2. q \in Nat /\ q > 0 /\ r \in [D -> Nat] /\ f \in [D -> Nat] /\ total = SumOver(r)
    BY <1>9, <1>11
  <2>3. \A i \in D : (f[i] = IF r[i] = 0 THEN 0 ELSE (r[i] * q) \div total) /\ r[i] <= total
    BY <1>9, <1>10
  <2> HIDE DEF D
  <2> QED
    BY ONLY <1>8, <2>1, <2>2, <2>3, SharesCarry
<1>13. ASSUME NEW i \in D
       PROVE  /\ f[i] > 0 => GroupHead(station.groups[i], f[i]) >= h
              /\ GroupHead(station.groups[i], f[i] + n) <= h
  <2> DEFINE group == station.groups[i]
             a == r[i]
             s == f[i]
  <2>1. group \in Groups /\ FallsByUnits(group) /\ a = GroupFlowAtHead(group, h)
    BY <1>1, <1>9
  <2>2. a \in Nat /\ s \in Nat /\ s <= a /\ a < s + n
    BY <1>9, <1>10
  <2> HIDE DEF group, a, s, D
  <2>3. (a > 0 => GroupHead(group, a) > h) /\ GroupHead(group, a + 1) <= h
    BY <1>5, <2>1, FlowFound
  <2>4. \A u \in Int : GroupHead(group, u) \in Nat
    BY <2>1, GroupHeadType
  <2>5. GroupHead(group, a) <= GroupHead(group, s)
    BY <2>1, <2>2, GroupHeadFalls
  <2>6. GroupHead(group, s + n) <= GroupHead(group, a + 1)
    <3>1. a + 1 \in Int /\ s + n \in Int /\ a + 1 <= s + n
      BY <1>6, <2>2
    <3> QED
      BY <2>1, <3>1, GroupHeadFalls
  <2>7. (s > 0 => GroupHead(group, s) >= h) /\ GroupHead(group, s + n) <= h
    <3>1. s \in Int /\ a \in Int /\ s + n \in Int /\ a + 1 \in Int
      BY <1>6, <2>2
    <3>2. GroupHead(group, s) \in Nat /\ GroupHead(group, a) \in Nat /\ GroupHead(group, s + n) \in Nat /\ GroupHead(group, a + 1) \in Nat
      BY <2>4, <3>1
    <3> QED
      BY <1>5, <2>2, <2>3, <2>5, <2>6, <3>2
  <2> QED
    BY <2>7 DEF group, s
<1> QED
  BY <1>12, <1>13 DEF n

\* The groups of one station at one flow.
LEMMA HeadsAgreeAt ==
    ASSUME NEW s, s.groups \in Seq(Groups), ActiveGroups(s) # {}, ~InSeries(s), NEW q \in Nat,
           \A i \in ActiveGroups(s) : FallsByUnits(s.groups[i]), StationHead(s, q) > 0
    PROVE  LET carried == SumOver([i \in ActiveGroups(s) |-> GroupFlow(s, i, q)])
               n == Cardinality(ActiveGroups(s))
           IN  /\ carried <= q /\ q < carried + n
               /\ \A i \in ActiveGroups(s) :
                     /\ GroupFlow(s, i, q) > 0 => GroupHead(s.groups[i], GroupFlow(s, i, q)) >= StationHead(s, q)
                     /\ GroupHead(s.groups[i], GroupFlow(s, i, q) + n) <= StationHead(s, q)
<1> DEFINE D == ActiveGroups(s)
           n == Cardinality(D)
           h == ParallelHead(s, q)
           f == [i \in D |-> ShareAt(s, i, q, h)]
<1>1. StationHead(s, q) = h /\ \A i \in D : GroupFlow(s, i, q) = f[i]
  BY DEF StationHead, GroupFlow
<1>2. [i \in D |-> GroupFlow(s, i, q)] = f
  BY <1>1
<1>3. CASE q > 0
  <2>1. /\ SumOver(f) <= q /\ q < SumOver(f) + n
        /\ \A i \in D : /\ f[i] > 0 => GroupHead(s.groups[i], f[i]) >= h
                        /\ GroupHead(s.groups[i], f[i] + n) <= h
    <3> HIDE DEF h
    <3> QED
      BY <1>1, <1>3, ParallelShares DEF h
  <2> HIDE DEF f, h
  <2> QED
    BY <1>1, <1>2, <2>1
<1>4. CASE q = 0
  <2>1. IsFiniteSet(D) /\ \A i \in D : s.groups[i] \in Groups
    BY GroupsOfStation
  <2>2. h = HighestHead(s) /\ h \in Nat /\ \A i \in D : GroupHead(s.groups[i], 0) <= h
    BY <1>4, HeadsOfStation DEF ParallelHead
  <2>3. n \in Nat \ {0}
    <3>1. n \in Nat /\ n # 0
      BY <2>1, FS_EmptySet, FS_CardinalityType
    <3> QED
      BY <3>1
  <2>4. ASSUME NEW i \in D PROVE f[i] = 0 /\ GroupHead(s.groups[i], n) <= h
    <3>1. GroupFlowAtHead(s.groups[i], h) = 0
      BY <2>1, <2>2, FlowFound
    <3>2. f[i] = 0
      BY <3>1 DEF ShareAt
    <3>3. GroupHead(s.groups[i], n) <= GroupHead(s.groups[i], 0)
      <4> HIDE DEF n
      <4> QED
        BY <2>1, <2>3, GroupHeadFalls
    <3>4. GroupHead(s.groups[i], n) \in Nat /\ GroupHead(s.groups[i], 0) \in Nat
      <4> HIDE DEF n
      <4> QED
        BY <2>1, <2>3, GroupHeadType
    <3> HIDE DEF n, h
    <3> QED
      BY <2>2, <3>2, <3>3, <3>4
  <2>5. SumOver(f) = 0
    <3>1. f \in [D -> Int] /\ \A i \in D : f[i] = 0
      BY <2>4
    <3>2. SumOver(f) = Cardinality(D) * 0
      <4> HIDE DEF f, D
      <4> QED
        BY <2>1, <3>1, SumConstant
    <3> QED
      BY <2>3, <3>2
  <2> HIDE DEF f, h, n
  <2>6. \A i \in D : f[i] = 0 /\ f[i] + n = n /\ GroupHead(s.groups[i], f[i] + n) <= h
    BY <2>3, <2>4
  <2>7. 0 <= q /\ q < 0 + n /\ ~(0 > 0)
    BY <1>4, <2>3
  <2> QED
    BY <1>1, <1>2, <2>5, <2>6, <2>7 DEF n
<1> QED
  BY <1>3, <1>4

\* What is evaluated is one of the stations, at a flow the program reads.
OperationKnown == operation # None => operation.station \in Stations /\ operation.flow \in 0..LargestFlow

LEMMA OperationIsKnown == StationSpec => []OperationKnown
<1>1. StationInit => OperationKnown
  BY DEF StationInit, OperationKnown
<1>2. OperationKnown /\ [StationNext]_operation => OperationKnown'
  BY DEF StationNext, EvaluateStation, OperationKnown
<1> QED
  BY <1>1, <1>2, PTL DEF StationSpec

\* combined_head of every station, whatever its pumps, their speeds and their arrangement,
\* never rises with the flow.
THEOREM StationHeadsFall == StationSpec => []HeadNeverRises
<1>1. OperationKnown => HeadNeverRises
  <2> SUFFICES ASSUME operation # None, operation.station \in Stations, operation.flow \in 0..LargestFlow
               PROVE  HeadNeverRises
    BY DEF OperationKnown, HeadNeverRises
  <2>1. operation.station.groups \in Seq(Groups) /\ operation.flow \in Nat
    BY StationAssumption
  <2> QED
    BY <2>1, StationHeadFalls DEF HeadNeverRises
<1> QED
  BY <1>1, OperationIsKnown, PTL

\* Groups in parallel, in every station of which a unit of flow costs each group a unit of
\* head: they work at the head the station reports and carry together what it is asked for.
\* A group at half speed, which gives one head at two flows, is only model-checked.
THEOREM StationsAtOneHead ==
    ASSUME \A s \in Stations : ~InSeries(s) => \A i \in ActiveGroups(s) : FallsByUnits(s.groups[i])
    PROVE  StationSpec => []StationsWorkAtOneHead
<1>1. OperationKnown => HeadsAgree
  <2> SUFFICES ASSUME operation # None, operation.station \in Stations, operation.flow \in 0..LargestFlow
               PROVE  HeadsAgree
    BY DEF OperationKnown, HeadsAgree
  <2> DEFINE s == operation.station
             q == operation.flow
  <2>1. s.groups \in Seq(Groups) /\ q \in Nat
    BY StationAssumption
  <2> SUFFICES ASSUME ~InSeries(s), ActiveGroups(s) # {}, StationHead(s, q) > 0
               PROVE  LET carried == SumOver([i \in ActiveGroups(s) |-> GroupFlow(s, i, q)])
                          n == Cardinality(ActiveGroups(s))
                      IN  /\ carried <= q /\ q < carried + n
                          /\ \A i \in ActiveGroups(s) :
                                /\ GroupFlow(s, i, q) > 0 => GroupHead(s.groups[i], GroupFlow(s, i, q)) >= StationHead(s, q)
                                /\ GroupHead(s.groups[i], GroupFlow(s, i, q) + n) <= StationHead(s, q)
    BY Zenon DEF HeadsAgree
  <2>2. \A i \in ActiveGroups(s) : FallsByUnits(s.groups[i])
    OBVIOUS
  <2> HIDE DEF s, q
  <2> QED
    BY <2>1, <2>2, HeadsAgreeAt
<1>2. HeadNeverRises /\ HeadsAgree => StationsWorkAtOneHead
  BY DEF StationsWorkAtOneHead
<1> QED
  BY <1>1, <1>2, OperationIsKnown, StationHeadsFall, PTL

(***************************************************************************)
(* What an approvable result is worth.                                     *)
(***************************************************************************)
\* No term of a sum of naturals exceeds it.
LEMMA TermBelowSum ==
    ASSUME NEW D, IsFiniteSet(D), NEW f \in [D -> Nat], NEW i \in D
    PROVE  f[i] \in Nat /\ f[i] <= SumOver(f) /\ SumOver(f) \in Nat
<1>1. f \in [D -> Int]
  OBVIOUS
<1>2. Rest(f, i) \in [D \ {i} -> Int] /\ SumOver(f) = f[i] + SumOver(Rest(f, i)) /\ SumOver(f) \in Int
  BY <1>1, SumTerm
<1>3. Rest(f, i) \in [D \ {i} -> Nat] /\ IsFiniteSet(D \ {i})
  BY FS_RemoveElement DEF Rest
<1>4. SumOver(Rest(f, i)) \in Nat
  BY <1>3, SumNatural
<1>5. f[i] \in Nat
  OBVIOUS
<1> QED
  BY <1>2, <1>4, <1>5

\* An interpolated efficiency is not zero: it can be divided by.
LEMMA EfficiencyIsPositive ==
    ASSUME NEW t \in Efficiencies, NEW x \in Int
    PROVE  Clamped(t, x) \in Nat \ {0}
<1> DEFINE n == Len(t)
           i == Interval(t, x)
<1>1. t \in Curves /\ \A k \in DOMAIN t : Y(t, k) \in 1..100
  BY DEF Efficiencies
<1>2. /\ n \in Nat /\ n >= 2 /\ DOMAIN t = 1..n
      /\ \A k \in 1..n : X(t, k) \in Int /\ Y(t, k) \in Nat \ {0}
      /\ \A k \in 1..(n - 1) : X(t, k) < X(t, k + 1)
  <2>1. /\ n \in Nat /\ n >= 2 /\ DOMAIN t = 1..n /\ \A k \in 1..n : X(t, k) \in Int
        /\ \A k \in 1..(n - 1) : X(t, k) < X(t, k + 1)
    BY <1>1, TablePoints
  <2>2. \A k \in 1..n : Y(t, k) \in 1..100
    BY <1>1, <2>1
  <2>3. 1..100 \subseteq Nat \ {0}
    OBVIOUS
  <2> HIDE DEF n
  <2>4. \A k \in 1..n : Y(t, k) \in Nat \ {0}
    BY ONLY <2>2, <2>3, Zenon
  <2> QED
    BY ONLY <2>1, <2>4, Zenon
<1>3. i \in 1..(n - 1) /\ (i = 1 \/ X(t, i) <= x) /\ (i = n - 1 \/ x < X(t, i + 1))
  BY <1>1, IntervalFound
<1>4. Evaluate(t, x) = Y(t, i) + ((x - X(t, i)) * (Y(t, i + 1) - Y(t, i))) \div (X(t, i + 1) - X(t, i))
  BY DEF Evaluate
<1> HIDE DEF i, n
<1>5. 1 \in 1..n /\ n \in 1..n /\ i \in 1..n /\ i + 1 \in 1..n /\ (i = n - 1 => i + 1 = n)
  BY <1>2, <1>3
<1>6. CASE x < X(t, 1) \/ x > X(t, n)
  BY <1>2, <1>5, <1>6 DEF Clamped, n
<1>7. CASE ~(x < X(t, 1)) /\ ~(x > X(t, n))
  <2> DEFINE a == x - X(t, i)
             d == X(t, i + 1) - X(t, i)
             low == Y(t, i)
             high == Y(t, i + 1)
             q == (a * (high - low)) \div d
  <2>1. X(t, i) \in Int /\ X(t, i + 1) \in Int /\ X(t, 1) \in Int /\ X(t, n) \in Int /\ X(t, i) < X(t, i + 1)
    BY <1>2, <1>3, <1>5
  <2>2. X(t, i) <= x /\ x <= X(t, i + 1)
    BY <1>3, <1>5, <1>7, <2>1
  <2>3. a \in Nat /\ d \in Nat \ {0} /\ a <= d
    BY <2>1, <2>2
  <2>4. low \in Nat \ {0} /\ high \in Nat \ {0}
    BY <1>2, <1>5
  <2>5. Clamped(t, x) = low + q
    BY <1>4, <1>7 DEF Clamped, n
  <2> HIDE DEF a, d, low, high
  <2> DEFINE p == a * (high - low)
  <2>6. p \in Int /\ (1 - low) * d <= p
    <3>1. p \in Int
      BY <2>3, <2>4
    <3>2. CASE high >= low
      <4>1. p >= 0
        BY <2>3, <2>4, <3>2, Z3
      <4>2. (1 - low) * d <= 0
        BY <2>3, <2>4, Z3
      <4> QED
        BY <2>3, <2>4, <3>1, <4>1, <4>2
    <3>3. CASE high < low
      <4>1. d * (high - low) <= p
        BY <2>3, <2>4, <3>3, Z3
      <4>2. (1 - low) * d <= d * (high - low)
        BY <2>3, <2>4, Z3
      <4> QED
        BY <2>3, <2>4, <3>1, <4>1, <4>2
    <3> QED
      BY <2>4, <3>1, <3>2, <3>3
  <2> HIDE DEF p
  <2>7. 1 - low <= p \div d /\ p \div d \in Int
    BY <2>3, <2>4, <2>6, QuotientAtLeast, Quotient
  <2>8. q = p \div d
    BY DEF p
  <2> HIDE DEF q
  <2> QED
    BY <2>4, <2>5, <2>7, <2>8
<1> QED
  BY <1>6, <1>7

\* The power on a shaft.
LEMMA ShaftPowerType ==
    ASSUME NEW pump \in PumpType, NEW flow \in Int
    PROVE  ShaftPower(pump, flow) \in Maybe(Int) /\ RequiredNpsh(pump, flow) \in Maybe(Int)
<1> DEFINE q == EquivalentFlow(pump, flow)
           h == PumpHead(pump, flow)
<1>1. q \in Int /\ h \in Nat
  BY EquivalentFlowType, PumpHeadType
<1>2. pump.power \in Maybe(Curves) /\ pump.efficiency \in Maybe(Efficiencies) /\ pump.npshr \in Maybe(Curves)
  BY DEF PumpType
<1>3. ASSUME NEW table \in Maybe(Curves), NEW power \in {2, 3}
      PROVE  Optional(table, pump, flow, power) \in Maybe(Int)
  <2>1. CASE table = None
    BY <2>1 DEF Optional, Maybe
  <2>2. CASE table # None
    <3>1. table \in Curves
      BY <2>2 DEF Maybe
    <3>2. Clamped(table, q) \in Int
      BY <1>1, <3>1, TableValue
    <3>3. AtSpeed(pump, Clamped(table, q), power) \in Int
      <4> HIDE DEF q
      <4> QED
        BY <3>2, ScaledValue
    <3> QED
      BY <2>2, <3>3 DEF Optional, Maybe
  <2> QED
    BY <2>1, <2>2
<1>4. ASSUME pump.efficiency # None
      PROVE  (100 * flow * h) \div Clamped(pump.efficiency, q) \in Int
  <2>1. pump.efficiency \in Efficiencies
    BY <1>2, <1>4 DEF Maybe
  <2> DEFINE e == Clamped(pump.efficiency, q)
             w == 100 * flow * h
  <2>2. e \in Nat \ {0}
    BY <1>1, <2>1, EfficiencyIsPositive
  <2>3. w \in Int
    <3> HIDE DEF h
    <3> QED
      BY <1>1
  <2> HIDE DEF e, w
  <2>4. w \div e \in Int
    BY <2>2, <2>3, QuotientIsInteger
  <2> QED
    BY <2>4 DEF e, w
<1>5. ShaftPower(pump, flow) \in Maybe(Int)
  <2> DEFINE v == (100 * flow * h) \div Clamped(pump.efficiency, q)
  <2>1. ShaftPower(pump, flow) = IF pump.power # None THEN Optional(pump.power, pump, flow, 3)
                                 ELSE IF pump.efficiency # None THEN v ELSE None
    BY DEF ShaftPower
  <2>2. pump.efficiency # None => v \in Int
    BY <1>4
  <2>3. Optional(pump.power, pump, flow, 3) \in Maybe(Int)
    BY <1>2, <1>3
  <2> HIDE DEF v
  <2> QED
    BY <2>1, <2>2, <2>3 DEF Maybe
<1>6. RequiredNpsh(pump, flow) \in Maybe(Int)
  BY <1>2, <1>3 DEF RequiredNpsh
<1> QED
  BY <1>5, <1>6

\* What a group of a station carries.
LEMMA GroupFlowIsInteger ==
    ASSUME NEW station, station.groups \in Seq(Groups), NEW i \in ActiveGroups(station), NEW flow \in Int
    PROVE  GroupFlow(station, i, flow) \in Int
<1> DEFINE D == ActiveGroups(station)
           h == ParallelHead(station, flow)
           flows == [j \in D |-> GroupFlowAtHead(station.groups[j], h)]
           total == TotalFlowAt(station, h)
           raw == GroupFlowAtHead(station.groups[i], h)
<1>1. IsFiniteSet(D) /\ \A j \in D : station.groups[j] \in Groups
  BY GroupsOfStation
<1>2. HighestHead(station) \in Nat
  BY HeadsOfStation
<1>3. h \in Nat
  <2>1. CASE flow <= 0
    BY <1>2, <2>1 DEF ParallelHead
  <2>2. CASE TotalFlowAt(station, 0) < flow /\ ~(flow <= 0)
    BY <2>2 DEF ParallelHead
  <2>3. CASE ~(TotalFlowAt(station, 0) < flow) /\ ~(flow <= 0)
    <3>1. h \in Reachable(station, flow)
      BY <2>3, SharedHead
    <3> QED
      BY <1>2, <3>1 DEF Reachable
  <2> QED
    BY <2>1, <2>2, <2>3
<1> HIDE DEF h
<1>4. flows \in [D -> Nat]
  BY <1>1, <1>3, GroupFlowType
<1>5. flows[i] = raw /\ total = SumOver(flows)
  BY DEF TotalFlowAt
<1>6. raw \in Nat /\ total \in Nat /\ raw <= total
  <2>1. flows[i] \in Nat /\ flows[i] <= SumOver(flows) /\ SumOver(flows) \in Nat
    <3> HIDE DEF flows, D
    <3> QED
      BY <1>1, <1>4, TermBelowSum DEF D
  <2> QED
    BY <1>5, <2>1
<1>7. GroupFlow(station, i, flow) = IF InSeries(station) THEN flow ELSE IF raw = 0 THEN 0 ELSE (raw * flow) \div total
  BY DEF GroupFlow, ShareAt, h
<1> HIDE DEF raw, total
<1>8. raw # 0 => (raw * flow) \div total \in Int
  BY <1>6, QuotientIsInteger
<1> QED
  BY <1>7, <1>8

\* An outcome without violations has none from any check of a limit, and says when C-004 was skipped.
LEMMA NoneViolated ==
    ASSUME NEW input, NEW line, NEW march, NEW pumps, NEW flow, NEW residual,
           AllChecks(input, line, march, pumps, flow, residual).violations = {}
    PROVE  /\ CheckMaximumPressure(march.points, line.segments).violations = {}
           /\ CheckVapour(march.points, input.state.vapour, input.scenario.gravity, HasOwn(input.fluid, "vapour")).violations = {}
           /\ CheckNpsh(pumps).violations = {} /\ CheckCurveDomain(pumps).violations = {}
           /\ CheckMotorPower(pumps).violations = {}
           /\ CheckStationPressures({StationReport(march.passages[k]) : k \in DOMAIN march.passages}).violations = {}
           /\ Limited(line.segments) = {} => "C-004" \in AllChecks(input, line, march, pumps, flow, residual).skipped
<1> DEFINE sc == input.scenario
           vapour == CheckVapour(march.points, input.state.vapour, sc.gravity, HasOwn(input.fluid, "vapour"))
           pressure == CheckMaximumPressure(march.points, line.segments)
           npsh == CheckNpsh(pumps)
           domain == CheckCurveDomain(pumps)
           motor == CheckMotorPower(pumps)
           stations == CheckStationPressures({StationReport(march.passages[k]) : k \in DOMAIN march.passages})
           S == {CheckMassBalance(flow, Outlet(march).flow, NetInjection(line), 0),
                 vapour,
                 npsh,
                 pressure,
                 CheckVelocity(march.points, sc.minVelocity, sc.maxVelocity),
                 domain,
                 motor,
                 stations,
                 CheckExtrapolation(input.state.extrapolated),
                 CheckConvergence(TRUE, residual, sc.tolerance)}
           all == AllChecks(input, line, march, pumps, flow, residual)
<1>1. all = Together(S)
  BY Zenon DEF AllChecks
<1>2. vapour \in S /\ pressure \in S /\ npsh \in S /\ domain \in S /\ motor \in S /\ stations \in S
  <2> HIDE DEF vapour, pressure, npsh, domain, motor, stations
  <2> QED
    BY Zenon
<1>3. all.violations = {}
  OBVIOUS
<1>6. Limited(line.segments) = {} => "C-004" \in pressure.skipped
  BY DEF CheckMaximumPressure, Skipped, Outcome
<1> HIDE DEF S, all, vapour, pressure, npsh, domain, motor, stations
<1>4. /\ \A x : x \in all.violations <=> \E o \in S : x \in o.violations
      /\ \A x : x \in all.skipped <=> \E o \in S : x \in o.skipped
  BY <1>1, TogetherHas
<1>5. /\ vapour.violations = {} /\ pressure.violations = {} /\ npsh.violations = {} /\ domain.violations = {}
      /\ motor.violations = {} /\ stations.violations = {}
  BY <1>2, <1>3, <1>4
<1>7. Limited(line.segments) = {} => "C-004" \in all.skipped
  BY <1>2, <1>4, <1>6
<1> QED
  BY <1>5, <1>7 DEF vapour, pressure, npsh, domain, motor, stations, all

\* Where the checks of pressure found nothing, the limits hold at every point.
LEMMA LimitsHold ==
    ASSUME NEW points \in Seq(PointType), NEW segments \in Seq(SegmentType),
           CheckMaximumPressure(points, segments).violations = {},
           NEW i \in DOMAIN points, NEW s \in DOMAIN segments,
           segments[s].from <= points[i].at, points[i].at <= segments[s].to
    PROVE  /\ segments[s].maop # None => points[i].pressure <= segments[s].maop
           /\ segments[s].minimum # None /\ Limited(segments) # {} => points[i].pressure >= segments[s].minimum
<1> DEFINE segment == segments[s]
           inside == PointsOf(segment, points)
           pressures == {p.pressure : p \in inside}
<1>1. segment.maop \in Maybe(Int) /\ segment.minimum \in Maybe(Int)
  <2>1. segment \in SegmentType
    OBVIOUS
  <2> HIDE DEF segment
  <2> QED
    BY <2>1 DEF SegmentType
<1>2. points[i] \in inside /\ inside \subseteq PointType
  BY DEF PointsOf
<1>3. IsFiniteSet(pressures) /\ pressures \subseteq Int /\ points[i].pressure \in pressures
  <2>1. IsFiniteSet(inside)
    <3> DEFINE D == {j \in DOMAIN points : segment.from <= points[j].at /\ points[j].at <= segment.to}
    <3>1. DOMAIN points = 1..Len(points) /\ Len(points) \in Nat
      OBVIOUS
    <3>2. IsFiniteSet(D)
      <4>1. IsFiniteSet(DOMAIN points)
        BY <3>1, FS_Interval
      <4> QED
        BY <4>1, FS_Subset
    <3>3. inside = {points[j] : j \in D}
      BY DEF PointsOf
    <3> HIDE DEF D, inside
    <3> QED
      BY <3>2, <3>3, FiniteImage
  <2> HIDE DEF inside
  <2>2. IsFiniteSet(pressures)
    <3> DEFINE f == [p \in inside |-> p.pressure]
               image == {f[p] : p \in inside}
    <3>1. image = pressures
      OBVIOUS
    <3>2. IsFiniteSet(image)
      <4> HIDE DEF f
      <4> QED
        BY <2>1, FiniteImage
    <3> HIDE DEF image, pressures
    <3> QED
      BY <3>1, <3>2
  <2>3. \A p \in PointType : p.pressure \in Int
    BY DEF PointType
  <2> QED
    BY <1>2, <2>2, <2>3
<1>4. HighestPressure(segment, points) = Max(pressures) /\ LowestPressure(segment, points) = Min(pressures)
  BY DEF HighestPressure, LowestPressure
<1> HIDE DEF pressures, segment
<1>5. points[i].pressure <= Max(pressures) /\ Max(pressures) \in Int
      /\ Min(pressures) <= points[i].pressure /\ Min(pressures) \in Int
  BY <1>3, MaxOf, MinOf
<1>6. ASSUME Limited(segments) # {} PROVE ~TooHigh(segment, points) /\ ~TooLow(segment, points)
  <2> DEFINE high == {<<"C-004", "high", j>> : j \in {k \in DOMAIN segments : TooHigh(segments[k], points)}}
             low == {<<"C-004", "low", j>> : j \in {k \in DOMAIN segments : TooLow(segments[k], points)}}
  <2>1. CheckMaximumPressure(points, segments).violations = high \cup low
    BY <1>6 DEF CheckMaximumPressure, Outcome
  <2>2. high = {} /\ low = {}
    <3> HIDE DEF high, low
    <3> QED
      BY <2>1
  <2> QED
    BY <2>2 DEF segment
<1>7. segment.maop # None => Limited(segments) # {}
  BY DEF Limited, segment
<1>8. segment.maop # None => points[i].pressure <= segment.maop
  <2> SUFFICES ASSUME segment.maop # None PROVE points[i].pressure <= segment.maop
    OBVIOUS
  <2>1. ~(Max(pressures) > segment.maop) /\ segment.maop \in Int
    BY <1>1, <1>4, <1>6, <1>7 DEF TooHigh, Maybe
  <2> QED
    BY <1>3, <1>5, <2>1
<1>9. segment.minimum # None /\ Limited(segments) # {} => points[i].pressure >= segment.minimum
  <2> SUFFICES ASSUME segment.minimum # None, Limited(segments) # {} PROVE points[i].pressure >= segment.minimum
    OBVIOUS
  <2>1. ~(Min(pressures) < segment.minimum) /\ segment.minimum \in Int
    BY <1>1, <1>4, <1>6 DEF TooLow, Maybe
  <2>2. points[i].pressure \in Int
    BY <1>3
  <2> QED
    BY ONLY <1>5, <2>1, <2>2, SMT
<1> QED
  BY <1>8, <1>9 DEF segment

\* Where the check of the stations found nothing, none in service leaves its limits.
LEMMA StationsKept ==
    ASSUME NEW passages,
           CheckStationPressures({StationReport(passages[k]) : k \in DOMAIN passages}).violations = {}
    PROVE  StationsKeepLimits(passages)
<1> DEFINE S == {StationReport(passages[k]) : k \in DOMAIN passages}
           limited == {s \in S : s.inService /\ (s.suctionMin # None \/ s.dischargeMax # None)}
           low == {<<"C-004", "suction", s.id>> : s \in {t \in limited : t.suctionMin # None /\ t.suction < t.suctionMin}}
           high == {<<"C-004", "discharge", s.id>> : s \in
                       {t \in limited : t.dischargeMax # None /\ t.discharge > t.dischargeMax}}
<1>1. low \cup high = {}
  BY DEF CheckStationPressures, Outcome
<1>2. low = {} /\ high = {}
  <2> HIDE DEF low, high
  <2> QED
    BY <1>1
<1>3. ASSUME NEW k \in DOMAIN passages, InService(passages[k].station)
      PROVE  /\ ~(passages[k].station.suctionMin # None /\ passages[k].suction < passages[k].station.suctionMin)
             /\ ~(passages[k].station.dischargeMax # None /\ passages[k].discharge > passages[k].station.dischargeMax)
  <2> DEFINE r == StationReport(passages[k])
  <2>1. r \in S
    BY Zenon
  <2>2. /\ r.inService = InService(passages[k].station)
        /\ r.suction = passages[k].suction /\ r.discharge = passages[k].discharge
        /\ r.suctionMin = passages[k].station.suctionMin /\ r.dischargeMax = passages[k].station.dischargeMax
    BY DEF StationReport
  <2> HIDE DEF r, S
  <2>3. ~(r.suctionMin # None /\ r.suction < r.suctionMin)
    BY <1>2, <1>3, <2>1, <2>2
  <2>4. ~(r.dischargeMax # None /\ r.discharge > r.dischargeMax)
    BY <1>2, <1>3, <2>1, <2>2
  <2> QED
    BY <2>2, <2>3, <2>4
<1> QED
  BY <1>3 DEF StationsKeepLimits

\* What a running pump reports is known where its tables and the suction of its station are.
LEMMA ReportOfRunning ==
    ASSUME NEW passage \in Passages, NEW i \in DOMAIN passage.station.groups, NEW pump \in passage.station.groups[i],
           pump \in RunningPumps(passage.station), NEW vapour \in Int
    PROVE  LET r    == PumpReport(passage, i, pump, vapour)
               flow == GroupFlow(passage.station, i, passage.flow)
           IN  /\ r.running /\ r.flow = flow /\ r.minimumFlow = pump.minimumFlow /\ r.rated = pump.rated
               /\ r.npshMargin = pump.npshMargin /\ r.npshRequired = RequiredNpsh(pump, flow)
               /\ passage.station.suctionSpeed # None =>
                     r.npshAvailable = NpshAvailable(passage, vapour) /\ r.npshAvailable # None
               /\ ShaftPower(pump, flow) # None =>
                     r.absorbed = (100 * ShaftPower(pump, flow)) \div passage.station.drive /\ r.absorbed # None
<1> DEFINE r == PumpReport(passage, i, pump, vapour)
           station == passage.station
           flow == GroupFlow(station, i, passage.flow)
           power == ShaftPower(pump, flow)
<1>1. /\ station \in LineStationType /\ passage.flow \in Int /\ passage.suction \in Int
  BY DEF Passages
<1>2. /\ station.groups \in Seq(Groups) /\ station.drive \in Nat \ {0} /\ station.suctionK \in Nat
      /\ station.suctionSpeed \in Maybe(Int)
  <2> HIDE DEF station
  <2> QED
    BY <1>1 DEF LineStationType
<1>3. pump.available /\ pump.running
  BY DEF RunningPumps, ActivePumps
<1>4. i \in ActiveGroups(station)
  <2>1. PICK j \in ActiveGroups(station) : pump \in ActivePumps(station.groups[j])
    BY DEF RunningPumps
  <2>2. InService(station) /\ pump \in ActivePumps(station.groups[i])
    BY <1>3, <2>1 DEF ActiveGroups, ActivePumps
  <2> QED
    BY <2>2 DEF ActiveGroups
<1>5. flow \in Int
  <2> HIDE DEF station
  <2> QED
    BY <1>1, <1>2, <1>4, GroupFlowIsInteger
<1>6. pump \in PumpType
  <2>1. station.groups[i] \in Groups
    <3>1. i \in DOMAIN station.groups
      OBVIOUS
    <3> HIDE DEF station
    <3> QED
      BY <1>2, <3>1
  <2> QED
    BY <2>1 DEF Groups
<1>7. power \in Maybe(Int)
  <2> HIDE DEF flow
  <2> QED
    BY <1>5, <1>6, ShaftPowerType
<1>8. power # None => (100 * power) \div station.drive \in Int
  <2> SUFFICES ASSUME power # None PROVE (100 * power) \div station.drive \in Int
    OBVIOUS
  <2>1. power \in Int
    BY <1>7 DEF Maybe
  <2> HIDE DEF power, station
  <2>2. 100 * power \in Int
    BY <2>1
  <2> QED
    BY <1>2, <2>2, QuotientIsInteger
<1>9. station.suctionSpeed # None => NpshAvailable(passage, vapour) \in Int
  <2> SUFFICES ASSUME station.suctionSpeed # None PROVE NpshAvailable(passage, vapour) \in Int
    OBVIOUS
  <2> DEFINE v == passage.flow * station.suctionSpeed
             d == Drop(station.suctionK, v)
  <2>1. station.suctionSpeed \in Int
    BY <1>2 DEF Maybe
  <2>2. v \in Int
    <3> HIDE DEF station
    <3> QED
      BY <1>1, <2>1
  <2>3. d \in Int
    <3>1. station.suctionK \in Int
      <4> HIDE DEF station
      <4> QED
        BY <1>2
    <3> HIDE DEF v, station
    <3> QED
      BY ONLY <2>2, <3>1, DropType, Zenon
  <2>4. v * v \in Int
    <3> HIDE DEF v
    <3> QED
      BY <2>2
  <2>5. NpshAvailable(passage, vapour) = passage.suction - d - vapour + v * v
    BY DEF NpshAvailable
  <2> HIDE DEF v, d
  <2> QED
    BY <1>1, <2>3, <2>4, <2>5
<1>10. r = ReportOf(passage, pump, vapour, TRUE, flow, power, BestEfficiencyFlow(pump))
  BY Zenon DEF PumpReport, ReportAt
<1> HIDE DEF flow, power
<1>11. /\ r.running = (pump.available /\ pump.running) /\ r.flow = flow /\ r.minimumFlow = pump.minimumFlow
       /\ r.rated = pump.rated /\ r.npshMargin = pump.npshMargin /\ r.npshRequired = RequiredNpsh(pump, flow)
       /\ r.npshAvailable = IF (pump.available /\ pump.running) /\ station.suctionSpeed # None
                            THEN NpshAvailable(passage, vapour) ELSE None
       /\ r.absorbed = IF power = None THEN None ELSE (100 * power) \div station.drive
  <2> HIDE DEF r
  <2> QED
    BY <1>10 DEF ReportOf
<1> HIDE DEF r, station
<1>12. None \notin Int
  BY LineAssumption
<1> QED
  BY <1>3, <1>8, <1>9, <1>11, <1>12 DEF r, station, flow, power

\* Where the checks of the pumps found nothing, none that runs leaves its limits.
LEMMA PumpsKept ==
    ASSUME NEW march, march.passages \in Seq(Passages), NEW vapour \in Int,
           CheckNpsh(PumpReports(march, vapour)).violations = {},
           CheckCurveDomain(PumpReports(march, vapour)).violations = {},
           CheckMotorPower(PumpReports(march, vapour)).violations = {}
    PROVE  PumpsKeepLimits(march.passages, vapour)
<1> DEFINE passages == march.passages
           pumps == PumpReports(march, vapour)
           npsh == {p \in pumps : p.running /\ p.npshRequired # None /\ p.npshAvailable # None}
           powered == {p \in pumps : p.running /\ p.absorbed # None /\ p.rated # None}
           running == {p \in pumps : p.running}
<1>1. ASSUME NEW r \in pumps, r.running, r.npshRequired # None, r.npshAvailable # None
      PROVE  ~(r.npshAvailable < r.npshRequired + r.npshMargin)
  <2>1. r \in npsh
    BY <1>1
  <2>2. CheckNpsh(pumps).violations =
           {<<"C-003", p.id>> : p \in {s \in npsh : s.npshAvailable < s.npshRequired + s.npshMargin}}
    BY <2>1 DEF CheckNpsh, Outcome
  <2> HIDE DEF npsh, pumps
  <2> QED
    BY <2>1, <2>2 DEF pumps
<1>2. ASSUME NEW r \in pumps, r.running, r.minimumFlow # None
      PROVE  ~(r.flow < r.minimumFlow)
  <2>1. r \in running
    BY <1>2
  <2>2. CheckCurveDomain(pumps).violations =
           {<<"C-006", p.id>> : p \in {s \in running : s.minimumFlow # None /\ s.flow < s.minimumFlow}}
    BY <2>1 DEF CheckCurveDomain, Outcome
  <2> HIDE DEF running, pumps
  <2> QED
    BY <1>2, <2>1, <2>2 DEF pumps
<1>3. ASSUME NEW r \in pumps, r.running, r.absorbed # None, r.rated # None
      PROVE  ~(r.absorbed > r.rated)
  <2>1. r \in powered
    BY <1>3
  <2>2. CheckMotorPower(pumps).violations = {<<"C-007", p.id>> : p \in {s \in powered : s.absorbed > s.rated}}
    BY <2>1 DEF CheckMotorPower, Outcome
  <2> HIDE DEF powered, pumps
  <2> QED
    BY <2>1, <2>2 DEF pumps
<1> HIDE DEF npsh, running, powered
<1> DEFINE Breaks(k, i, pump) ==
             LET p    == passages[k]
                 flow == GroupFlow(p.station, i, p.flow)
             IN  \/ /\ p.station.suctionSpeed # None /\ RequiredNpsh(pump, flow) # None
                    /\ NpshAvailable(p, vapour) < RequiredNpsh(pump, flow) + pump.npshMargin
                 \/ pump.minimumFlow # None /\ flow < pump.minimumFlow
                 \/ /\ pump.rated # None /\ ShaftPower(pump, flow) # None
                    /\ (100 * ShaftPower(pump, flow)) \div p.station.drive > pump.rated
<1>10. PumpsKeepLimits(passages, vapour) <=>
         ~ \E k \in DOMAIN passages : \E i \in DOMAIN passages[k].station.groups :
           \E pump \in passages[k].station.groups[i] :
              pump \in RunningPumps(passages[k].station) /\ Breaks(k, i, pump)
  BY Zenon DEF PumpsKeepLimits
<1> HIDE DEF Breaks
<1> SUFFICES ASSUME NEW k \in DOMAIN passages, NEW i \in DOMAIN passages[k].station.groups,
                    NEW pump \in passages[k].station.groups[i], pump \in RunningPumps(passages[k].station)
             PROVE  ~Breaks(k, i, pump)
  BY <1>10
<1> DEFINE passage == passages[k]
           flow == GroupFlow(passage.station, i, passage.flow)
           r == PumpReport(passage, i, pump, vapour)
<1>4. r \in pumps
  BY DEF PumpReports
<1>5. passage \in Passages
  OBVIOUS
<1> HIDE DEF passage, pumps
<1>6. /\ r.running /\ r.flow = flow /\ r.minimumFlow = pump.minimumFlow /\ r.rated = pump.rated
      /\ r.npshMargin = pump.npshMargin /\ r.npshRequired = RequiredNpsh(pump, flow)
      /\ passage.station.suctionSpeed # None =>
            r.npshAvailable = NpshAvailable(passage, vapour) /\ r.npshAvailable # None
      /\ ShaftPower(pump, flow) # None =>
            r.absorbed = (100 * ShaftPower(pump, flow)) \div passage.station.drive /\ r.absorbed # None
  <2>1. i \in DOMAIN passage.station.groups /\ pump \in passage.station.groups[i] /\ pump \in RunningPumps(passage.station)
    BY DEF passage
  <2> QED
    BY <1>5, <2>1, ReportOfRunning
<1> HIDE DEF r, flow
<1>7. ~(/\ passage.station.suctionSpeed # None /\ RequiredNpsh(pump, flow) # None
        /\ NpshAvailable(passage, vapour) < RequiredNpsh(pump, flow) + pump.npshMargin)
  BY <1>1, <1>4, <1>6
<1>8. ~(pump.minimumFlow # None /\ flow < pump.minimumFlow)
  BY <1>2, <1>4, <1>6
<1>9. ~(/\ pump.rated # None /\ ShaftPower(pump, flow) # None
        /\ (100 * ShaftPower(pump, flow)) \div passage.station.drive > pump.rated)
  BY <1>3, <1>4, <1>6
<1> QED
  BY <1>7, <1>8, <1>9, Zenon DEF Breaks, flow, passage

\* An approvable result keeps within the limits of its segments (their minimum, unless C-004 is
\* reported as skipped), of its stations and of its running pumps, above the vapour pressure on
\* the whole profile, and at the outlet pressure that was asked for: checks.py, solver.py,
\* long_distance.py.
THEOREM ApprovalIsSafe == LineSpec => []ApprovableIsSafe
<1>1. LineInv => ApprovableIsSafe
  <2> SUFFICES ASSUME LineInv, IsApprovable PROVE ApprovableIsSafe
    BY DEF ApprovableIsSafe
  <2>1. HasResults /\ simulated.outcome.violations = {}
    BY DEF IsApprovable
  <2>2. PICK line, grid : ResultParts(study, simulated, line, grid)
    BY <2>1, ResultIsMade
  <2> DEFINE points == simulated.march.points
             step == study.scenario.step
             all == Chainages(line, step)
  <2>3. line \in LineType /\ IsChain(line) /\ line = Resolved(study)
    BY <2>2 DEF ResultParts
  <2>0. HasPoints(line, study.state.vapour, study.scenario.step, grid, simulated.flow, simulated.march.points)
    BY <2>2, ResultPoints
  <2>4. /\ points \in Seq(PointType) /\ Len(points) = Len(grid) /\ grid \in Seq(Int)
        /\ \A c \in all : \E i \in 1..Len(grid) : grid[i] = c
        /\ \A i \in 1..Len(grid) : points[i].at = grid[i]
    BY <2>0 DEF HasPoints
  <2> DEFINE vapour == study.state.vapour
             pumps == PumpReports(simulated.march, vapour)
  <2>5. PICK residual :
          simulated.outcome = AllChecks(study, line, simulated.march, pumps, simulated.flow, residual)
    BY <2>2 DEF ResultParts
  <2> HIDE DEF pumps
  <2>6. /\ CheckMaximumPressure(points, line.segments).violations = {}
        /\ CheckVapour(points, study.state.vapour, study.scenario.gravity, HasOwn(study.fluid, "vapour")).violations = {}
        /\ CheckNpsh(pumps).violations = {} /\ CheckCurveDomain(pumps).violations = {}
        /\ CheckMotorPower(pumps).violations = {}
        /\ CheckStationPressures({StationReport(simulated.march.passages[k]) : k \in DOMAIN simulated.march.passages})
              .violations = {}
        /\ Limited(line.segments) = {} => "C-004" \in simulated.outcome.skipped
    BY <2>1, <2>5, NoneViolated
  <2>7. DOMAIN points = 1..Len(grid)
    BY <2>4
  <2> HIDE DEF points
  <2>8. ASSUME NEW i \in DOMAIN points, NEW s \in DOMAIN line.segments,
               line.segments[s].from <= points[i].at, points[i].at <= line.segments[s].to
        PROVE  /\ line.segments[s].maop # None => points[i].pressure <= line.segments[s].maop
               /\ line.segments[s].minimum # None /\ Limited(line.segments) # {}
                     => points[i].pressure >= line.segments[s].minimum
    <3>1. line.segments \in Seq(SegmentType)
      BY <2>3 DEF LineType
    <3> QED
      BY <2>4, <2>6, <2>8, <3>1, LimitsHold
  <2>9. ASSUME NEW i \in DOMAIN points, HasOwn(study.fluid, "vapour"), ~study.scenario.gravity
        PROVE  points[i].pressure > study.state.vapour
    <3> DEFINE low == \E k \in DOMAIN points : points[k].pressure <= study.state.vapour
    <3>1. ~low
      <4> DEFINE found == If(low /\ ~study.scenario.gravity, <<"C-002", "below vapour">>)
      <4>1. CheckVapour(points, study.state.vapour, study.scenario.gravity, HasOwn(study.fluid, "vapour")).violations = found
        BY <2>9 DEF CheckVapour, Outcome
      <4>2. found = {}
        BY <2>6, <4>1
      <4> QED
        BY <2>9, <4>2 DEF If
    <3>2. points[i].pressure \in Int /\ study.state.vapour \in Int
      <4>1. points[i] \in PointType
        BY <2>4
      <4> QED
        BY <2>2, <4>1 DEF PointType, ResultParts
    <3> QED
      BY <3>1, <3>2
  <2>10. ASSUME NEW j \in DOMAIN line.profile, OnLine(line, X(line.profile, j))
         PROVE  \E k \in DOMAIN points : points[k].at = X(line.profile, j)
    <3>1. X(line.profile, j) \in all
      <4>1. step \in Nat \ {0}
        BY <2>2 DEF ResultParts
      <4> HIDE DEF step
      <4> QED
        BY <2>3, <2>10, <4>1, PointsOfLine
    <3> QED
      BY <2>4, <2>7, <3>1
  <2>11. ~IsDirect(study) =>
           Magnitude(Outlet(simulated.march).pressure - OutletPressure(line, study.scenario)) <= study.scenario.tolerance
    BY <2>2 DEF ResultParts
  <2>12. StationsKeepLimits(simulated.march.passages)
    BY <2>6, StationsKept
  <2>13. PumpsKeepLimits(simulated.march.passages, vapour)
    <3>1. /\ line \in LineType /\ IsChain(line) /\ study.scenario.step \in Nat \ {0}
          /\ vapour \in Int /\ study.scenario.gravity \in BOOLEAN
          /\ simulated.flow \in Int /\ simulated.inlet \in Int
          /\ simulated.march = MarchAlong(line, study, grid, simulated.flow, simulated.inlet)
      BY <2>2 DEF ResultParts
    <3>2. HeadBalances(line, grid, simulated.inlet, simulated.march)
      <4> HIDE DEF vapour
      <4> QED
        BY ONLY <2>0, <3>1, MarchBalances, Zenon DEF vapour
    <3>3. simulated.march.passages \in Seq(Passages)
      BY <3>2 DEF HeadBalances
    <3> HIDE DEF vapour
    <3> QED
      BY <2>6, <3>1, <3>3, PumpsKept DEF pumps
  <2>14. SegmentsKeepLimits(line, points)
    <3> SUFFICES ASSUME NEW i \in DOMAIN points, NEW s \in DOMAIN line.segments,
                        line.segments[s].from <= points[i].at, points[i].at <= line.segments[s].to
                 PROVE  /\ line.segments[s].maop # None => points[i].pressure <= line.segments[s].maop
                        /\ line.segments[s].minimum # None =>
                              points[i].pressure >= line.segments[s].minimum \/ "C-004" \in simulated.outcome.skipped
      BY DEF SegmentsKeepLimits
    <3> QED
      BY <2>6, <2>8
  <2>15. LineStaysFull(line, points)
    BY <2>9, <2>10 DEF LineStaysFull
  <2> QED
    BY <2>3, <2>11, <2>12, <2>13, <2>14, <2>15 DEF ApprovableIsSafe, points, vapour
<1> QED
  BY <1>1, ResultsAreBuilt, PTL

(***************************************************************************)
(* The outlet pressure falls with the flow.                                *)
(***************************************************************************)
\* A loss grows with the velocity, whichever way the flow goes.
LEMMA DropGrows ==
    ASSUME NEW k \in Nat, NEW v \in Int, NEW w \in Int, v < w
    PROVE  /\ Drop(k, v) \in Int /\ Drop(k, w) \in Int
           /\ Drop(k, v) <= Drop(k, w) /\ (k > 0 => Drop(k, v) < Drop(k, w))
<1> DEFINE a == v * Magnitude(v)
           b == w * Magnitude(w)
<1>1. a \in Int /\ b \in Int /\ a < b
  <2>1. CASE v >= 0
    <3>1. a = v * v /\ b = w * w
      BY <2>1 DEF Magnitude
    <3>2. v * v \in Int /\ w * w \in Int /\ v * v < w * w
      BY <2>1, Z3
    <3> QED
      BY <3>1, <3>2
  <2>2. CASE w <= 0
    <3>1. a = v * (-v) /\ b = w * Magnitude(w) /\ Magnitude(w) = -w
      BY <2>2 DEF Magnitude
    <3>2. v * (-v) \in Int /\ w * (-w) \in Int /\ v * (-v) < w * (-w)
      BY <2>2, Z3
    <3> QED
      BY <3>1, <3>2
  <2>3. CASE v < 0 /\ w > 0
    <3>1. a = v * (-v) /\ b = w * w
      BY <2>3 DEF Magnitude
    <3>2. v * (-v) \in Int /\ w * w \in Int /\ v * (-v) < w * w
      BY <2>3, Z3
    <3> QED
      BY <3>1, <3>2
  <2> QED
    BY <2>1, <2>2, <2>3
<1>2. Drop(k, v) = k * a /\ Drop(k, w) = k * b
  <2>1. Magnitude(v) \in Int /\ Magnitude(w) \in Int
    BY DEF Magnitude
  <2> DEFINE x == Magnitude(v)
             y == Magnitude(w)
  <2>2. Drop(k, v) = k * v * x /\ Drop(k, w) = k * w * y /\ a = v * x /\ b = w * y
    BY DEF Drop
  <2> HIDE DEF x, y, a, b
  <2>3. x \in Int /\ y \in Int
    BY <2>1 DEF x, y
  <2>4. k * v * x = k * (v * x) /\ k * w * y = k * (w * y)
    BY <2>3, Z3
  <2> QED
    BY <2>2, <2>4
<1> HIDE DEF a, b
<1>3. k * a \in Int /\ k * b \in Int /\ k * a <= k * b
  BY <1>1, Z3
<1>4. k > 0 => k * a < k * b
  BY <1>1, Z3
<1> QED
  BY <1>2, <1>3, <1>4

(***************************************************************************)
(* The head at a point of the march and beyond it, without the gravity     *)
(* model.                                                                  *)
(***************************************************************************)
Gain(line, c, flow) ==
    IF StationAt(line, c) = None THEN 0
    ELSE StationHead(StationAt(line, c), flow) - BypassLoss(StationAt(line, c), flow * Governing(line, c).speed)

HeadAt(line, c, head, flow) == (head - FittingLoss(line, c, flow)) + Gain(line, c, flow)

Advances(line, grid, i, m, after) ==
    /\ after.head \in Int /\ after.flow \in Int /\ after.flow = m.flow + InjectionAt(line, grid[i])
    /\ after.head = HeadAt(line, grid[i], m.head, after.flow) - IntervalLoss(line, grid, i, after.flow)
    /\ after.clamped = FALSE /\ after.passages \in Seq(Passages)
    /\ StationAt(line, grid[i]) = None => after.passages = m.passages
    /\ \A k \in DOMAIN m.passages : k \in DOMAIN after.passages /\ after.passages[k] = m.passages[k]
    /\ StationAt(line, grid[i]) # None => \E k \in DOMAIN after.passages : after.passages[k].flow = after.flow
    /\ \E p \in PointType :
          /\ after.points = Append(m.points, p)
          /\ p.grade = HeadAt(line, grid[i], m.head, after.flow) /\ p.grade \in Int
          /\ p.elevation = Elevation(line, grid[i]) /\ p.elevation \in Int /\ p.pressure = p.grade - p.elevation

\* One point of the march.
LEMMA PassAdvances ==
    ASSUME NEW line \in LineType, IsChain(line), NEW input, input.state.vapour \in Int, input.scenario.gravity = FALSE,
           NEW grid \in Seq(Int), NEW i \in 1..Len(grid), OnLine(line, grid[i]),
           NEW m, Enters(m), m.passages \in Seq(Passages), m.clamped = FALSE,
           NEW after, after = Pass(line, input, grid, m, i)
    PROVE  Advances(line, grid, i, m, after)
<1> USE DEF Enters
<1> DEFINE c == grid[i]
           segment == Governing(line, c)
           length == IF i = Len(grid) THEN 0 ELSE grid[i + 1] - grid[i]
           flow == m.flow + InjectionAt(line, c)
           velocity == flow * segment.speed
           elevation == Elevation(line, c)
           vapour == input.state.vapour
           minor == Drop(FittingK(line, c), velocity)
           suction == m.head - minor
           station == StationAt(line, c)
           gain == IF station = None THEN 0 ELSE StationHead(station, flow) - BypassLoss(station, velocity)
           pumped == suction + gain
           p == Point(c, elevation, pumped, flow, velocity, vapour)
           passage == Passage(station, flow, suction - elevation, pumped - elevation)
           lost == Drop(segment.drag, velocity) * length
<1>1. after = Through(line, input, m, c, length, segment, elevation, flow, velocity)
  BY DEF Pass
<1> DEFINE passages == m.passages \o (IF station = None THEN <<>> ELSE <<passage>>)
<1>2. /\ after.head = pumped - lost /\ after.flow = flow
      /\ after.points = Append(m.points, p) /\ after.clamped = FALSE
      /\ after.passages = m.passages \o (IF station = None THEN <<>> ELSE <<passage>>)
  <2> DEFINE clamps == input.scenario.gravity /\ pumped < elevation + vapour
             head == IF clamps THEN elevation + vapour ELSE pumped
             left == head - lost
             points == Append(m.points, Point(c, elevation, head, flow, velocity, vapour))
             clamped == m.clamped \/ clamps
  <2>1. after = [head |-> left, flow |-> flow, clamped |-> clamped, points |-> points, passages |-> passages]
    BY <1>1, Zenon DEF Through
  <2>2. ~clamps
    <3> DEFINE shallow == pumped < elevation + vapour
    <3> HIDE DEF shallow
    <3> QED
      OBVIOUS
  <2>3. head = pumped
    <3> HIDE DEF clamps, pumped
    <3> QED
      BY <2>2
  <2>4. left = pumped - lost /\ points = Append(m.points, p)
    <3> HIDE DEF head, pumped, lost
    <3> QED
      BY <2>3
  <2>6. clamped = FALSE
    <3> HIDE DEF clamps
    <3> QED
      BY <2>2
  <2> HIDE DEF left, points, clamped, passages, flow
  <2>5. after.head = left /\ after.flow = flow /\ after.points = points /\ after.passages = passages
        /\ after.clamped = clamped
    BY <2>1
  <2> QED
    BY <2>4, <2>5, <2>6 DEF passages
<1>3. c \in Int /\ length \in Int
  BY DEF c
<1>4. /\ FittingK(line, c) \in Int /\ InjectionAt(line, c) \in Int /\ elevation \in Int
      /\ segment.speed \in Int /\ segment.drag \in Int
      /\ station = None \/ station \in LineStationType
  <2>1. OnLine(line, c) /\ line \in LineType /\ IsChain(line)
    OBVIOUS
  <2> HIDE DEF c
  <2>2. /\ FittingK(line, c) \in Int /\ InjectionAt(line, c) \in Int /\ Elevation(line, c) \in Int
        /\ Governing(line, c).speed \in Nat /\ Governing(line, c).drag \in Nat
        /\ StationAt(line, c) = None \/ StationAt(line, c) \in LineStationType
    BY ONLY <1>3, <2>1, HereType, Zenon
  <2> QED
    BY <2>2
<1>5. flow \in Int
  BY <1>4
<1>6. velocity \in Int
  <2> HIDE DEF flow, segment
  <2> QED
    BY <1>4, <1>5
<1>7. minor \in Int /\ vapour \in Int /\ lost \in Int
  <2>1. minor \in Int /\ Drop(segment.drag, velocity) \in Int
    <3> HIDE DEF velocity, c, segment
    <3> QED
      BY <1>4, <1>6, DropType
  <2>2. lost \in Int
    <3> DEFINE per == Drop(segment.drag, velocity)
    <3>1. per \in Int /\ length \in Int
      BY <1>3, <2>1
    <3> HIDE DEF per, length
    <3> QED
      BY <3>1 DEF per
  <2> QED
    BY <2>1, <2>2
<1>8. gain \in Int /\ (station # None => StationHead(station, flow) \in Int)
  <2>1. CASE station # None
    <3>1. station \in LineStationType
      BY <1>4, <2>1
    <3>2. station.groups \in Seq(Groups) /\ station.bypassK \in Int
      BY <3>1 DEF LineStationType
    <3> HIDE DEF station, flow, velocity
    <3>3. StationHead(station, flow) \in Int
      BY <1>5, <3>2, StationHeadType
    <3>4. BypassLoss(station, velocity) \in Int
      <4>1. Drop(station.bypassK, velocity) \in Int
        BY <1>6, <3>2, DropType
      <4> QED
        BY <4>1 DEF BypassLoss
    <3> QED
      BY <2>1, <3>3, <3>4
  <2>2. CASE station = None
    BY <2>2
  <2> QED
    BY <2>1, <2>2
<1>9. /\ FittingLoss(line, c, after.flow) = minor /\ IntervalLoss(line, grid, i, after.flow) = lost
      /\ Gain(line, c, after.flow) = gain
  <2>1. FittingLoss(line, c, flow) = minor /\ IntervalLoss(line, grid, i, flow) = lost
    BY Zenon DEF FittingLoss, IntervalLoss
  <2>2. Gain(line, c, flow) = gain
    BY Zenon DEF Gain
  <2> HIDE DEF flow, minor, lost, c, gain
  <2> QED
    BY <1>2, <2>1, <2>2
<1>10. HeadAt(line, c, m.head, after.flow) = pumped
  <2> HIDE DEF c, minor, gain
  <2> QED
    BY <1>9 DEF HeadAt
<1> HIDE DEF c, segment, length, flow, velocity, elevation, vapour, minor, lost, gain, station
<1>11. suction \in Int /\ pumped \in Int
  <2>1. suction \in Int
    BY <1>7
  <2> HIDE DEF suction
  <2> QED
    BY <1>8, <2>1
<1>12. /\ after.passages \in Seq(Passages)
       /\ \A k \in DOMAIN m.passages : k \in DOMAIN after.passages /\ after.passages[k] = m.passages[k]
       /\ station # None => \E k \in DOMAIN after.passages : after.passages[k].flow = flow
       /\ station = None => after.passages = m.passages
  <2>1. CASE station = None
    BY <1>2, <2>1
  <2>2. CASE station # None
    <3> DEFINE s == suction - elevation
               d == pumped - elevation
               h == StationHead(station, flow)
    <3>1. s \in Int /\ d \in Int /\ h \in Int /\ station \in LineStationType
      <4> HIDE DEF suction, pumped
      <4> QED
        BY <1>4, <1>8, <1>11, <2>2
    <3>2. passage = [station |-> station, flow |-> flow, suction |-> s, discharge |-> d, head |-> h]
      BY Zenon DEF Passage
    <3> HIDE DEF s, d, h, passage
    <3>3. passage \in Passages /\ passage.flow = flow
      BY <1>5, <3>1, <3>2 DEF Passages
    <3>4. after.passages = Append(m.passages, passage)
      BY <1>2, <2>2, <3>3
    <3> DEFINE n == Len(m.passages)
               after0 == Append(m.passages, passage)
    <3>5. /\ after0 \in Seq(Passages) /\ DOMAIN after0 = 1..(n + 1) /\ n \in Nat /\ DOMAIN m.passages = 1..n
          /\ after0[n + 1] = passage /\ \A k \in 1..n : after0[k] = m.passages[k]
      BY <3>3
    <3>6. n + 1 \in DOMAIN after0 /\ \A k \in 1..n : k \in DOMAIN after0
      BY <3>5
    <3> HIDE DEF after0, n
    <3> QED
      BY <2>2, <3>3, <3>4, <3>5, <3>6 DEF after0
  <2> QED
    BY <2>1, <2>2
<1>13. p \in PointType /\ p.grade = pumped /\ p.elevation = elevation /\ p.pressure = p.grade - p.elevation
  <2> DEFINE below == pumped - elevation <= vapour
             pressure == pumped - elevation
  <2>1. below \in BOOLEAN /\ pressure \in Int
    BY <1>4, <1>11
  <2>2. p = [at |-> c, elevation |-> elevation, pressure |-> pressure, grade |-> pumped,
             flow |-> flow, velocity |-> velocity, below |-> below]
    BY Zenon DEF Point
  <2> HIDE DEF p, below, pressure
  <2>3. p \in PointType /\ p.pressure = pressure /\ p.grade = pumped /\ p.elevation = elevation
    BY <1>3, <1>4, <1>5, <1>6, <1>11, <2>1, <2>2 DEF PointType
  <2> QED
    BY <2>3 DEF pressure
<1> HIDE DEF p, pumped, passage, passages, suction
<1>14. after.head = pumped - lost /\ after.head \in Int /\ after.flow \in Int
  BY <1>2, <1>5, <1>7, <1>11
<1>15. /\ after.flow = m.flow + InjectionAt(line, grid[i])
       /\ after.head = HeadAt(line, grid[i], m.head, after.flow) - IntervalLoss(line, grid, i, after.flow)
  BY <1>2, <1>9, <1>10, <1>14 DEF c, flow
<1>16. /\ StationAt(line, grid[i]) # None => \E k \in DOMAIN after.passages : after.passages[k].flow = after.flow
       /\ StationAt(line, grid[i]) = None => after.passages = m.passages
  BY <1>2, <1>12 DEF station, c
<1>17. \E q \in PointType : /\ after.points = Append(m.points, q)
                            /\ q.grade = HeadAt(line, grid[i], m.head, after.flow) /\ q.grade \in Int
                            /\ q.elevation = Elevation(line, grid[i]) /\ q.elevation \in Int
                            /\ q.pressure = q.grade - q.elevation
  <2>1. HeadAt(line, grid[i], m.head, after.flow) = pumped /\ Elevation(line, grid[i]) = elevation
    BY <1>10 DEF c, elevation
  <2>2. pumped \in Int /\ elevation \in Int
    BY <1>4, <1>11
  <2> QED
    BY <1>2, <1>13, <2>1, <2>2
<1> QED
  BY <1>2, <1>12, <1>14, <1>15, <1>16, <1>17 DEF Advances

\* A bypass loses head; the constructors take its coefficient as it comes.
BypassesLose(line) == \A i \in DOMAIN line.stations : line.stations[i].bypassK >= 0

\* A station within reach is one of the line.
LEMMA StationFound ==
    ASSUME NEW line \in LineType, NEW c, StationAt(line, c) # None
    PROVE  \E i \in DOMAIN line.stations : StationAt(line, c) = line.stations[i]
<1> DEFINE near == {i \in DOMAIN line.stations : Near(line.stations[i], c)}
<1>1. near # {} /\ StationAt(line, c) = line.stations[Min(near)]
  BY DEF StationAt
<1>2. DOMAIN line.stations = 1..Len(line.stations) /\ Len(line.stations) \in Nat
  BY LineParts
<1>3. near \subseteq DOMAIN line.stations /\ near \subseteq Int
  BY <1>2
<1>4. IsFiniteSet(near)
  <2>1. IsFiniteSet(DOMAIN line.stations)
    BY <1>2, FS_Interval
  <2> HIDE DEF near
  <2> QED
    BY <1>3, <2>1, FS_Subset
<1>5. Min(near) \in near
  <2> HIDE DEF near
  <2> QED
    BY <1>1, <1>3, <1>4, MinOf
<1> QED
  BY <1>1, <1>5

\* A unit more of flow is a greater velocity.
LEMMA Faster ==
    ASSUME NEW line \in LineType, IsChain(line), NEW c \in Int, OnLine(line, c), NEW flow \in Int
    PROVE  /\ flow * Governing(line, c).speed \in Int /\ (flow + 1) * Governing(line, c).speed \in Int
           /\ flow * Governing(line, c).speed < (flow + 1) * Governing(line, c).speed
           /\ Governing(line, c).drag \in Nat \ {0}
<1>1. Governing(line, c) \in SegmentType
  BY HereType
<1>2. Governing(line, c).speed \in Nat \ {0} /\ Governing(line, c).drag \in Nat \ {0}
  BY <1>1 DEF SegmentType
<1> DEFINE speed == Governing(line, c).speed
<1> HIDE DEF speed
<1>3. speed \in Nat \ {0}
  BY <1>2 DEF speed
<1>4. flow * speed \in Int /\ (flow + 1) * speed \in Int /\ flow * speed < (flow + 1) * speed
  BY <1>3, Z3
<1> QED
  BY <1>2, <1>4 DEF speed

\* A unit more of flow: the head at a point does not rise, and falls if it entered lower.
LEMMA HeadAtFalls ==
    ASSUME NEW line \in LineType, IsChain(line), BypassesLose(line), NEW c \in Int, OnLine(line, c),
           NEW head \in Int, NEW lower \in Int, lower <= head, NEW flow \in Int,
           StationAt(line, c) # None => flow >= 0
    PROVE  /\ HeadAt(line, c, head, flow) \in Int /\ HeadAt(line, c, lower, flow + 1) \in Int
           /\ HeadAt(line, c, lower, flow + 1) <= HeadAt(line, c, head, flow)
           /\ lower < head => HeadAt(line, c, lower, flow + 1) < HeadAt(line, c, head, flow)
<1> DEFINE v == flow * Governing(line, c).speed
           w == (flow + 1) * Governing(line, c).speed
           station == StationAt(line, c)
           k == FittingK(line, c)
           x == FittingLoss(line, c, flow)
           y == FittingLoss(line, c, flow + 1)
           a == Gain(line, c, flow)
           b == Gain(line, c, flow + 1)
<1>1. v \in Int /\ w \in Int /\ v < w
  BY Faster
<1>2. x \in Int /\ y \in Int /\ x <= y
  <2>1. k \in Nat /\ x = Drop(k, v) /\ y = Drop(k, w)
    BY FittingKNatural DEF FittingLoss
  <2> HIDE DEF v, w, k, x, y
  <2> QED
    BY <1>1, <2>1, DropGrows
<1>3. a \in Int /\ b \in Int /\ b <= a
  <2>1. CASE station = None
    BY <2>1 DEF Gain
  <2>2. CASE station # None
    <3>1. PICK i \in DOMAIN line.stations : station = line.stations[i]
      BY <2>2, StationFound
    <3>2. station \in LineStationType /\ station.bypassK >= 0
      BY <3>1, LineParts DEF BypassesLose
    <3>3. station.groups \in Seq(Groups) /\ station.bypassK \in Nat /\ flow \in Nat
      BY <2>2, <3>2 DEF LineStationType
    <3>4. a = StationHead(station, flow) - BypassLoss(station, v) /\ b = StationHead(station, flow + 1) - BypassLoss(station, w)
      BY <2>2 DEF Gain
    <3> HIDE DEF station, v, w, a, b
    <3>5. /\ StationHead(station, flow) \in Int /\ StationHead(station, flow + 1) \in Int
          /\ StationHead(station, flow + 1) <= StationHead(station, flow)
      <4>1. StationHead(station, flow + 1) <= StationHead(station, flow)
        BY <3>3, StationHeadFalls
      <4>2. flow \in Int /\ flow + 1 \in Int
        OBVIOUS
      <4>3. StationHead(station, flow) \in Nat /\ StationHead(station, flow + 1) \in Nat
        BY <3>3, <4>2, StationHeadType
      <4> QED
        BY <4>1, <4>3
    <3>6. BypassLoss(station, v) \in Int /\ BypassLoss(station, w) \in Int /\ BypassLoss(station, v) <= BypassLoss(station, w)
      <4>1. Drop(station.bypassK, v) \in Int /\ Drop(station.bypassK, w) \in Int
            /\ Drop(station.bypassK, v) <= Drop(station.bypassK, w)
        BY <1>1, <3>3, DropGrows
      <4> QED
        BY <4>1 DEF BypassLoss
    <3> QED
      BY <3>4, <3>5, <3>6
  <2> QED
    BY <2>1, <2>2
<1>4. HeadAt(line, c, head, flow) = (head - x) + a /\ HeadAt(line, c, lower, flow + 1) = (lower - y) + b
  BY DEF HeadAt
<1> HIDE DEF x, y, a, b
<1> QED
  BY <1>2, <1>3, <1>4

\* The friction along what follows grows with it.
LEMMA IntervalLossGrows ==
    ASSUME NEW line \in LineType, IsChain(line), NEW grid \in Seq(Int), NEW i \in 1..Len(grid), OnLine(line, grid[i]),
           \A j, k \in 1..Len(grid) : j < k => grid[j] < grid[k], NEW flow \in Int
    PROVE  /\ IntervalLoss(line, grid, i, flow) \in Int /\ IntervalLoss(line, grid, i, flow + 1) \in Int
           /\ IntervalLoss(line, grid, i, flow) <= IntervalLoss(line, grid, i, flow + 1)
           /\ i < Len(grid) => IntervalLoss(line, grid, i, flow) < IntervalLoss(line, grid, i, flow + 1)
<1> DEFINE c == grid[i]
           v == flow * Governing(line, c).speed
           w == (flow + 1) * Governing(line, c).speed
           drag == Governing(line, c).drag
           length == IF i = Len(grid) THEN 0 ELSE grid[i + 1] - grid[i]
           x == Drop(drag, v)
           y == Drop(drag, w)
<1>1. c \in Int
  OBVIOUS
<1>2. v \in Int /\ w \in Int /\ v < w /\ drag \in Nat \ {0}
  <2> HIDE DEF c
  <2>1. OnLine(line, c)
    BY DEF c
  <2> QED
    BY <1>1, <2>1, Faster
<1>3. x \in Int /\ y \in Int /\ x < y
  <2> HIDE DEF v, w, drag
  <2>1. drag \in Nat /\ drag > 0
    BY <1>2
  <2> QED
    BY ONLY <1>2, <2>1, DropGrows DEF x, y
<1>4. length \in Nat /\ (i < Len(grid) => length > 0)
  <2>1. CASE i = Len(grid)
    BY <2>1
  <2>2. CASE i # Len(grid)
    <3>1. i \in 1..Len(grid) /\ i + 1 \in 1..Len(grid) /\ i < i + 1
      BY <2>2
    <3>2. grid[i] < grid[i + 1] /\ grid[i] \in Int /\ grid[i + 1] \in Int
      BY <3>1
    <3> QED
      BY <2>2, <3>2
  <2> QED
    BY <2>1, <2>2
<1>5. IntervalLoss(line, grid, i, flow) = x * length /\ IntervalLoss(line, grid, i, flow + 1) = y * length
  BY Zenon DEF IntervalLoss
<1> HIDE DEF x, y, length
<1>6. x * length \in Int /\ y * length \in Int /\ x * length <= y * length
  BY <1>3, <1>4, Z3
<1>7. length > 0 => x * length < y * length
  BY <1>3, <1>4, Z3
<1> QED
  BY <1>4, <1>5, <1>6, <1>7

(***************************************************************************)
(* A whole march.                                                          *)
(***************************************************************************)
Marches(line, grid, flow, pressure, march, m) ==
    /\ m[0].head = Elevation(line, grid[1]) + pressure /\ m[0].head \in Int /\ m[0].flow = flow
    /\ \A i \in 1..Len(grid) : Advances(line, grid, i, m[i - 1], m[i])
    /\ Outlet(march).grade = HeadAt(line, grid[Len(grid)], m[Len(grid) - 1].head, m[Len(grid)].flow)
    /\ Outlet(march).elevation = Elevation(line, grid[Len(grid)]) /\ Outlet(march).grade \in Int
    /\ Outlet(march).pressure = Outlet(march).grade - Outlet(march).elevation
    /\ ~march.clamped /\ march.points[1].elevation = Elevation(line, grid[1])
    /\ (\A i \in 1..Len(grid) : StationAt(line, grid[i]) = None) => march.passages = <<>>
    /\ \A i \in 1..Len(grid) :
          StationAt(line, grid[i]) # None => \E k \in DOMAIN march.passages : march.passages[k].flow = m[i].flow

\* From the inlet to the outlet, point by point.
LEMMA MarchAdvances ==
    ASSUME NEW line \in LineType, IsChain(line), NEW input, input.state.vapour \in Int,
           input.scenario.gravity = FALSE, NEW grid \in Seq(Int), Len(grid) > 0,
           \A i \in 1..Len(grid) : OnLine(line, grid[i]), NEW flow \in Int, NEW pressure \in Int,
           NEW march, march = MarchAlong(line, input, grid, flow, pressure)
    PROVE  \E m : Marches(line, grid, flow, pressure, march, m)
<1> DEFINE n == Len(grid)
<1>1. n \in Nat /\ n > 0
  OBVIOUS
<1>2. ASSUME NEW i \in 1..n PROVE grid[i] \in Int /\ OnLine(line, grid[i])
  OBVIOUS
<1>3. PICK m : /\ m[0] = Entering(line, grid, flow, pressure)
               /\ \A i \in 1..n : m[i] = Pass(line, input, grid, m[i - 1], i)
               /\ march = m[n]
  BY <1>1, MarchUnfolds
<1> DEFINE start == Elevation(line, grid[1]) + pressure
<1>4. m[0].head = start /\ start \in Int /\ m[0].flow = flow /\ m[0].points = <<>> /\ m[0].passages = <<>>
      /\ m[0].clamped = FALSE
  <2>1. 1 \in 1..n
    BY <1>1
  <2>2. Elevation(line, grid[1]) \in Int
    BY <1>2, <2>1, HereType
  <2> QED
    BY <1>3, <2>2 DEF Entering
<1> HIDE DEF start
<1> DEFINE Typed(k) == Enters(m[k]) /\ m[k].passages \in Seq(Passages) /\ Len(m[k].points) = k /\ m[k].clamped = FALSE
           Step(k) == k > 0 => Advances(line, grid, k, m[k - 1], m[k])
           Held(k) == \A i \in 1..k : StationAt(line, grid[i]) # None =>
                         \E j \in DOMAIN m[k].passages : m[k].passages[j].flow = m[i].flow
           Plain(k) == /\ (\A i \in 1..k : StationAt(line, grid[i]) = None) => m[k].passages = <<>>
                       /\ k > 0 => m[k].points[1].elevation = Elevation(line, grid[1])
           S == {k \in 0..n : Typed(k) /\ Step(k) /\ Held(k) /\ Plain(k)}
<1>5. 0 \in S
  <2>1. Typed(0)
    <3>1. \A X0 : <<>> \in Seq(X0)
      OBVIOUS
    <3> QED
      BY <1>4, <3>1 DEF Enters
  <2>2. Step(0) /\ Held(0)
    OBVIOUS
  <2>3. Plain(0)
    BY <1>4
  <2> HIDE DEF Typed, Step, Held, Plain
  <2> QED
    BY <1>1, <2>1, <2>2, <2>3
<1>6. ASSUME NEW k \in 0..(n - 1), k \in S PROVE k + 1 \in S
  <2> DEFINE i == k + 1
             before == m[k]
             after == m[i]
  <2>1. i \in 1..n /\ i - 1 = k /\ i > 0 /\ i \in 0..n
    BY <1>1
  <2>2. Typed(k) /\ Held(k) /\ Plain(k)
    BY <1>6
  <2>3. after = Pass(line, input, grid, before, i)
    BY <1>3, <2>1
  <2>4. Enters(before) /\ before.passages \in Seq(Passages) /\ Len(before.points) = k /\ before.clamped = FALSE
    BY <2>2
  <2> HIDE DEF before, after, i, n
  <2>5. Advances(line, grid, i, before, after)
    <3>1. i \in 1..Len(grid) /\ OnLine(line, grid[i])
      BY <1>2, <2>1 DEF n
    <3> QED
      BY <2>3, <2>4, <3>1, PassAdvances
  <2>6. Step(i)
    BY <2>1, <2>5 DEF before, after
  <2>7. Enters(after) /\ after.passages \in Seq(Passages) /\ Len(after.points) = i /\ after.clamped = FALSE
    <3>1. after.head \in Int /\ after.flow \in Int /\ after.passages \in Seq(Passages) /\ after.clamped = FALSE
          /\ \E p \in PointType : after.points = Append(before.points, p)
      BY <2>5 DEF Advances
    <3>2. before.points \in Seq(PointType)
      BY <2>4 DEF Enters
    <3>3. after.points \in Seq(PointType) /\ Len(after.points) = k + 1
      BY <2>4, <3>1, <3>2
    <3> QED
      BY <3>1, <3>3 DEF Enters, i
  <2>8. Held(i)
    <3> SUFFICES ASSUME NEW j \in 1..i, StationAt(line, grid[j]) # None
                 PROVE  \E l \in DOMAIN m[i].passages : m[i].passages[l].flow = m[j].flow
      OBVIOUS
    <3>1. CASE j = i
      BY <2>5, <3>1 DEF Advances, after
    <3>2. CASE j # i
      <4>1. j \in 1..k
        BY <2>1, <3>2 DEF i
      <4>2. PICK l \in DOMAIN before.passages : before.passages[l].flow = m[j].flow
        BY <2>2, <4>1 DEF before
      <4>3. l \in DOMAIN after.passages /\ after.passages[l] = before.passages[l]
        BY <2>5, <4>2 DEF Advances
      <4> QED
        BY <4>2, <4>3 DEF after
    <3> QED
      BY <3>1, <3>2
  <2>9. Typed(i)
    BY <2>7 DEF after
  <2>10. Plain(i)
    <3>1. PICK p \in PointType : after.points = Append(before.points, p) /\ p.elevation = Elevation(line, grid[i])
      BY <2>5 DEF Advances
    <3>2. before.points \in Seq(PointType)
      BY <2>4 DEF Enters
    <3>3. after.points[1].elevation = Elevation(line, grid[1])
      <4>1. CASE k = 0
        <5>1. after.points[1] = p /\ i = 1
          BY <2>4, <3>1, <3>2, <4>1 DEF i
        <5> QED
          BY <3>1, <5>1
      <4>2. CASE k > 0
        <5>1. after.points[1] = before.points[1]
          BY <2>4, <3>1, <3>2, <4>2
        <5>2. before.points[1].elevation = Elevation(line, grid[1])
          BY <2>2, <4>2 DEF before
        <5> QED
          BY <5>1, <5>2
      <4> QED
        BY <1>1, <4>1, <4>2
    <3>4. ASSUME \A j \in 1..i : StationAt(line, grid[j]) = None PROVE after.passages = <<>>
      <4>1. \A j \in 1..k : StationAt(line, grid[j]) = None
        BY <2>1, <3>4 DEF i
      <4>2. before.passages = <<>>
        BY <2>2, <4>1 DEF before
      <4>3. StationAt(line, grid[i]) = None
        BY <2>1, <3>4
      <4> QED
        BY <2>5, <4>2, <4>3 DEF Advances
    <3> QED
      BY <3>3, <3>4 DEF after
  <2> HIDE DEF Typed, Step, Held, Plain
  <2> QED
    BY <2>1, <2>6, <2>8, <2>9, <2>10 DEF i
<1> HIDE DEF S
<1>7. \A k \in 0..n : k \in S
  BY <1>1, <1>5, <1>6, UpTo
<1>8. \A k \in 0..n : Typed(k) /\ Step(k) /\ Held(k) /\ Plain(k)
  BY <1>7 DEF S
<1>9. \A i \in 1..n : Advances(line, grid, i, m[i - 1], m[i])
  <2> SUFFICES ASSUME NEW i \in 1..n PROVE Advances(line, grid, i, m[i - 1], m[i])
    OBVIOUS
  <2>1. i \in 0..n /\ i > 0
    BY <1>1
  <2> QED
    BY <1>8, <2>1
<1>10. n \in 1..n /\ n \in 0..n /\ n - 1 \in 0..n
  BY <1>1
<1>11. \A i \in 1..n : StationAt(line, grid[i]) # None => \E k \in DOMAIN march.passages : march.passages[k].flow = m[i].flow
  <2>1. Held(n)
    BY <1>8, <1>10
  <2> HIDE DEF n
  <2> QED
    BY <1>3, <2>1
<1>12. /\ Outlet(march).grade = HeadAt(line, grid[n], m[n - 1].head, m[n].flow) /\ Outlet(march).grade \in Int
       /\ Outlet(march).elevation = Elevation(line, grid[n])
       /\ Outlet(march).pressure = Outlet(march).grade - Outlet(march).elevation
  <2>1. PICK p \in PointType : /\ m[n].points = Append(m[n - 1].points, p)
                               /\ p.grade = HeadAt(line, grid[n], m[n - 1].head, m[n].flow) /\ p.grade \in Int
                               /\ p.elevation = Elevation(line, grid[n]) /\ p.pressure = p.grade - p.elevation
    BY <1>9, <1>10 DEF Advances
  <2>2. m[n - 1].points \in Seq(PointType)
    BY <1>8, <1>10 DEF Enters
  <2>3. m[n].points[Len(m[n].points)] = p
    BY <2>1, <2>2
  <2> QED
    BY <1>3, <2>1, <2>3 DEF Outlet
<1>13. /\ ~march.clamped /\ march.points[1].elevation = Elevation(line, grid[1])
       /\ (\A i \in 1..n : StationAt(line, grid[i]) = None) => march.passages = <<>>
  <2>1. Typed(n) /\ Plain(n)
    BY <1>8, <1>10
  <2> HIDE DEF n
  <2> QED
    BY <1>1, <1>3, <2>1
<1>14. Marches(line, grid, flow, pressure, march, m)
  BY <1>4, <1>9, <1>11, <1>12, <1>13 DEF Marches, start
<1> QED
  BY <1>14

\* One unit more of flow, from the same inlet pressure.
LEMMA MarchFalls ==
    ASSUME NEW line \in LineType, IsChain(line), BypassesLose(line), NEW grid \in Seq(Int), Len(grid) > 1,
           \A i \in 1..Len(grid) : OnLine(line, grid[i]),
           \A i, j \in 1..Len(grid) : i < j => grid[i] < grid[j],
           NEW flow \in Int, NEW pressure \in Int, NEW A, NEW B, NEW C, NEW a, NEW b, NEW c,
           Marches(line, grid, flow, pressure, A, a), Marches(line, grid, flow + 1, pressure, B, b),
           Marches(line, grid, flow, 1, C, c), \A k \in DOMAIN C.passages : C.passages[k].flow >= 0
    PROVE  /\ Outlet(A).pressure \in Int /\ Outlet(B).pressure \in Int
           /\ Outlet(B).pressure < Outlet(A).pressure
<1> DEFINE n == Len(grid)
           Falls(k) == /\ a[k].head \in Int /\ b[k].head \in Int /\ a[k].flow \in Int
                       /\ c[k].flow = a[k].flow /\ b[k].flow = a[k].flow + 1
                       /\ b[k].head <= a[k].head /\ (k > 0 /\ k < n => b[k].head < a[k].head)
           S == {k \in 0..n : Falls(k)}
<1>1. n \in Nat /\ n > 1
  OBVIOUS
<1>2. ASSUME NEW i \in 1..n
      PROVE  /\ grid[i] \in Int /\ OnLine(line, grid[i]) /\ InjectionAt(line, grid[i]) \in Int
             /\ Advances(line, grid, i, a[i - 1], a[i]) /\ Advances(line, grid, i, b[i - 1], b[i])
             /\ Advances(line, grid, i, c[i - 1], c[i])
  <2>1. grid[i] \in Int /\ OnLine(line, grid[i])
    OBVIOUS
  <2>2. Advances(line, grid, i, a[i - 1], a[i]) /\ Advances(line, grid, i, b[i - 1], b[i])
        /\ Advances(line, grid, i, c[i - 1], c[i])
    BY DEF Marches
  <2> QED
    BY <2>1, <2>2, HereType
<1>3. 0 \in S
  <2>1. /\ a[0].head = b[0].head /\ a[0].head \in Int /\ a[0].flow = flow /\ b[0].flow = flow + 1 /\ c[0].flow = flow
    BY DEF Marches
  <2>2. Falls(0)
    BY <1>1, <2>1
  <2> HIDE DEF Falls
  <2> QED
    BY <1>1, <2>2
<1>4. ASSUME NEW i \in 1..n, Falls(i - 1)
      PROVE  /\ a[i].flow \in Int /\ c[i].flow = a[i].flow /\ b[i].flow = a[i].flow + 1
             /\ StationAt(line, grid[i]) # None => a[i].flow >= 0
  <2> DEFINE more == InjectionAt(line, grid[i])
  <2>1. more \in Int /\ a[i].flow = a[i - 1].flow + more /\ b[i].flow = b[i - 1].flow + more /\ c[i].flow = c[i - 1].flow + more
    BY <1>2 DEF Advances
  <2>2. a[i - 1].flow \in Int /\ c[i - 1].flow = a[i - 1].flow /\ b[i - 1].flow = a[i - 1].flow + 1
    BY <1>4
  <2> HIDE DEF more, Falls
  <2>3. a[i].flow \in Int /\ c[i].flow = a[i].flow /\ b[i].flow = a[i].flow + 1
    BY <2>1, <2>2
  <2>4. ASSUME StationAt(line, grid[i]) # None PROVE c[i].flow >= 0
    <3>1. PICK k \in DOMAIN C.passages : C.passages[k].flow = c[i].flow
      BY <2>4 DEF Marches
    <3> QED
      BY <3>1
  <2> QED
    BY <2>3, <2>4
<1>5. ASSUME NEW i \in 1..n, Falls(i - 1)
      PROVE  LET x == HeadAt(line, grid[i], a[i - 1].head, a[i].flow)
                 y == HeadAt(line, grid[i], b[i - 1].head, b[i].flow)
             IN  x \in Int /\ y \in Int /\ y <= x /\ (b[i - 1].head < a[i - 1].head => y < x)
  <2> DEFINE p == grid[i]
             f == a[i].flow
             high == a[i - 1].head
             low == b[i - 1].head
  <2>1. f \in Int /\ b[i].flow = f + 1 /\ (StationAt(line, p) # None => f >= 0)
    BY <1>4, <1>5
  <2>2. high \in Int /\ low \in Int /\ low <= high
    BY <1>5
  <2>3. p \in Int /\ OnLine(line, p)
    BY <1>2
  <2> HIDE DEF p, f, high, low, Falls
  <2>4. /\ HeadAt(line, p, high, f) \in Int /\ HeadAt(line, p, low, f + 1) \in Int
        /\ HeadAt(line, p, low, f + 1) <= HeadAt(line, p, high, f)
        /\ low < high => HeadAt(line, p, low, f + 1) < HeadAt(line, p, high, f)
    BY <2>1, <2>2, <2>3, HeadAtFalls
  <2> QED
    BY <2>1, <2>4 DEF p, f, high, low
<1>6. ASSUME NEW k \in 0..(n - 1), k \in S PROVE k + 1 \in S
  <2> DEFINE i == k + 1
             x == HeadAt(line, grid[i], a[k].head, a[i].flow)
             y == HeadAt(line, grid[i], b[k].head, b[i].flow)
             f == a[i].flow
             u == IntervalLoss(line, grid, i, f)
             v == IntervalLoss(line, grid, i, f + 1)
  <2>0. Falls(k)
    BY <1>6
  <2>1. i \in 1..n /\ i - 1 = k /\ i \in 0..n /\ Falls(k)
    <3>1. i \in 1..n /\ i - 1 = k /\ i \in 0..n
      BY <1>1
    <3> HIDE DEF Falls
    <3> QED
      BY <2>0, <3>1
  <2> HIDE DEF Falls
  <2>2. x \in Int /\ y \in Int /\ y <= x
    <3> HIDE DEF i
    <3>1. k = i - 1
      BY <2>1
    <3> QED
      BY <1>5, <2>1, <3>1
  <2>3. f \in Int /\ c[i].flow = f /\ b[i].flow = f + 1
    <3> HIDE DEF i
    <3>1. k = i - 1
      BY <2>1
    <3> QED
      BY <1>4, <2>1, <3>1
  <2>4. u \in Int /\ v \in Int /\ u <= v /\ (i < n => u < v)
    <3> HIDE DEF i, f
    <3> QED
      BY <1>2, <2>1, <2>3, IntervalLossGrows
  <2>5. a[i].head = x - u /\ b[i].head = y - v
    <3> HIDE DEF i
    <3>1. Advances(line, grid, i, a[i - 1], a[i]) /\ Advances(line, grid, i, b[i - 1], b[i])
      BY <1>2, <2>1
    <3>2. a[i].head = HeadAt(line, grid[i], a[i - 1].head, a[i].flow) - IntervalLoss(line, grid, i, a[i].flow)
          /\ b[i].head = HeadAt(line, grid[i], b[i - 1].head, b[i].flow) - IntervalLoss(line, grid, i, b[i].flow)
      BY <3>1 DEF Advances
    <3> QED
      BY <2>1, <2>3, <3>2
  <2> HIDE DEF x, y, u, v, i
  <2>6. a[i].head \in Int /\ b[i].head \in Int /\ b[i].head <= a[i].head /\ (i < n => b[i].head < a[i].head)
    BY <2>2, <2>4, <2>5
  <2>7. Falls(i)
    BY <2>3, <2>6 DEF Falls
  <2> QED
    BY <2>1, <2>7 DEF i
<1> HIDE DEF S
<1>7. \A k \in 0..n : k \in S
  BY <1>1, <1>3, <1>6, UpTo
<1>8. n \in 1..n /\ n - 1 \in 0..n /\ Falls(n - 1) /\ n - 1 > 0 /\ n - 1 < n
  BY <1>1, <1>7 DEF S
<1>9. b[n - 1].head < a[n - 1].head
  BY <1>8
<1> DEFINE x == HeadAt(line, grid[n], a[n - 1].head, a[n].flow)
           y == HeadAt(line, grid[n], b[n - 1].head, b[n].flow)
           e == Elevation(line, grid[n])
<1>10. x \in Int /\ y \in Int /\ y < x
  <2> HIDE DEF Falls, n
  <2> QED
    BY <1>5, <1>8, <1>9
<1>11. e \in Int
  BY <1>2, <1>8, HereType
<1>12. /\ Outlet(A).pressure = x - e /\ Outlet(B).pressure = y - e
  BY DEF Marches
<1> HIDE DEF x, y, e
<1> QED
  BY <1>10, <1>11, <1>12

\* One unit more of flow leaves less pressure at the outlet.
LEMMA GapFalls ==
    ASSUME LineInv, Searching, ~SearchesInlet(study), ~study.scenario.gravity, NEW q \in Nat,
           \A s \in Studies : BypassesLose(s.line),
           \A k \in DOMAIN March(study, q, 1).passages : March(study, q, 1).passages[k].flow >= 0
    PROVE  LET p == InletPressure(study.line, study.scenario)
           IN  OutletGap(study, q + 1, p) < OutletGap(study, q, p)
<1> DEFINE line == Resolved(study)
           step == study.scenario.step
           grid == Grid(line, step)
           p == InletPressure(study.line, study.scenario)
           goal == OutletPressure(study.line, study.scenario)
<1>1. PICK s \in Studies : study = Frozen(s)
  BY DEF LineInv, Searching, Ready, Solving
<1>2. /\ study.line = s.line /\ study.line \in LineType /\ IsScenario(study.scenario) /\ IsSheet(study.fluid)
      /\ study.state = FluidState(study.fluid, study.scenario.temperature)
  BY <1>1, FrozenParts, LineAssumption DEF IsStudy
<1>3. TopologyIsValid(study.line) /\ study.state # Refused
  BY DEF Searching, Ready, IsValid
<1>4. IsChain(study.line) /\ \A i \in DOMAIN study.line.injections : OnLine(study.line, study.line.injections[i].at)
  BY <1>3 DEF TopologyIsValid, IsChain
<1>5. /\ line \in LineType /\ IsChain(line)
      /\ LineStart(line) = LineStart(study.line) /\ LineEnd(line) = LineEnd(study.line)
      /\ line.injections = study.line.injections
  BY <1>2, <1>4, ResolvedLine
<1>6. step \in Nat \ {0} /\ study.scenario.temperature \in Maybe(Int) /\ study.scenario.gravity = FALSE
  BY <1>2 DEF IsScenario
<1>7. study.state.vapour \in Int
  BY <1>2, <1>3, <1>6, VapourType
<1>8. \A i \in DOMAIN line.injections : OnLine(line, line.injections[i].at)
  BY <1>4, <1>5 DEF OnLine
<1>9. p \in Int /\ goal \in Int
  <2>1. p \in Maybe(Int) /\ goal \in Maybe(Int)
    BY <1>1, BoundariesType
  <2>2. p # None /\ goal # None
    BY DEF Searching, SearchesInlet, Determined, IsDirect
  <2> QED
    BY <2>1, <2>2 DEF Maybe
<1>10. BypassesLose(line)
  <2>1. BypassesLose(study.line)
    BY <1>2
  <2> DEFINE sc == study.scenario
             stations == [i \in DOMAIN study.line.stations |-> ResolvedStation(study.line.stations[i], sc)]
             segments == [i \in DOMAIN study.line.segments |-> ResolvedSegment(study.line.segments[i], sc)]
  <2>2. line = [study.line EXCEPT !.segments = segments, !.stations = stations]
    BY Zenon DEF Resolved
  <2> HIDE DEF segments, stations
  <2>3. line.stations = stations
    BY <1>2, <2>2 DEF LineType
  <2>4. \A i \in DOMAIN study.line.stations : study.line.stations[i] \in LineStationType
    BY <1>2, LineParts
  <2>5. ASSUME NEW i \in DOMAIN study.line.stations PROVE ResolvedStation(study.line.stations[i], sc).bypassK = study.line.stations[i].bypassK
    <3> DEFINE t == study.line.stations[i]
               status == IF t.id \in DOMAIN sc.stations THEN sc.stations[t.id] ELSE t.status
               groups == [j \in DOMAIN t.groups |-> {ResolvedPump(x, sc) : x \in t.groups[j]}]
    <3>1. ResolvedStation(t, sc) = [t EXCEPT !.status = status, !.groups = groups]
      BY Zenon DEF ResolvedStation
    <3>2. t \in LineStationType
      BY <2>4
    <3> HIDE DEF t, status, groups
    <3>3. ResolvedStation(t, sc).bypassK = t.bypassK
      BY <3>1, <3>2 DEF LineStationType
    <3> QED
      BY <3>3 DEF t
  <2> HIDE DEF line, sc
  <2> QED
    BY <2>1, <2>3, <2>5 DEF BypassesLose, stations
<1>11. ASSUME NEW flow, NEW pressure PROVE March(study, flow, pressure) = MarchAlong(line, study, grid, flow, pressure)
  BY DEF March, MarchOf
<1> DEFINE A == March(study, q, p)
           B == March(study, q + 1, p)
           C == March(study, q, 1)
<1>12. OutletGap(study, q, p) = Outlet(A).pressure - goal /\ OutletGap(study, q + 1, p) = Outlet(B).pressure - goal
  BY DEF OutletGap
<1>13. A = MarchAlong(line, study, grid, q, p) /\ B = MarchAlong(line, study, grid, q + 1, p)
       /\ C = MarchAlong(line, study, grid, q, 1)
  BY <1>11
<1>14. \A k \in DOMAIN C.passages : C.passages[k].flow >= 0
  OBVIOUS
<1>20. grid = Grid(line, step)
  OBVIOUS
<1> HIDE DEF line, step, grid, p, goal, A, B, C
<1>15. HasPoints(line, study.state.vapour, step, grid, q, A.points)
  <2>1. q \in Int
    OBVIOUS
  <2> QED
    BY ONLY <1>5, <1>6, <1>7, <1>8, <1>9, <1>13, <1>20, <2>1, MarchPoints, Zenon
<1>16. /\ grid \in Seq(Int) /\ Len(grid) > 0 /\ \A i, j \in 1..Len(grid) : i < j => grid[i] < grid[j]
       /\ \A i \in 1..Len(grid) : OnLine(line, grid[i])
       /\ Len(grid) > 1
  <2>1. /\ grid \in Seq(Int) /\ Len(grid) > 0 /\ \A i, j \in 1..Len(grid) : i < j => grid[i] < grid[j]
        /\ \A x \in Chainages(line, step) : \E i \in 1..Len(grid) : grid[i] = x
        /\ \A i \in 1..Len(grid) : grid[i] \in Chainages(line, step)
    BY <1>15 DEF HasPoints
  <2>2. /\ \A x \in Chainages(line, step) : OnLine(line, x)
        /\ LineStart(line) \in Chainages(line, step) /\ LineEnd(line) \in Chainages(line, step)
        /\ LineStart(line) \in Int /\ LineEnd(line) \in Int /\ LineStart(line) < LineEnd(line)
    BY <1>5, <1>6, PointsOfLine
  <2>3. PICK i \in 1..Len(grid) : grid[i] = LineStart(line)
    BY <2>1, <2>2
  <2>4. PICK j \in 1..Len(grid) : grid[j] = LineEnd(line)
    BY <2>1, <2>2
  <2>5. i # j
    BY <2>2, <2>3, <2>4
  <2>6. Len(grid) \in Nat
    BY <2>1
  <2>7. Len(grid) > 1
    BY <2>3, <2>4, <2>5, <2>6
  <2> QED
    BY <2>1, <2>2, <2>7
<1>17. ASSUME NEW flow \in Int, NEW pressure \in Int, NEW march, march = MarchAlong(line, study, grid, flow, pressure)
       PROVE  \E m : Marches(line, grid, flow, pressure, march, m)
  BY <1>5, <1>6, <1>7, <1>16, <1>17, MarchAdvances
<1>18. /\ \E m : Marches(line, grid, q, p, A, m)
       /\ \E m : Marches(line, grid, q + 1, p, B, m)
       /\ \E m : Marches(line, grid, q, 1, C, m)
  <2>1. q \in Int /\ q + 1 \in Int /\ p \in Int /\ 1 \in Int
    BY <1>9
  <2> QED
    BY <1>13, <1>17, <2>1
<1>19. /\ Outlet(A).pressure \in Int /\ Outlet(B).pressure \in Int
       /\ Outlet(B).pressure < Outlet(A).pressure
  <2>1. PICK a : Marches(line, grid, q, p, A, a)
    BY <1>18
  <2>2. PICK b : Marches(line, grid, q + 1, p, B, b)
    BY <1>18
  <2>3. PICK c : Marches(line, grid, q, 1, C, c)
    BY <1>18
  <2>4. q \in Int /\ p \in Int
    BY <1>9
  <2> QED
    BY <1>5, <1>10, <1>14, <1>16, <2>1, <2>2, <2>3, <2>4, MarchFalls
<1>21. OutletGap(study, q + 1, p) < OutletGap(study, q, p)
  BY <1>9, <1>12, <1>19
<1> QED
  BY <1>21 DEF p

\* What makes the operating point unique, for every line of which the bypasses lose head.
THEOREM OutletFalls ==
    ASSUME \A s \in Studies : BypassesLose(s.line)
    PROVE  LineSpec => []OutletFallsWithFlow
<1>1. LineInv => OutletFallsWithFlow
  <2> SUFFICES ASSUME LineInv, Searching, ~SearchesInlet(study), ~study.scenario.gravity,
                      NEW q \in DOMAIN Gaps(study), q + 1 \in DOMAIN Gaps(study),
                      \A k \in DOMAIN March(study, q, 1).passages : March(study, q, 1).passages[k].flow >= 0
               PROVE  Gaps(study)[q + 1] < Gaps(study)[q]
    BY DEF OutletFallsWithFlow, FallsAlong
  <2> DEFINE top == Max(TriedBounds(FirstBound(study), HardBound(study)))
             p == InletPressure(study.line, study.scenario)
  <2>1. \A x \in 0..top : Gaps(study)[x] = OutletGap(study, x, p)
    <3> HIDE DEF top
    <3>1. \A x \in 0..top : [y \in 0..top |->
              OutletGap(study, IF SearchesInlet(study) THEN study.scenario.flow ELSE y,
                        IF SearchesInlet(study) THEN y ELSE InletPressure(study.line, study.scenario))][x] = OutletGap(study, x, p)
      OBVIOUS
    <3> QED
      BY <3>1, Zenon DEF Gaps, top
  <2>2. DOMAIN Gaps(study) = 0..top
    BY Zenon DEF Gaps
  <2> HIDE DEF top
  <2>3. q \in Nat /\ q \in 0..top /\ q + 1 \in 0..top
    BY <2>2
  <2>4. OutletGap(study, q + 1, p) < OutletGap(study, q, p)
    BY <2>3, GapFalls
  <2> QED
    BY <2>1, <2>3, <2>4
<1> QED
  BY <1>1, ResultsAreBuilt, PTL

(***************************************************************************)
(* The second engine.  Without stations, injections and overrides the flow *)
(* is the same all along, and what the march sums interval by interval is  *)
(* what a segment loses as a whole.                                        *)
(***************************************************************************)
WidthsOf(segment, points) == [i \in Intervals(segment, points) |-> points[i + 1].at - points[i].at]

\* The intervals of a segment are its length.
LEMMA WidthsAreLength ==
    ASSUME NEW line \in LineType, IsChain(line), NEW step \in Nat \ {0}, NEW grid, NEW points,
           GridOver(line, step, grid, points), NEW s \in 1..Len(line.segments)
    PROVE  LET segment == line.segments[s]
           IN  /\ IsFiniteSet(Intervals(segment, points))
               /\ WidthsOf(segment, points) \in [Intervals(segment, points) -> Int]
               /\ \A i \in Intervals(segment, points) : i \in DOMAIN points
               /\ SumOver(WidthsOf(segment, points)) = segment.to - segment.from
<1> DEFINE segment == line.segments[s]
           from == segment.from
           to == segment.to
           n == Len(grid)
           w == WidthsOf(segment, points)
<1>1. /\ n \in Nat \ {0} /\ DOMAIN points = 1..n
      /\ \A i \in 1..n : points[i].at = grid[i] /\ grid[i] \in Int
      /\ \A i, j \in 1..n : i < j => grid[i] < grid[j]
      /\ \A c \in Chainages(line, step) : \E i \in 1..n : grid[i] = c
  BY DEF GridOver
<1>2. from \in Int /\ to \in Int /\ from < to
  BY LineParts
<1>3. from \in Chainages(line, step) /\ to \in Chainages(line, step)
  BY PointsOfLine
<1> HIDE DEF from, to, n
<1>4. PICK a \in 1..n : grid[a] = from
  BY <1>1, <1>3
<1>5. PICK b \in 1..n : grid[b] = to
  BY <1>1, <1>3
<1>6. a < b
  BY <1>1, <1>2, <1>4, <1>5
<1>7. \A i \in 1..n : (from <= grid[i] /\ grid[i] <= to) <=> (a <= i /\ i <= b)
  BY <1>1, <1>2, <1>4, <1>5
<1>8. Inside(segment, points) = a..b
  <2>1. Inside(segment, points) = {i \in 1..n : from <= grid[i] /\ grid[i] <= to}
    BY <1>1 DEF Inside, from, to
  <2>2. a \in Nat /\ b \in Nat /\ a >= 1 /\ b <= n
    BY <1>1
  <2> QED
    BY <1>1, <1>7, <2>1, <2>2
<1>9. Intervals(segment, points) = a..(b - 1)
  <2>1. a \in Int /\ b \in Int
    BY <1>1
  <2> QED
    BY <1>8, <2>1 DEF Intervals
<1>10. \A i \in a..(b - 1) : i \in 1..n /\ i + 1 \in 1..n
  BY <1>1
<1>11. \A i \in a..(b - 1) : points[i + 1].at = grid[i + 1] /\ points[i].at = grid[i] /\ grid[i + 1] - grid[i] \in Int
  BY <1>1, <1>10
<1>12. w = [i \in a..(b - 1) |-> points[i + 1].at - points[i].at]
  BY <1>9 DEF WidthsOf
<1>13. w \in [a..(b - 1) -> Int] /\ \A i \in a..(b - 1) : w[i] = grid[i + 1] - grid[i]
  BY <1>11, <1>12
<1> HIDE DEF w
<1>14. SumOver(w) = grid[b] - grid[a]
  <2>1. a \in Int /\ b \in Int /\ a <= b /\ \A i \in a..b : grid[i] \in Int
    BY <1>1, <1>6
  <2> QED
    BY <1>13, <2>1, Telescopes
<1>15. IsFiniteSet(a..(b - 1))
  <2>1. a \in Int /\ b - 1 \in Int
    BY <1>1
  <2> QED
    BY <2>1, FS_Interval
<1> QED
  BY <1>1, <1>4, <1>5, <1>9, <1>10, <1>13, <1>14, <1>15 DEF w, from, to

\* A quantity over a length, spread evenly.
LEMMA MeanOfEqual ==
    ASSUME NEW d \in Nat \ {0}, NEW q \in Int
    PROVE  (d * q) \div d = q
<1> DEFINE a == d * q
           x == a \div d
<1>1. a \in Int /\ q * d = a
  BY Z3
<1> HIDE DEF a
<1>2. x \in Int /\ x * d <= a /\ a < x * d + d /\ q <= x
  BY <1>1, Quotient, QuotientAtLeast
<1> HIDE DEF x
<1>3. q * d < (x + 1) * d /\ x * d <= q * d
  BY <1>1, <1>2, Z3
<1>4. x <= q
  BY <1>2, <1>3, Z3
<1> QED
  BY <1>2, <1>4 DEF x, a

SameFlow(grid, points, q) == q \in Int /\ \A i \in 1..Len(grid) : points[i].flow = q

\* Fittings that see one velocity lose what one fitting of their coefficients together does.
LEMMA LossesTogether ==
    ASSUME NEW segment \in SegmentType, NEW v \in Int
    PROVE  /\ TotalK(segment) \in Int /\ Drop(TotalK(segment), v) \in Int
           /\ SumOver([j \in DOMAIN segment.fittings |-> Drop(EffectiveK(segment.fittings[j]), v)]) = Drop(TotalK(segment), v)
<1> DEFINE D == DOMAIN segment.fittings
           f == [j \in D |-> EffectiveK(segment.fittings[j])]
           h == [j \in D |-> Drop(EffectiveK(segment.fittings[j]), v)]
           y == v * Magnitude(v)
<1>1. IsFiniteSet(D) /\ \A j \in D : segment.fittings[j] \in FittingType
  <2>1. segment.fittings \in Seq(FittingType)
    BY DEF SegmentType
  <2>2. \A q \in Seq(FittingType) : DOMAIN q = 1..Len(q) /\ Len(q) \in Nat /\ \A j \in DOMAIN q : q[j] \in FittingType
    OBVIOUS
  <2>3. DOMAIN segment.fittings = 1..Len(segment.fittings) /\ Len(segment.fittings) \in Nat
    BY <2>1, <2>2
  <2>4. IsFiniteSet(1..Len(segment.fittings))
    BY <2>3, FS_Interval
  <2>5. IsFiniteSet(D)
    BY <2>3, <2>4
  <2>6. \A j \in D : segment.fittings[j] \in FittingType
    BY <2>1, <2>2
  <2> QED
    BY <2>5, <2>6
<1>2. f \in [D -> Int] /\ \A j \in D : f[j] = EffectiveK(segment.fittings[j])
  BY <1>1, EffectiveKNatural
<1>3. y \in Int /\ \A k \in Int : Drop(k, v) = k * y /\ Drop(k, v) \in Int
  <2>1. Magnitude(v) \in Int
    BY DropType
  <2> DEFINE x == Magnitude(v)
  <2>2. \A k \in Int : Drop(k, v) = k * v * x
    BY DEF Drop
  <2> HIDE DEF x
  <2>3. \A k \in Int : k * v * x = k * (v * x) /\ k * (v * x) \in Int /\ v * x \in Int
    BY <2>1, Z3 DEF x
  <2> QED
    BY <2>2, <2>3 DEF x
<1>4. h \in [D -> Int] /\ \A j \in D : h[j] = f[j] * y
  <2>1. \A j \in D : EffectiveK(segment.fittings[j]) \in Int
    BY <1>1, EffectiveKNatural
  <2> HIDE DEF y
  <2>2. \A j \in D : Drop(EffectiveK(segment.fittings[j]), v) = EffectiveK(segment.fittings[j]) * y
                     /\ Drop(EffectiveK(segment.fittings[j]), v) \in Int
    BY <1>3, <2>1
  <2> QED
    BY <2>2
<1>5. TotalK(segment) = SumOver(f)
  BY DEF TotalK
<1> HIDE DEF f, h, y
<1>6. Scales(h, f, y, D)
  BY <1>1, <1>2, <1>3, <1>4 DEF Scales
<1>7. SumOver(h) = SumOver(f) * y
  BY ONLY <1>6, SumScaled
<1>8. SumOver(f) \in Int
  BY <1>1, <1>2, SumTerm
<1>9. Drop(SumOver(f), v) = SumOver(f) * y /\ Drop(SumOver(f), v) \in Int
  BY <1>3, <1>8
<1> QED
  BY <1>5, <1>7, <1>8, <1>9 DEF h

\* What a segment loses, in head under Gravity.
HeadFriction(segment, flow) == Drop(segment.drag, flow * segment.speed) * (segment.to - segment.from)
HeadMinor(segment, flow)    == Drop(TotalK(segment), flow * segment.speed)

\* What is reported of a segment the flow does not change along.
LEMMA EvenLosses ==
    ASSUME NEW line \in LineType, IsChain(line), NEW step \in Nat \ {0}, NEW grid, NEW points,
           GridOver(line, step, grid, points), NEW q, SameFlow(grid, points, q), NEW s \in 1..Len(line.segments)
    PROVE  /\ SegmentLosses(line, points, s).friction = HeadFriction(line.segments[s], q)
           /\ SegmentLosses(line, points, s).minor = HeadMinor(line.segments[s], q)
           /\ HeadFriction(line.segments[s], q) \in Int /\ HeadMinor(line.segments[s], q) \in Int
<1> DEFINE segment == line.segments[s]
           I == Intervals(segment, points)
           w == WidthsOf(segment, points)
           width(i) == points[i + 1].at - points[i].at
           v == q * segment.speed
           d == Drop(segment.drag, v)
           length == segment.to - segment.from
           f == [i \in I |-> Drop(segment.drag, points[i].flow * segment.speed) * width(i)]
           carried == [i \in I |-> points[i].flow * width(i)]
<1>1. /\ IsFiniteSet(I) /\ w \in [I -> Int] /\ \A i \in I : i \in DOMAIN points
      /\ SumOver(w) = length
  BY WidthsAreLength
<1>2. segment \in SegmentType /\ q \in Int /\ DOMAIN points = 1..Len(grid)
      /\ \A i \in 1..Len(grid) : points[i].flow = q
  BY LineParts DEF SameFlow, GridOver
<1>3. segment.speed \in Int /\ segment.drag \in Int /\ length \in Nat \ {0}
  <2>1. segment.from \in Int /\ segment.to \in Int /\ segment.from < segment.to
    BY <1>2 DEF SegmentType
  <2>2. segment.speed \in Nat \ {0} /\ segment.drag \in Nat \ {0}
    BY <1>2 DEF SegmentType
  <2> QED
    BY <2>1, <2>2
<1> HIDE DEF segment
<1>4. v \in Int
  BY <1>2, <1>3
<1>5. d \in Int
  <2> HIDE DEF v
  <2> QED
    BY <1>3, <1>4, DropType
<1>6. \A i \in I : points[i].flow = q /\ w[i] = width(i) /\ w[i] \in Int
  <2>1. \A i \in I : w[i] = width(i)
    BY DEF WidthsOf
  <2> HIDE DEF w, I, width
  <2> QED
    BY <1>1, <1>2, <2>1
<1>7. SumOver(f) = length * d
  <2>1. \A i \in I : f[i] = w[i] * d /\ f[i] \in Int
    <3> SUFFICES ASSUME NEW i \in I PROVE f[i] = w[i] * d /\ f[i] \in Int
      OBVIOUS
    <3>1. f[i] = Drop(segment.drag, points[i].flow * segment.speed) * width(i)
      OBVIOUS
    <3>2. points[i].flow = q /\ w[i] = width(i) /\ w[i] \in Int
      BY <1>6
    <3>3. f[i] = d * w[i]
      <4> HIDE DEF f, w, width
      <4> QED
        BY <3>1, <3>2
    <3> HIDE DEF f, d, w
    <3> QED
      BY <1>5, <3>2, <3>3
  <2>2. f \in [I -> Int]
    <3>1. f = [i \in I |-> f[i]]
      OBVIOUS
    <3> HIDE DEF f
    <3> QED
      BY <2>1, <3>1
  <2> HIDE DEF f, w, d, I
  <2>3. Scales(f, w, d, I)
    BY <1>1, <1>5, <2>1, <2>2 DEF Scales
  <2>4. SumOver(f) = SumOver(w) * d
    BY ONLY <2>3, SumScaled
  <2> QED
    BY <1>1, <2>4
<1>8. SumOver(carried) = length * q
  <2>1. \A i \in I : carried[i] = w[i] * q /\ carried[i] \in Int
    <3> SUFFICES ASSUME NEW i \in I PROVE carried[i] = w[i] * q /\ carried[i] \in Int
      OBVIOUS
    <3>1. carried[i] = points[i].flow * width(i)
      OBVIOUS
    <3>2. points[i].flow = q /\ w[i] = width(i) /\ w[i] \in Int
      BY <1>6
    <3> HIDE DEF carried, w, width
    <3> QED
      BY <1>2, <3>1, <3>2
  <2>2. carried \in [I -> Int]
    <3>1. carried = [i \in I |-> carried[i]]
      OBVIOUS
    <3> HIDE DEF carried
    <3> QED
      BY <2>1, <3>1
  <2> HIDE DEF carried, w, I
  <2>3. Scales(carried, w, q, I)
    BY <1>1, <1>2, <2>1, <2>2 DEF Scales
  <2>4. SumOver(carried) = SumOver(w) * q
    BY ONLY <2>3, SumScaled
  <2> QED
    BY <1>1, <2>4
<1> DEFINE mean == SumOver(carried) \div length
<1>9. mean = q
  <2> HIDE DEF carried, length
  <2> QED
    BY <1>2, <1>3, <1>8, MeanOfEqual
<1> DEFINE inside == Inside(segment, points)
           flowAt(c) == IF \E i \in inside : points[i].at = c
                        THEN points[CHOOSE i \in inside : points[i].at = c].flow ELSE mean
           k == [j \in DOMAIN segment.fittings |-> Drop(EffectiveK(segment.fittings[j]), flowAt(FittingAt(segment, segment.fittings[j])) * segment.speed)]
           l == [j \in DOMAIN segment.fittings |-> Drop(EffectiveK(segment.fittings[j]), v)]
<1>10. ASSUME NEW c PROVE flowAt(c) = q
  <2>1. CASE \E i \in inside : points[i].at = c
    <3> DEFINE x == CHOOSE i \in inside : points[i].at = c
    <3>1. x \in inside
      <4> HIDE DEF inside
      <4> QED
        BY <2>1
    <3>2. x \in DOMAIN points
      <4> HIDE DEF x
      <4> QED
        BY <3>1 DEF Inside
    <3>3. flowAt(c) = points[x].flow
      BY <2>1
    <3> HIDE DEF x, flowAt
    <3> QED
      BY <1>2, <3>2, <3>3
  <2>2. CASE ~(\E i \in inside : points[i].at = c)
    <3>1. flowAt(c) = mean
      BY <2>2
    <3> HIDE DEF flowAt, mean
    <3> QED
      BY <1>9, <3>1
  <2> QED
    BY <2>1, <2>2
<1>11. SegmentLosses(line, points, s).friction = SumOver(f) /\ SegmentLosses(line, points, s).minor = SumOver(k)
  BY DEF SegmentLosses, Intervals, Inside, segment
<1> HIDE DEF flowAt, mean, inside, f, carried
<1>12. k = l
  BY <1>10
<1>13. SumOver(l) = Drop(TotalK(segment), v) /\ Drop(TotalK(segment), v) \in Int
  <2> HIDE DEF v
  <2> QED
    BY <1>2, <1>4, LossesTogether
<1>14. HeadMinor(segment, q) = Drop(TotalK(segment), v) /\ HeadFriction(segment, q) = d * length
  BY DEF HeadMinor, HeadFriction
<1>15. length * d = d * length /\ d * length \in Int
  <2> HIDE DEF d, length
  <2> QED
    BY <1>3, <1>5
<1> HIDE DEF k, l, d, v, length
<1> QED
  BY <1>7, <1>11, <1>12, <1>13, <1>14, <1>15 DEF segment

\* A scenario that overrides nothing leaves a line without stations as it is.
LEMMA PlainLine ==
    ASSUME NEW input, input.line \in LineType, input.line.stations = <<>>,
           DOMAIN input.scenario.segments = {}
    PROVE  Resolved(input) = input.line
<1> DEFINE line == input.line
           sc == input.scenario
           segments == [i \in DOMAIN line.segments |-> ResolvedSegment(line.segments[i], sc)]
           stations == [i \in DOMAIN line.stations |-> ResolvedStation(line.stations[i], sc)]
<1>1. segments = line.segments
  <2>1. \A i \in DOMAIN line.segments : ResolvedSegment(line.segments[i], sc) = line.segments[i]
    BY DEF ResolvedSegment
  <2>2. line.segments = [i \in DOMAIN line.segments |-> line.segments[i]]
    <3>1. line.segments \in Seq(SegmentType)
      BY DEF LineType
    <3>2. \A s \in Seq(SegmentType) : s = [i \in DOMAIN s |-> s[i]]
      OBVIOUS
    <3> QED
      BY <3>1, <3>2
  <2> QED
    BY <2>1, <2>2
<1>2. stations = line.stations
  <2>1. stations = [i \in {} |-> ResolvedStation(line.stations[i], sc)]
    <3>1. DOMAIN line.stations = {}
      OBVIOUS
    <3> QED
      BY <3>1
  <2>2. <<>> = [i \in {} |-> ResolvedStation(line.stations[i], sc)]
    OBVIOUS
  <2> QED
    BY <2>1, <2>2
<1>3. Resolved(input) = [line EXCEPT !.segments = segments, !.stations = stations]
  BY DEF Resolved
<1> HIDE DEF segments, stations
<1>4. Resolved(input) = [line EXCEPT !.segments = line.segments, !.stations = line.stations]
  BY <1>1, <1>2, <1>3
<1> QED
  BY <1>4 DEF LineType

\* What the second engine is compared to: a study that is read has the result of the march
\* from its own flow and pressure, and an answer kept is one of the library.
DirectAnswers ==
    simulated # None /\ IsValid(study) /\ study.state # Refused /\ IsDirect(study) =>
        simulated = Built(study, study.scenario.flow, InletPressure(study.line, study.scenario), 0)

AnswerKept ==
    compared # None =>
        /\ simulated # None
        /\ compared.status = "converged" =>
              /\ ~IsUnsupported /\ IsValid(study) /\ study.state # Refused
              /\ \E deviation \in Deviations : compared = ComparedWith(study.line, study.scenario, deviation)

EngineInv == LineInv /\ DirectAnswers /\ AnswerKept

\* The first engine answers a study with a flow and a pressure in one step.
LEMMA DirectKept ==
    ASSUME LineInv, DirectAnswers, [LineNext]_lineVars
    PROVE  DirectAnswers'
<1>1. CASE UNCHANGED lineVars
  BY <1>1 DEF DirectAnswers, lineVars, IsValid
<1>2. ASSUME NEW s \in Studies, SubmitStudy(s) PROVE DirectAnswers'
  BY <1>2 DEF SubmitStudy, LineInv, DirectAnswers
<1>3. CASE RejectStudy
  BY <1>3 DEF RejectStudy, Return, DirectAnswers, IsValid
<1>4. CASE FluidIsUnknown
  BY <1>4 DEF FluidIsUnknown, Return, DirectAnswers
<1>5. CASE MarchOnce
  BY <1>5 DEF MarchOnce, Return, DirectAnswers
<1>6. CASE Undetermined
  BY <1>6 DEF Undetermined, Determined, IsDirect, Return, DirectAnswers
<1>7. CASE SearchUnknown
  <2>1. ~IsDirect(study) /\ study' = study
    BY <1>7 DEF SearchUnknown, Searching, SettleUnknown, Solved, Return
  <2> QED
    BY <2>1 DEF DirectAnswers
<1> QED
  BY <1>1, <1>2, <1>3, <1>4, <1>5, <1>6, <1>7 DEF LineNext, LineStep

\* The second engine answers after the first one, once.
LEMMA AnswersAreKept ==
    ASSUME LineInv, AnswerKept, [ComparisonNext]_engineVars
    PROVE  AnswerKept'
<1>1. CASE UNCHANGED engineVars
  BY <1>1 DEF engineVars, lineVars, AnswerKept, IsUnsupported, IsValid
<1>2. CASE LineNext /\ UNCHANGED compared
  <2>1. simulated = None
    BY <1>2 DEF LineNext, LineStep, LineInv, SubmitStudy, RejectStudy, FluidIsUnknown, MarchOnce, Undetermined,
                SearchUnknown, Searching, Ready, Solving
  <2> QED
    BY <1>2, <2>1 DEF AnswerKept
<1>3. CASE ComparisonStep
  <2>1. Comparing
    BY <1>3 DEF ComparisonStep, RefuseToCompare, CompareInvalid, CompareUnknownFluid, CompareStudy, LibraryDiverges, Translates
  <2>2. simulated' # None /\ study' = study
    BY <2>1 DEF Comparing, lineVars
  <2>3. CASE CompareStudy
    <3>1. \E deviation \in Deviations : compared' = ComparedWith(study.line, study.scenario, deviation)
      BY <2>3 DEF CompareStudy
    <3>2. ~IsUnsupported /\ IsValid(study) /\ study.state # Refused
      BY <2>3 DEF CompareStudy, Translates
    <3>3. ~IsUnsupported'
      BY <2>2, <3>2 DEF IsUnsupported
    <3> QED
      BY <2>2, <3>1, <3>2, <3>3 DEF AnswerKept
  <2>4. CASE \E status \in {"unsupported", "invalid_input", "error", "not_converged"} : compared' = Failed(status)
    BY <2>2, <2>4 DEF AnswerKept, Failed
  <2> QED
    BY <1>3, <2>3, <2>4 DEF ComparisonStep, RefuseToCompare, CompareInvalid, CompareUnknownFluid, LibraryDiverges
<1> QED
  BY <1>1, <1>2, <1>3 DEF ComparisonNext

\* Together.
LEMMA EnginesKept == EngineInv /\ [ComparisonNext]_engineVars => EngineInv'
<1> SUFFICES ASSUME EngineInv, [ComparisonNext]_engineVars PROVE EngineInv'
  OBVIOUS
<1>1. [LineNext]_lineVars
  BY DEF ComparisonNext, engineVars, ComparisonStep, RefuseToCompare, CompareInvalid, CompareUnknownFluid,
         CompareStudy, LibraryDiverges, Translates, Comparing, lineVars
<1>2. LineInv /\ DirectAnswers /\ AnswerKept
  BY DEF EngineInv
<1>3. LineInv'
  BY <1>1, <1>2, ResultsKept
<1> QED
  BY <1>1, <1>2, <1>3, DirectKept, AnswersAreKept DEF EngineInv

\* What is built has converged.
LEMMA BuiltStatus ==
    ASSUME NEW input, NEW flow, NEW pressure, NEW residual
    PROVE  Built(input, flow, pressure, residual).status \in {"converged", "converged_warn"}
<1> DEFINE warned(outcome) ==
             BaseWarnings(input) \cup TransitionWarning(Resolved(input), flow) \cup outcome.warnings \cup outcome.violations
<1>1. ASSUME NEW line, NEW march, NEW outcome
      PROVE  BuiltFrom(input, line, march, outcome, flow, pressure).status \in {"converged", "converged_warn"}
  BY DEF BuiltFrom
<1> QED
  BY <1>1 DEF Built, Checked

\* A case the two engines both answer.
BothAnswer(line, sc, grid) ==
    /\ line = study.line /\ sc = study.scenario /\ line \in LineType /\ IsChain(line) /\ HasResults
    /\ line.stations = <<>> /\ ActiveInjections(line) = {} /\ sc.gravity = FALSE /\ sc.tolerance \in Nat
    /\ sc.flow \in Int /\ sc.inletPressure \in Int
    /\ simulated.flow = sc.flow /\ simulated.inlet = sc.inletPressure
    /\ Resolved(study) = line /\ ResultParts(study, simulated, line, grid)

\* An answer kept by the second engine is a case of both.
LEMMA ConvergedParts ==
    ASSUME EngineInv, compared # None, compared.status = "converged"
    PROVE  \E grid : BothAnswer(study.line, study.scenario, grid)
<1> DEFINE line == study.line
           sc == study.scenario
<1>1. simulated # None /\ ~IsUnsupported /\ IsValid(study) /\ study.state # Refused
  BY DEF EngineInv, AnswerKept
<1>2. PICK s \in Studies : study = Frozen(s)
  BY <1>1 DEF EngineInv, LineInv
<1>3. line \in LineType /\ IsScenario(sc)
  BY <1>2, FrozenParts, LineAssumption DEF IsStudy
<1>4. IsChain(line)
  BY <1>1 DEF IsValid, TopologyIsValid, IsChain
<1>5. /\ line.stations = <<>> /\ ~sc.gravity /\ DOMAIN sc.segments = {}
      /\ \A i \in DOMAIN line.injections : ~line.injections[i].active
      /\ sc.flow # None /\ sc.inletPressure # None
  BY <1>1 DEF IsUnsupported, Untranslatable
<1>6. sc.gravity = FALSE /\ sc.tolerance \in Nat /\ sc.flow \in Int /\ sc.inletPressure \in Int
  BY <1>3, <1>5 DEF IsScenario, Maybe
<1>7. ActiveInjections(line) = {}
  BY <1>5 DEF ActiveInjections
<1>8. Resolved(study) = line
  BY <1>3, <1>5, PlainLine
<1>9. InletPressure(line, sc) = sc.inletPressure
  BY <1>5 DEF InletPressure, EndPressure
<1>10. IsDirect(study)
  BY <1>5, <1>9 DEF IsDirect
<1>11. simulated = Built(study, sc.flow, sc.inletPressure, 0)
  BY <1>1, <1>9, <1>10 DEF EngineInv, DirectAnswers
<1>12. HasResults
  BY <1>1, <1>11, BuiltStatus DEF HasResults
<1>13. simulated.flow = sc.flow /\ simulated.inlet = sc.inletPressure
  BY <1>11, BuiltFields
<1>14. LineInv
  BY DEF EngineInv
<1>15. PICK l, grid : ResultParts(study, simulated, l, grid)
  BY <1>12, <1>14, ResultIsMade
<1>16. l = line
  BY <1>8, <1>15 DEF ResultParts
<1> QED
  BY <1>3, <1>4, <1>5, <1>6, <1>7, <1>8, <1>12, <1>13, <1>15, <1>16 DEF BothAnswer

\* The flow of such a case is the same all along.
LEMMA FlowIsEven ==
    ASSUME NEW line, NEW sc, NEW grid, BothAnswer(line, sc, grid)
    PROVE  /\ GridOver(line, sc.step, grid, simulated.march.points) /\ sc.step \in Nat \ {0}
           /\ SameFlow(grid, simulated.march.points, sc.flow)
<1> DEFINE points == simulated.march.points
<1>1. /\ line \in LineType /\ IsChain(line) /\ sc = study.scenario /\ ResultParts(study, simulated, line, grid)
      /\ ActiveInjections(line) = {} /\ sc.flow \in Int /\ simulated.flow = sc.flow
  BY DEF BothAnswer
<1>2. HasPoints(line, study.state.vapour, sc.step, grid, sc.flow, points)
  BY <1>1, ResultPoints
<1>3. sc.step \in Nat \ {0}
  BY <1>1 DEF ResultParts
<1>4. GridOver(line, sc.step, grid, points)
  BY ONLY <1>1, <1>2, <1>3, GridParts, Zenon
<1>5. \A i \in 1..Len(grid) : points[i].flow = sc.flow + Injected(line, {})
  <2>1. InjectionsApart(line, sc.step)
    BY <1>1 DEF InjectionsApart
  <2> DEFINE upTo(i) == {j \in ActiveInjections(line) : line.injections[j].at <= points[i].at}
  <2>2. \A i \in 1..Len(grid) : points[i].flow = sc.flow + Injected(line, upTo(i))
    BY <1>2, <2>1 DEF HasPoints
  <2>3. \A i : upTo(i) = {}
    BY <1>1
  <2> HIDE DEF upTo
  <2> QED
    BY <2>2, <2>3
<1>6. Injected(line, {}) = 0
  BY <1>1, InjectedParts
<1>7. SameFlow(grid, points, sc.flow)
  BY <1>1, <1>5, <1>6 DEF SameFlow
<1> QED
  BY <1>3, <1>4, <1>7

\* The first engine reports what each segment loses in head.
LEMMA LossesAgree ==
    ASSUME NEW line, NEW sc, NEW grid, BothAnswer(line, sc, grid), NEW s \in 1..Len(line.segments)
    PROVE  /\ simulated.losses[s].friction = HeadFriction(line.segments[s], sc.flow)
           /\ simulated.losses[s].minor = HeadMinor(line.segments[s], sc.flow)
           /\ HeadFriction(line.segments[s], sc.flow) \in Int /\ HeadMinor(line.segments[s], sc.flow) \in Int
<1> DEFINE points == simulated.march.points
<1>1. GridOver(line, sc.step, grid, points) /\ sc.step \in Nat \ {0} /\ SameFlow(grid, points, sc.flow)
  BY FlowIsEven
<1>2. line \in LineType /\ IsChain(line) /\ simulated.losses = LossesOf(line, points)
  BY DEF BothAnswer, ResultParts
<1>3. simulated.losses[s] = SegmentLosses(line, points, s)
  BY <1>2, LineParts DEF LossesOf
<1> HIDE DEF points
<1> QED
  BY <1>1, <1>2, <1>3, EvenLosses

\* What a segment loses at the flow of the case, in head and in pressure, and what the library
\* loses by friction more than the first engine.
HeadLosses(line, flow) ==
    [s \in 1..Len(line.segments) |-> HeadFriction(line.segments[s], flow) + HeadMinor(line.segments[s], flow)]
PipeLosses(line, flow, deviation) ==
    [s \in 1..Len(line.segments) |-> PipeFriction(line.segments[s], flow, deviation) + PipeMinor(line.segments[s], flow)]
Excess(segment, flow, deviation) == PipeFriction(segment, flow, deviation) - Gravity * HeadFriction(segment, flow)
Excesses(line, flow, deviation) ==
    [s \in 1..Len(line.segments) |-> Excess(line.segments[s], flow, deviation)]

\* The frictions are as near as the factors.
LEMMA FrictionsAreNear ==
    ASSUME NEW segment \in SegmentType, NEW flow \in Int, NEW deviation, deviation.drag \in (-FactorError)..FactorError
    PROVE  /\ PipeFriction(segment, flow, deviation) \in Int
           /\ Excess(segment, flow, deviation) \in Int
           /\ Magnitude(Excess(segment, flow, deviation))
                 <= Gravity * (Magnitude(Drop(FactorError, flow * segment.speed)) * (segment.to - segment.from))
<1> DEFINE v == flow * segment.speed
           u == v * Magnitude(v)
           l == segment.to - segment.from
           k == segment.drag
           e == deviation.drag
           E == FactorError
           g == Gravity
<1>1. k \in Int /\ e \in Int /\ E \in Nat /\ -E <= e /\ e <= E /\ g \in Nat /\ l \in Nat /\ v \in Int
  BY ComparisonAssumption DEF SegmentType
<1>2. Magnitude(v) \in Int
  BY <1>1 DEF Magnitude
<1> DEFINE m == Magnitude(v)
<1>3. u \in Int /\ u = v * m /\ m \in Int
  <2> HIDE DEF v
  <2> QED
    BY <1>1, <1>2
<1>4. \A x \in Int : x * v * m = x * u
  <2>1. v \in Int /\ m \in Int /\ u = v * m
    BY <1>1, <1>3
  <2> HIDE DEF v, m, u
  <2> QED
    BY <2>1, Z3
<1>5. /\ PipeFriction(segment, flow, deviation) = g * (((k + e) * v * m) * l)
      /\ HeadFriction(segment, flow) = (k * v * m) * l
      /\ Drop(E, v) = E * v * m
  BY DEF PipeFriction, HeadFriction, Drop
<1> HIDE DEF v, m, u, l, k, e, E, g
<1>6. /\ PipeFriction(segment, flow, deviation) = g * (((k + e) * u) * l)
      /\ HeadFriction(segment, flow) = (k * u) * l
      /\ Drop(E, v) = E * u
  <2>1. k + e \in Int /\ k \in Int /\ E \in Int
    BY <1>1
  <2>2. (k + e) * v * m = (k + e) * u /\ k * v * m = k * u /\ E * v * m = E * u
    BY <1>4, <2>1
  <2> QED
    BY <1>5, <2>2
<1> DEFINE a == k * u
           b == e * u
<1>7. a \in Int /\ b \in Int /\ (k + e) * u = a + b
  BY <1>1, <1>3, Z3
<1>8. Magnitude(b) <= Magnitude(E * u) /\ Magnitude(E * u) \in Nat
  <2>1. CASE u >= 0
    <3>1. e * u <= E * u /\ -(E * u) <= e * u /\ E * u \in Nat /\ e * u \in Int
      BY <1>1, <1>3, <2>1, Z3
    <3> QED
      BY <3>1 DEF Magnitude
  <2>2. CASE u < 0
    <3>1. E * u <= e * u /\ e * u <= -(E * u) /\ -(E * u) \in Nat /\ e * u \in Int /\ E * u \in Int
      BY <1>1, <1>3, <2>2, Z3
    <3> QED
      BY <3>1 DEF Magnitude
  <2> QED
    BY <1>3, <2>1, <2>2
<1> DEFINE w == Magnitude(E * u)
<1> HIDE DEF a, b, w
<1>9. /\ g * ((a + b) * l) \in Int /\ g * (b * l) \in Int
      /\ g * ((a + b) * l) - g * (a * l) = g * (b * l)
  BY <1>1, <1>7, Z3
<1>10. Magnitude(g * (b * l)) <= g * (w * l)
  <2>1. b \in Int /\ w \in Nat /\ -w <= b /\ b <= w
    BY <1>7, <1>8 DEF Magnitude, w
  <2>2. b * l <= w * l /\ -(w * l) <= b * l /\ b * l \in Int /\ w * l \in Int
    BY <1>1, <2>1, Z3
  <2> DEFINE x == b * l
             y == w * l
  <2>3. x <= y /\ -y <= x /\ x \in Int /\ y \in Int
    BY <2>2
  <2> HIDE DEF x, y
  <2>4. g * x <= g * y /\ -(g * y) <= g * x /\ g * x \in Int /\ g * y \in Int
    BY <1>1, <2>3, Z3
  <2>5. Magnitude(g * x) <= g * y
    BY <2>4 DEF Magnitude
  <2> QED
    BY <2>5 DEF x, y
<1>11. Excess(segment, flow, deviation) = g * ((a + b) * l) - g * (a * l)
  BY <1>6, <1>7 DEF Excess, a, g
<1>12. PipeFriction(segment, flow, deviation) = g * ((a + b) * l)
  BY <1>6, <1>7
<1>13. Magnitude(Drop(FactorError, flow * segment.speed)) = w
  BY <1>6 DEF w, E, v
<1> QED
  BY <1>9, <1>10, <1>11, <1>12, <1>13 DEF g, l

\* The pressure is the head under the gravity of the first engine, and the excess of friction.
LEMMA LossesConvert ==
    ASSUME NEW line \in LineType, NEW flow \in Int, NEW deviation, deviation.drag \in (-FactorError)..FactorError,
           \A s \in 1..Len(line.segments) :
              HeadFriction(line.segments[s], flow) \in Int /\ HeadMinor(line.segments[s], flow) \in Int
    PROVE  /\ \A s \in 1..Len(line.segments) :
                 /\ PipeMinor(line.segments[s], flow) = Gravity * HeadMinor(line.segments[s], flow)
                 /\ PipeFriction(line.segments[s], flow, deviation) \in Int /\ PipeMinor(line.segments[s], flow) \in Int
           /\ PipeLosses(line, flow, deviation) \in [1..Len(line.segments) -> Int]
           /\ SumOver(HeadLosses(line, flow)) \in Int /\ SumOver(Excesses(line, flow, deviation)) \in Int
           /\ SumOver(PipeLosses(line, flow, deviation))
                 = SumOver(HeadLosses(line, flow)) * Gravity + SumOver(Excesses(line, flow, deviation))
<1> DEFINE D == 1..Len(line.segments)
           hf(s) == HeadFriction(line.segments[s], flow)
           hm(s) == HeadMinor(line.segments[s], flow)
           pf(s) == PipeFriction(line.segments[s], flow, deviation)
           pm(s) == PipeMinor(line.segments[s], flow)
           ex(s) == Excess(line.segments[s], flow, deviation)
           h == HeadLosses(line, flow)
           f == PipeLosses(line, flow, deviation)
           x == Excesses(line, flow, deviation)
           c == [s \in D |-> h[s] * Gravity]
<1>1. Gravity \in Int /\ IsFiniteSet(D)
  <2>1. Len(line.segments) \in Nat
    BY LineParts
  <2>2. IsFiniteSet(1..Len(line.segments))
    BY ONLY <2>1, FS_Interval
  <2>3. Gravity \in Int
    BY ComparisonAssumption
  <2> QED
    BY <2>2, <2>3
<1>2. \A s \in D : pm(s) = Gravity * hm(s) /\ ex(s) = pf(s) - Gravity * hf(s)
  BY DEF PipeMinor, HeadMinor, Excess
<1>3. \A s \in D : hf(s) \in Int /\ hm(s) \in Int
  OBVIOUS
<1>10. \A s \in D : pf(s) \in Int /\ ex(s) \in Int
  <2>1. \A s \in D : line.segments[s] \in SegmentType
    BY LineParts
  <2> QED
    BY <2>1, FrictionsAreNear
<1>4. h = [s \in D |-> hf(s) + hm(s)] /\ f = [s \in D |-> pf(s) + pm(s)] /\ x = [s \in D |-> ex(s)]
  BY DEF HeadLosses, PipeLosses, Excesses
<1> HIDE DEF D, hf, hm, pf, pm, ex, h, f, x
<1>5. \A s \in D : pm(s) \in Int /\ pf(s) + pm(s) = (hf(s) + hm(s)) * Gravity + ex(s)
  <2> SUFFICES ASSUME NEW s \in D
               PROVE  pm(s) \in Int /\ pf(s) + pm(s) = (hf(s) + hm(s)) * Gravity + ex(s)
    OBVIOUS
  <2> DEFINE a == hf(s)
             b == hm(s)
             p == pf(s)
             e == ex(s)
  <2>1. a \in Int /\ b \in Int /\ p \in Int /\ e = p - Gravity * a /\ pm(s) = Gravity * b
    BY <1>2, <1>3, <1>10
  <2> HIDE DEF a, b, p, e
  <2>2. Gravity * a + Gravity * b = (a + b) * Gravity /\ Gravity * a \in Int /\ Gravity * b \in Int
    BY <1>1, <2>1, Z3
  <2> DEFINE y == Gravity * a
             z == Gravity * b
             t == (a + b) * Gravity
  <2>3. y + z = t /\ y \in Int /\ z \in Int /\ p \in Int /\ e = p - y /\ pm(s) = z
    BY <2>1, <2>2
  <2> HIDE DEF y, z, t
  <2>4. pm(s) \in Int /\ p + pm(s) = t + e
    BY <2>3
  <2> QED
    BY <2>4 DEF a, b, p, e, t
<1>6. h \in [D -> Int] /\ f \in [D -> Int] /\ x \in [D -> Int] /\ c \in [D -> Int]
      /\ \A s \in D : c[s] = h[s] * Gravity /\ f[s] = c[s] + x[s]
  <2>1. \A s \in D : hf(s) + hm(s) \in Int /\ pf(s) + pm(s) \in Int
    BY <1>3, <1>5, <1>10
  <2>2. \A s \in D : h[s] = hf(s) + hm(s) /\ f[s] = pf(s) + pm(s) /\ x[s] = ex(s)
    BY <1>4
  <2>3. h \in [D -> Int] /\ f \in [D -> Int] /\ x \in [D -> Int]
    BY <1>4, <1>10, <2>1
  <2>4. \A s \in D : h[s] * Gravity \in Int
    BY <1>1, <2>3
  <2>5. c \in [D -> Int] /\ \A s \in D : c[s] = h[s] * Gravity
    BY <2>4
  <2>6. \A s \in D : f[s] = c[s] + x[s]
    BY <1>5, <2>2, <2>5
  <2> HIDE DEF c
  <2> QED
    BY <2>3, <2>5, <2>6
<1> HIDE DEF c
<1>7. Scales(c, h, Gravity, D) /\ Adds(f, c, x, D)
  BY <1>1, <1>6 DEF Scales, Adds
<1>8. SumOver(c) = SumOver(h) * Gravity
  BY ONLY <1>7, SumScaled
<1>11. SumOver(f) = SumOver(c) + SumOver(x)
  BY ONLY <1>7, SumPlus
<1>9. SumOver(h) \in Int /\ SumOver(x) \in Int
  BY <1>1, <1>6, SumTerm
<1> QED
  BY <1>2, <1>5, <1>6, <1>8, <1>9, <1>10, <1>11 DEF D, hm, pf, pm, h, f, x

\* The heights of the junctions.
LEMMA HeightType ==
    ASSUME NEW line \in LineType
    PROVE  /\ \A j \in Junctions(line) : Height(line, j) \in Int /\ Air(Height(line, j)) \in Int
           /\ Height(line, 1) = Elevation(line, LineStart(line))
           /\ Height(line, Len(line.segments) + 1) = Elevation(line, LineEnd(line))
<1> DEFINE N == Len(line.segments)
<1>1. N \in Nat \ {0} /\ line.profile \in Curves
      /\ \A i \in 1..N : line.segments[i].from \in Int /\ line.segments[i].to \in Int
  BY LineParts
<1>2. Junctions(line) = 1..(N + 1)
  BY DEF Junctions
<1> HIDE DEF N
<1>3. \A j \in 1..(N + 1) : JunctionAt(line, j) \in Int
  <2>1. LineStart(line) \in Int
    BY <1>1 DEF LineStart
  <2>2. \A j \in 1..(N + 1) : j # 1 => j - 1 \in 1..N
    BY <1>1
  <2> QED
    BY <1>1, <2>1, <2>2 DEF JunctionAt
<1>4. \A j \in 1..(N + 1) : Height(line, j) \in Int
  BY <1>1, <1>3, TableValue DEF Height, Elevation
<1>5. \A x \in Int : Air(x) \in Int
  <2>1. Atmosphere \in Int /\ Gravity \in Int /\ LibraryGravity \in Int
    BY LineAssumption, ComparisonAssumption
  <2> QED
    BY <2>1 DEF Air
<1>6. JunctionAt(line, 1) = LineStart(line) /\ JunctionAt(line, N + 1) = LineEnd(line)
  <2>1. N + 1 # 1 /\ (N + 1) - 1 = N
    BY <1>1
  <2> QED
    BY <2>1 DEF JunctionAt, LineEnd, N
<1> QED
  BY <1>2, <1>4, <1>5, <1>6 DEF Height, N

\* What a difference of height makes, one after the other.
LEMMA StaticAdds ==
    ASSUME NEW line, NEW i, NEW j, NEW k,
           Height(line, i) \in Int, Height(line, j) \in Int, Height(line, k) \in Int
    PROVE  Static(line, i, j) \in Int /\ Static(line, i, k) = Static(line, i, j) + Static(line, j, k)
<1> DEFINE x == Height(line, i)
           y == Height(line, j)
           z == Height(line, k)
<1>1. LibraryGravity \in Int
  BY ComparisonAssumption
<1>2. /\ Static(line, i, j) = LibraryGravity * (y - x) /\ Static(line, i, k) = LibraryGravity * (z - x)
      /\ Static(line, j, k) = LibraryGravity * (z - y)
  BY DEF Static
<1>3. x \in Int /\ y \in Int /\ z \in Int
  OBVIOUS
<1> HIDE DEF x, y, z
<1>4. LibraryGravity * (z - x) = LibraryGravity * (y - x) + LibraryGravity * (z - y) /\ LibraryGravity * (y - x) \in Int
  BY <1>1, <1>3, Z3
<1> QED
  BY <1>2, <1>4

\* What Deviations holds.
Off == [drag : (-FactorError)..FactorError, pressure : Int, flow : Int]

\* The pressures the library gives: the head of the inlet less the losses passed.
LEMMA PressuresAnswered ==
    ASSUME NEW line \in LineType, NEW flow, NEW inlet \in Int, NEW deviation \in Off,
           NEW f, f = PipeLosses(line, flow, deviation), f \in [1..Len(line.segments) -> Int],
           NEW p, p = Absolute(line, Relative(line, inlet - Air(Height(line, 1)), flow, deviation)),
           NEW j \in Junctions(line)
    PROVE  p[j] = inlet - Static(line, 1, j) - PartOf(f, 1..(j - 1))
                  + (IF j = Len(line.segments) + 1 THEN Gravity * deviation.pressure ELSE 0)
<1> DEFINE N == Len(line.segments)
           q == inlet - Air(Height(line, 1))
           part == SumOver([s \in 1..(j - 1) |-> PipeFriction(line.segments[s], flow, deviation) + PipeMinor(line.segments[s], flow)])
           extra == IF j = N + 1 THEN Gravity * deviation.pressure ELSE 0
           static == Static(line, 1, j)
<1>1. N \in Nat \ {0} /\ Junctions(line) = 1..(N + 1)
  BY LineParts DEF Junctions
<1>2. part = PartOf(f, 1..(j - 1))
  <2>1. \A s \in 1..(j - 1) : s \in 1..N
    BY <1>1
  <2>2. \A s \in 1..(j - 1) : f[s] = PipeFriction(line.segments[s], flow, deviation) + PipeMinor(line.segments[s], flow)
    BY <2>1 DEF PipeLosses
  <2> QED
    BY <2>2 DEF PartOf
<1>3. PartOf(f, 1..(j - 1)) \in Int
  <2>1. j - 1 \in 0..N
    BY <1>1
  <2> QED
    BY <1>1, <2>1, PartUpTo
<1>4. Height(line, 1) \in Int /\ Air(Height(line, 1)) \in Int /\ Height(line, j) \in Int /\ Air(Height(line, j)) \in Int
      /\ static \in Int
  <2>1. 1 \in Junctions(line)
    BY <1>1
  <2>2. Height(line, 1) \in Int /\ Air(Height(line, 1)) \in Int /\ Height(line, j) \in Int /\ Air(Height(line, j)) \in Int
    BY <2>1, HeightType
  <2> QED
    BY <2>2, StaticAdds
<1>5. extra \in Int
  <2>1. Gravity \in Int /\ deviation.pressure \in Int
    BY ComparisonAssumption DEF Off
  <2> QED
    BY <2>1
<1>6. p[j] = (q + Air(Height(line, 1)) - static - Air(Height(line, j)) - part + extra) + Air(Height(line, j))
  BY DEF Absolute, Relative
<1> HIDE DEF part, extra, static
<1>7. p[j] = inlet - static - part + extra
  BY ONLY <1>2, <1>3, <1>4, <1>5, <1>6 DEF q
<1> QED
  BY <1>2, <1>7 DEF extra, static

IsNear(line, sc, inlet, deviation, f, p) ==
    LET d == Gravity * deviation.pressure
    IN  /\ p[Len(line.segments) + 1] = inlet - Static(line, 1, Len(line.segments) + 1) - SumOver(f) + d
        /\ d \in Int /\ Magnitude(d) <= Gravity * sc.tolerance

\* An answer whose balances close is as near the solution as the tolerance of a segment.
LEMMA AnswerIsNear ==
    ASSUME NEW line \in LineType, NEW sc, NEW inlet \in Int, sc.tolerance \in Nat, NEW deviation \in Off,
           NEW f, f = PipeLosses(line, sc.flow, deviation), f \in [1..Len(line.segments) -> Int],
           \A s \in 1..Len(line.segments) : PipeFriction(line.segments[s], sc.flow, deviation) \in Int /\ PipeMinor(line.segments[s], sc.flow) \in Int,
           NEW p, p = Absolute(line, Relative(line, inlet - Air(Height(line, 1)), sc.flow, deviation)),
           BalancesClose(line, sc, p, deviation)
    PROVE  IsNear(line, sc, inlet, deviation, f, p)
<1> DEFINE N == Len(line.segments)
           a == PipeFriction(line.segments[N], sc.flow, deviation)
           b == PipeMinor(line.segments[N], sc.flow)
           d == Gravity * deviation.pressure
<1>1. N \in Nat \ {0} /\ Junctions(line) = 1..(N + 1) /\ DOMAIN line.segments = 1..N
  BY LineParts DEF Junctions
<1>2. p[N + 1] = inlet - Static(line, 1, N + 1) - PartOf(f, 1..N) + d
  <2>1. N + 1 \in Junctions(line) /\ (N + 1) - 1 = N
    BY <1>1
  <2> HIDE DEF N
  <2>2. p[N + 1] = inlet - Static(line, 1, N + 1) - PartOf(f, 1..((N + 1) - 1))
                   + (IF N + 1 = Len(line.segments) + 1 THEN Gravity * deviation.pressure ELSE 0)
    BY <2>1, PressuresAnswered
  <2> QED
    BY <2>1, <2>2 DEF N
<1>3. p[N] = inlet - Static(line, 1, N) - PartOf(f, 1..(N - 1)) + 0
  <2>1. N \in Junctions(line) /\ N # Len(line.segments) + 1
    BY <1>1
  <2> HIDE DEF N
  <2>2. p[N] = inlet - Static(line, 1, N) - PartOf(f, 1..(N - 1))
               + (IF N = Len(line.segments) + 1 THEN Gravity * deviation.pressure ELSE 0)
    BY <2>1, PressuresAnswered
  <2> QED
    BY <2>1, <2>2
<1>4. PartOf(f, 1..N) = f[N] + PartOf(f, 1..(N - 1)) /\ PartOf(f, 1..N) = SumOver(f)
      /\ PartOf(f, 1..N) \in Int /\ PartOf(f, 1..(N - 1)) \in Int
  <2>1. N - 1 \in 0..(N - 1) /\ (N - 1) + 1 = N /\ N - 1 \in 0..N /\ N \in 0..N
    BY <1>1
  <2> HIDE DEF N
  <2>2. f \in [1..N -> Int]
    BY DEF N
  <2> QED
    BY <1>1, <2>1, <2>2, PartUpTo
<1>5. f[N] = a + b /\ a \in Int /\ b \in Int
  <2>1. N \in 1..N
    BY <1>1
  <2>2. a \in Int /\ b \in Int
    BY <2>1
  <2>3. PipeLosses(line, sc.flow, deviation)[N] = a + b
    BY <2>1 DEF PipeLosses
  <2> HIDE DEF N, a, b
  <2> QED
    BY <2>2, <2>3
<1>6. /\ Static(line, 1, N) \in Int /\ Static(line, N, N + 1) \in Int
      /\ Static(line, 1, N + 1) = Static(line, 1, N) + Static(line, N, N + 1)
  <2>1. 1 \in Junctions(line) /\ N \in Junctions(line) /\ N + 1 \in Junctions(line)
    BY <1>1
  <2>2. Height(line, 1) \in Int /\ Height(line, N) \in Int /\ Height(line, N + 1) \in Int
    BY <2>1, HeightType
  <2> HIDE DEF N
  <2>3. Static(line, N, N + 1) \in Int
    BY <2>2, StaticAdds
  <2> QED
    BY ONLY <2>2, <2>3, StaticAdds
<1>10. d \in Int
  <2>1. Gravity \in Int /\ deviation.pressure \in Int
    BY ComparisonAssumption DEF Off
  <2> QED
    BY <2>1
<1>7. Magnitude((p[N] - p[N + 1]) - Static(line, N, N + 1) - a - b) <= Gravity * sc.tolerance
  <2>1. N \in DOMAIN line.segments
    BY <1>1
  <2>2. BalanceResidual(line, p, sc.flow, deviation, N) <= Gravity * sc.tolerance
    <3> HIDE DEF N
    <3> QED
      BY <2>1 DEF BalancesClose
  <2>3. BalanceResidual(line, p, sc.flow, deviation, N)
          = Magnitude((p[N] - p[N + 1]) - Static(line, N, N + 1) - a - b)
    BY Zenon DEF BalanceResidual
  <2> QED
    BY ONLY <2>2, <2>3, Zenon
<1> HIDE DEF N, a, b, d
<1>8. (p[N] - p[N + 1]) - Static(line, N, N + 1) - a - b = -d
  <2> DEFINE m == p[N + 1]
             n == p[N]
             x == Static(line, 1, N)
             y == Static(line, 1, N + 1)
             z == Static(line, N, N + 1)
             u == PartOf(f, 1..N)
             v == PartOf(f, 1..(N - 1))
  <2>1. m = inlet - y - u + d
    BY ONLY <1>2, Zenon
  <2>2. n = inlet - x - v + 0
    BY ONLY <1>3, Zenon
  <2>3. u = f[N] + v /\ f[N] = a + b /\ y = x + z
    BY ONLY <1>4, <1>5, <1>6, Zenon
  <2>4. inlet \in Int /\ x \in Int /\ z \in Int /\ u \in Int /\ v \in Int /\ d \in Int /\ a \in Int /\ b \in Int
    BY <1>4, <1>5, <1>6, <1>10
  <2> HIDE DEF m, n, x, y, z, u, v
  <2>5. (n - m) - z - a - b = -d
    BY ONLY <2>1, <2>2, <2>3, <2>4
  <2> QED
    BY ONLY <2>5, Zenon DEF m, n, z
<1>9. Magnitude(d) <= Gravity * sc.tolerance
  <2>1. Magnitude(-d) <= Gravity * sc.tolerance
    BY ONLY <1>7, <1>8, Zenon
  <2>2. Magnitude(-d) = Magnitude(d)
    BY <1>10 DEF Magnitude
  <2> QED
    BY ONLY <2>1, <2>2, Zenon
<1> QED
  BY <1>2, <1>4, <1>9, <1>10 DEF IsNear, N, d

\* The first engine of the case: no station, one height at each end.
LEMMA MarchOfCase ==
    ASSUME NEW line, NEW sc, NEW grid, BothAnswer(line, sc, grid)
    PROVE  /\ ~simulated.march.clamped /\ simulated.march.passages = <<>>
           /\ simulated.march.points[1].elevation = Height(line, 1)
           /\ Outlet(simulated.march).grade \in Int
           /\ Outlet(simulated.march).pressure = Outlet(simulated.march).grade - Height(line, Len(line.segments) + 1)
<1> DEFINE march == simulated.march
           n == Len(grid)
<1>1. /\ line \in LineType /\ IsChain(line) /\ study.state.vapour \in Int /\ study.scenario.gravity = FALSE
      /\ sc.flow \in Int /\ sc.inletPressure \in Int /\ line.stations = <<>>
      /\ march = MarchAlong(line, study, grid, sc.flow, sc.inletPressure)
      /\ grid = Grid(line, sc.step) /\ sc.step \in Nat \ {0}
  BY DEF BothAnswer, ResultParts
<1>2. HasPoints(line, study.state.vapour, sc.step, grid, sc.flow, march.points)
  BY ResultPoints DEF BothAnswer
<1>3. /\ grid \in Seq(Int) /\ n > 0 /\ n \in Nat /\ \A i, j \in 1..n : i < j => grid[i] < grid[j]
      /\ \A c \in Chainages(line, sc.step) : \E i \in 1..n : grid[i] = c
      /\ \A i \in 1..n : grid[i] \in Chainages(line, sc.step) /\ grid[i] \in Int
  <2>1. /\ grid \in Seq(Int) /\ n > 0 /\ \A i, j \in 1..n : i < j => grid[i] < grid[j]
        /\ \A c \in Chainages(line, sc.step) : \E i \in 1..n : grid[i] = c
        /\ \A i \in 1..n : march.points[i].at = grid[i] /\ march.points[i].at \in Chainages(line, sc.step)
    BY <1>2 DEF HasPoints
  <2>2. n \in Nat /\ \A i \in 1..n : grid[i] \in Int
    <3>1. \A q \in Seq(Int) : Len(q) \in Nat /\ \A i \in 1..Len(q) : q[i] \in Int
      OBVIOUS
    <3> QED
      BY <2>1, <3>1
  <2>3. \A i \in 1..n : grid[i] \in Chainages(line, sc.step)
    BY <2>1
  <2> QED
    BY ONLY <2>1, <2>2, <2>3, Zenon
<1>4. \A i \in 1..n : OnLine(line, grid[i])
  BY <1>1, <1>3, PointsOfLine
<1> HIDE DEF march
<1>5. PICK m : Marches(line, grid, sc.flow, sc.inletPressure, march, m)
  BY <1>1, <1>3, <1>4, MarchAdvances
<1>6. grid[1] = LineStart(line) /\ grid[n] = LineEnd(line)
  <2>1. /\ LineStart(line) \in Int /\ LineEnd(line) \in Int
        /\ LineStart(line) \in Chainages(line, sc.step) /\ LineEnd(line) \in Chainages(line, sc.step)
    BY <1>1, PointsOfLine
  <2> HIDE DEF n
  <2>2. PICK i \in 1..n : grid[i] = LineStart(line)
    BY <1>3, <2>1
  <2>3. PICK j \in 1..n : grid[j] = LineEnd(line)
    BY <1>3, <2>1
  <2>4. 1 \in 1..n /\ n \in 1..n
    BY <1>3
  <2>5. LineStart(line) <= grid[1] /\ grid[n] <= LineEnd(line)
    BY <1>4, <2>4 DEF OnLine
  <2>6. i = 1
    <3>1. ~(1 < i)
      <4>1. 1 < i => grid[1] < grid[i]
        BY <1>3, <2>4
      <4>2. grid[i] \in Int /\ grid[1] \in Int
        BY <1>3, <2>4
      <4> QED
        BY <2>1, <2>2, <2>5, <4>1, <4>2
    <3> QED
      BY <1>3, <3>1
  <2>7. j = n
    <3>1. ~(j < n)
      <4>1. j < n => grid[j] < grid[n]
        BY <1>3, <2>4
      <4>2. grid[j] \in Int /\ grid[n] \in Int
        BY <1>3, <2>4
      <4> QED
        BY <2>1, <2>3, <2>5, <4>1, <4>2
    <3> QED
      BY <1>3, <3>1
  <2> QED
    BY <2>2, <2>3, <2>6, <2>7
<1>7. \A i \in 1..n : StationAt(line, grid[i]) = None
  <2>1. {i \in DOMAIN line.stations : TRUE} = {}
    BY <1>1
  <2>2. \A c : {i \in DOMAIN line.stations : Near(line.stations[i], c)} = {}
    BY <2>1
  <2> QED
    BY <2>2 DEF StationAt
<1>8. Height(line, 1) = Elevation(line, LineStart(line)) /\ Height(line, Len(line.segments) + 1) = Elevation(line, LineEnd(line))
  BY <1>1, HeightType
<1>9. /\ ~march.clamped /\ march.passages = <<>> /\ march.points[1].elevation = Elevation(line, grid[1])
      /\ Outlet(march).grade \in Int /\ Outlet(march).elevation = Elevation(line, grid[n])
      /\ Outlet(march).pressure = Outlet(march).grade - Outlet(march).elevation
  BY <1>5, <1>7 DEF Marches
<1> QED
  BY <1>6, <1>8, <1>9 DEF march

\* A march past no station gains no head.
LEMMA NothingGained == Gained(<<>>) = 0
<1> DEFINE f == [k \in DOMAIN <<>> |-> <<>>[k].discharge - <<>>[k].suction]
<1>1. DOMAIN <<>> = {}
  OBVIOUS
<1>2. f \in [{} -> Int]
  BY <1>1
<1>3. Gained(<<>>) = SumOver(f)
  BY DEF Gained
<1> HIDE DEF f
<1> QED
  BY <1>2, <1>3, FS_EmptySet, SumTerm

\* Where the fittings are in place, the head of the outlet is that of the inlet less every loss.
LEMMA OutletOfCase ==
    ASSUME LineInv, NEW line, NEW sc, NEW grid, BothAnswer(line, sc, grid), FittingsInPlace(line)
    PROVE  /\ HeadLosses(line, sc.flow) \in [1..Len(line.segments) -> Int]
           /\ Outlet(simulated.march).pressure =
                 sc.inletPressure + Height(line, 1) - Height(line, Len(line.segments) + 1)
                 - SumOver(HeadLosses(line, sc.flow))
<1> DEFINE N == Len(line.segments)
           f == HeadLosses(line, sc.flow)
           march == simulated.march
           lost == [s \in DOMAIN simulated.losses |-> simulated.losses[s].friction + simulated.losses[s].minor]
<1>1. /\ line \in LineType /\ HasResults /\ Resolved(study) = line /\ simulated.inlet = sc.inletPressure
      /\ sc.inletPressure \in Int /\ simulated.losses = LossesOf(line, march.points)
  BY DEF BothAnswer, ResultParts
<1>2. N \in Nat \ {0} /\ DOMAIN line.segments = 1..N /\ IsFiniteSet(1..N)
  BY <1>1, LineParts, FS_Interval
<1>3. DOMAIN simulated.losses = 1..N
  BY <1>1, <1>2 DEF LossesOf
<1>4. \A s \in 1..N : lost[s] = f[s] /\ f[s] \in Int
  <2> SUFFICES ASSUME NEW s \in 1..N PROVE lost[s] = f[s] /\ f[s] \in Int
    OBVIOUS
  <2>1. /\ simulated.losses[s].friction = HeadFriction(line.segments[s], sc.flow)
        /\ simulated.losses[s].minor = HeadMinor(line.segments[s], sc.flow)
        /\ HeadFriction(line.segments[s], sc.flow) \in Int /\ HeadMinor(line.segments[s], sc.flow) \in Int
    BY LossesAgree
  <2>2. lost[s] = simulated.losses[s].friction + simulated.losses[s].minor
    BY <1>3
  <2>3. f[s] = HeadFriction(line.segments[s], sc.flow) + HeadMinor(line.segments[s], sc.flow)
    BY DEF HeadLosses
  <2> HIDE DEF lost, f
  <2> QED
    BY <2>1, <2>2, <2>3
<1>5. f = [s \in 1..N |-> f[s]] /\ lost = [s \in 1..N |-> lost[s]]
  BY <1>3 DEF HeadLosses
<1>6. f \in [1..N -> Int] /\ lost = f
  <2> HIDE DEF f, lost
  <2> QED
    BY <1>4, <1>5
<1>7. LossesAccountForHead
  BY LossesBalance
<1>8. /\ ~march.clamped /\ march.passages = <<>> /\ march.points[1].elevation = Height(line, 1)
      /\ Outlet(march).pressure = Outlet(march).grade - Height(line, N + 1)
  BY MarchOfCase
<1>9. Outlet(march).grade = march.points[1].elevation + simulated.inlet + Gained(march.passages) - SumOver(lost)
  BY <1>1, <1>7, <1>8, Zenon DEF LossesAccountForHead, Gained
<1>10. Outlet(march).grade = Height(line, 1) + sc.inletPressure + 0 - SumOver(f)
  BY ONLY <1>1, <1>6, <1>8, <1>9, NothingGained, Zenon
<1>11. Height(line, 1) \in Int /\ Height(line, N + 1) \in Int
  <2>1. 1 \in Junctions(line) /\ N + 1 \in Junctions(line)
    BY <1>2 DEF Junctions
  <2> QED
    BY <1>1, <2>1, HeightType
<1>12. SumOver(f) \in Int
  BY <1>2, <1>6, SumTerm
<1> HIDE DEF f, march, N
<1>13. Outlet(march).pressure = sc.inletPressure + Height(line, 1) - Height(line, N + 1) - SumOver(f)
  <2> DEFINE g == Outlet(march).grade
             p == Outlet(march).pressure
  <2>1. p = g - Height(line, N + 1) /\ g = Height(line, 1) + sc.inletPressure + 0 - SumOver(f)
    BY <1>8, <1>10
  <2> HIDE DEF g, p
  <2>2. sc.inletPressure \in Int
    BY <1>1
  <2>3. p = sc.inletPressure + Height(line, 1) - Height(line, N + 1) - SumOver(f)
    BY ONLY <1>11, <1>12, <2>1, <2>2
  <2> QED
    BY <2>3 DEF p
<1> QED
  BY <1>6, <1>13 DEF f, march, N

\* Two numbers that differ by d and by what a factor makes of h.
LEMMA NearBy ==
    ASSUME NEW g \in Int, NEW l \in Int, NEW i \in Int, NEW h \in Int, NEW s \in Int, NEW d \in Int, NEW t \in Int, NEW z \in Int,
           NEW x, NEW y, x = i - h - s, y = g * i - l * h - (s * g + z) + d, Magnitude(d) <= t
    PROVE  Magnitude(g * x - y - z) <= Magnitude((l - g) * h) + t
<1>1. g * (i - h - s) = g * i - g * h - s * g /\ (l - g) * h = l * h - g * h
  BY Z3
<1> DEFINE a == g * i
           b == g * h
           c == s * g
           e == l * h
<1>2. a \in Int /\ b \in Int /\ c \in Int /\ e \in Int
  BY Z3
<1>3. g * x = a - b - c /\ y = a - e - (c + z) + d /\ (l - g) * h = e - b
  BY <1>1
<1> HIDE DEF a, b, c, e
<1>4. g * x - y - z = (e - b) - d
  BY <1>2, <1>3
<1> DEFINE r == e - b
<1>5. Magnitude(r - d) <= Magnitude(r) + t /\ r \in Int
  BY <1>2 DEF Magnitude
<1> QED
  BY <1>3, <1>4, <1>5

\* A case the second engine accepts and converges on is a case of the first one, whatever the
\* line, the scenario, the fluid, the gravities and the deviation of the library.
LEMMA ConvergedAgree ==
    ASSUME EngineInv, compared # None, compared.status = "converged"
    PROVE  /\ HasResults /\ simulated.flow = compared.flow
           /\ \A s \in DOMAIN compared.losses :
                 LET segment == study.line.segments[s]
                     spread  == Magnitude(Drop(FactorError, compared.flow * segment.speed)) * (segment.to - segment.from)
                 IN  /\ Magnitude(FrictionExcess(s)) <= Gravity * spread
                     /\ compared.losses[s].minor = Gravity * simulated.losses[s].minor
           /\ FittingsInPlace(study.line) =>
                 LET last   == Len(study.line.segments) + 1
                     relief == Height(study.line, last) - Height(study.line, 1)
                     excess == SumOver([s \in DOMAIN compared.losses |-> FrictionExcess(s)])
                 IN  Magnitude(Gravity * Outlet(simulated.march).pressure - compared.pressures[last] - excess)
                         <= Magnitude((LibraryGravity - Gravity) * relief)
                            + Gravity * (Len(study.line.segments) * study.scenario.tolerance)
<1> DEFINE line == study.line
           sc == study.scenario
           N == Len(line.segments)
<1>1. PICK grid : BothAnswer(line, sc, grid)
  BY ConvergedParts
<1>2. PICK deviation \in Deviations : compared = ComparedWith(line, sc, deviation)
  BY DEF EngineInv, AnswerKept
<1> DEFINE inlet == Gravity * sc.inletPressure
           p == Absolute(line, Relative(line, inlet - Air(Height(line, 1)), sc.flow, deviation))
<1>3. /\ line \in LineType /\ HasResults /\ simulated.flow = sc.flow /\ sc.inletPressure \in Int /\ sc.tolerance \in Nat
      /\ sc.flow \in Int
  BY <1>1 DEF BothAnswer
<1>13. deviation \in Off
  BY <1>2, ComparisonAssumption DEF Off
<1>4. N \in Nat \ {0} /\ DOMAIN line.segments = 1..N
  BY <1>3, LineParts
<1>5. compared = Compared(line, sc, p, deviation)
  BY <1>2 DEF ComparedWith
<1>10. Gravity \in Nat \ {0} /\ LibraryGravity \in Int /\ inlet \in Int
  <2>1. Gravity \in Nat \ {0} /\ LibraryGravity \in Nat \ {0}
    BY ComparisonAssumption
  <2> QED
    BY <1>3, <2>1
<1>11. \A s \in 1..N : HeadFriction(line.segments[s], sc.flow) \in Int /\ HeadMinor(line.segments[s], sc.flow) \in Int
  <2> HIDE DEF line, sc
  <2> QED
    BY <1>1, LossesAgree
<1> HIDE DEF p, inlet, line, sc
<1>12. /\ \A s \in 1..N :
             /\ PipeMinor(line.segments[s], sc.flow) = Gravity * HeadMinor(line.segments[s], sc.flow)
             /\ PipeFriction(line.segments[s], sc.flow, deviation) \in Int /\ PipeMinor(line.segments[s], sc.flow) \in Int
       /\ PipeLosses(line, sc.flow, deviation) \in [1..N -> Int]
       /\ SumOver(HeadLosses(line, sc.flow)) \in Int /\ SumOver(Excesses(line, sc.flow, deviation)) \in Int
       /\ SumOver(PipeLosses(line, sc.flow, deviation))
             = SumOver(HeadLosses(line, sc.flow)) * Gravity + SumOver(Excesses(line, sc.flow, deviation))
  <2>1. deviation.drag \in (-FactorError)..FactorError
    BY <1>13 DEF Off
  <2>2. line \in LineType /\ sc.flow \in Int
    BY <1>3
  <2> QED
    BY ONLY <1>11, <2>1, <2>2, LossesConvert, Zenon
<1>6. /\ compared.flow = sc.flow /\ compared.pressures = p /\ BalancesClose(line, sc, p, deviation)
      /\ compared.losses = [s \in 1..N |-> [friction |-> PipeFriction(line.segments[s], sc.flow, deviation),
                                            minor |-> PipeMinor(line.segments[s], sc.flow)]]
  BY <1>4, <1>5 DEF Compared
<1>14. ASSUME NEW s \in 1..N PROVE FrictionExcess(s) = Excess(line.segments[s], sc.flow, deviation)
  <2>1. compared.losses[s].friction = PipeFriction(line.segments[s], sc.flow, deviation)
    BY <1>6
  <2>2. simulated.losses[s].friction = HeadFriction(line.segments[s], sc.flow)
    BY <1>1, LossesAgree
  <2> QED
    BY <2>1, <2>2 DEF FrictionExcess, Excess
<1>15. SumOver([s \in DOMAIN compared.losses |-> FrictionExcess(s)]) = SumOver(Excesses(line, sc.flow, deviation))
  <2>1. DOMAIN compared.losses = 1..N
    BY <1>6
  <2>2. [s \in DOMAIN compared.losses |-> FrictionExcess(s)] = Excesses(line, sc.flow, deviation)
    BY <1>14, <2>1 DEF Excesses
  <2> QED
    BY <2>2
<1>7. ASSUME NEW s \in DOMAIN compared.losses
      PROVE  /\ Magnitude(FrictionExcess(s))
                   <= Gravity * (Magnitude(Drop(FactorError, compared.flow * line.segments[s].speed))
                                 * (line.segments[s].to - line.segments[s].from))
             /\ compared.losses[s].minor = Gravity * simulated.losses[s].minor
  <2>1. s \in 1..N
    BY <1>6
  <2>2. compared.losses[s].minor = PipeMinor(line.segments[s], sc.flow)
    BY <1>6, <2>1
  <2>3. simulated.losses[s].minor = HeadMinor(line.segments[s], sc.flow)
    BY <1>1, <2>1, LossesAgree
  <2>4. compared.losses[s].minor = Gravity * simulated.losses[s].minor
    BY ONLY <1>12, <2>1, <2>2, <2>3, Zenon
  <2>5. line.segments[s] \in SegmentType /\ deviation.drag \in (-FactorError)..FactorError
    BY <1>3, <1>13, <2>1, LineParts DEF Off
  <2>6. Magnitude(Excess(line.segments[s], sc.flow, deviation))
          <= Gravity * (Magnitude(Drop(FactorError, sc.flow * line.segments[s].speed))
                        * (line.segments[s].to - line.segments[s].from))
    BY <1>3, <2>5, FrictionsAreNear
  <2>7. FrictionExcess(s) = Excess(line.segments[s], sc.flow, deviation) /\ compared.flow = sc.flow
    BY <1>6, <1>14, <2>1
  <2> QED
    BY ONLY <2>4, <2>6, <2>7, Zenon
<1> DEFINE relief == Height(line, N + 1) - Height(line, 1)
<1>8. ASSUME FittingsInPlace(line)
      PROVE  Magnitude(Gravity * Outlet(simulated.march).pressure - p[N + 1] - SumOver(Excesses(line, sc.flow, deviation)))
                 <= Magnitude((LibraryGravity - Gravity) * relief) + Gravity * (N * sc.tolerance)
  <2> DEFINE f == PipeLosses(line, sc.flow, deviation)
             h == SumOver(HeadLosses(line, sc.flow))
             z == SumOver(Excesses(line, sc.flow, deviation))
             d == Gravity * deviation.pressure
             x == Outlet(simulated.march).pressure
             t == Gravity * (N * sc.tolerance)
  <2>1. LineInv
    BY DEF EngineInv
  <2>2. x = sc.inletPressure + Height(line, 1) - Height(line, N + 1) - h
    BY <1>1, <1>8, <2>1, OutletOfCase
  <2>3. deviation \in Off
    BY <1>13
  <2>4. Height(line, 1) \in Int /\ Height(line, N + 1) \in Int /\ relief \in Int
    <3>1. 1 \in Junctions(line) /\ N + 1 \in Junctions(line)
      BY <1>4 DEF Junctions
    <3>2. Height(line, 1) \in Int /\ Height(line, N + 1) \in Int
      BY <1>3, <3>1, HeightType
    <3> QED
      BY <3>2
  <2>5. p[N + 1] = inlet - Static(line, 1, N + 1) - SumOver(f) + d /\ d \in Int /\ Magnitude(d) <= Gravity * sc.tolerance
    <3>1. /\ f = PipeLosses(line, sc.flow, deviation) /\ p = Absolute(line, Relative(line, inlet - Air(Height(line, 1)), sc.flow, deviation))
          /\ f \in [1..Len(line.segments) -> Int]
          /\ \A s \in 1..Len(line.segments) : PipeFriction(line.segments[s], sc.flow, deviation) \in Int /\ PipeMinor(line.segments[s], sc.flow) \in Int
      BY <1>12 DEF p
    <3> HIDE DEF f
    <3>2. sc.tolerance \in Nat /\ line \in LineType /\ inlet \in Int /\ BalancesClose(line, sc, p, deviation)
      BY <1>3, <1>6, <1>10
    <3>3. IsNear(line, sc, inlet, deviation, f, p)
      BY ONLY <2>3, <3>1, <3>2, AnswerIsNear
    <3> QED
      BY <3>3 DEF IsNear
  <2>6. Static(line, 1, N + 1) = LibraryGravity * relief
    BY DEF Static
  <2> HIDE DEF x, d, relief, h, z
  <2>7. x = sc.inletPressure - relief - h
    <3> HIDE DEF N
    <3> QED
      BY <1>3, <1>12, <2>2, <2>4 DEF relief, h
  <2>8. p[N + 1] = Gravity * sc.inletPressure - LibraryGravity * relief - (h * Gravity + z) + d
    BY <1>12, <2>5, <2>6 DEF inlet, h, z
  <2>9. Magnitude(d) <= t /\ t \in Int
    <3> DEFINE n == N
               q == sc.tolerance
               g == Gravity
               m == Magnitude(d)
    <3>1. q \in Nat /\ n \in Nat \ {0} /\ g \in Nat \ {0} /\ m \in Int /\ m <= g * q
      BY <1>3, <1>4, <1>10, <2>5 DEF Magnitude
    <3>5. t = g * (n * q)
      OBVIOUS
    <3> HIDE DEF q, n, g, m, t
    <3>2. q <= n * q /\ n * q \in Int
      BY <3>1, Z3
    <3> DEFINE w == n * q
    <3>3. q <= w /\ w \in Int
      BY <3>2
    <3> HIDE DEF w
    <3>4. g * q <= g * w /\ g * w \in Int /\ g * q \in Int
      BY <3>1, <3>3, Z3
    <3>6. m <= t /\ t \in Int
      BY <3>1, <3>4, <3>5 DEF w
    <3> QED
      BY <3>6 DEF m
  <2> HIDE DEF t, N
  <2>10. Gravity \in Int /\ h \in Int /\ relief \in Int /\ d \in Int /\ z \in Int
    BY <1>10, <1>12, <2>4, <2>5 DEF h, z
  <2>11. Magnitude(Gravity * x - p[N + 1] - z) <= Magnitude((LibraryGravity - Gravity) * relief) + t
    BY ONLY <1>3, <1>10, <2>7, <2>8, <2>9, <2>10, NearBy
  <2> QED
    BY <2>11 DEF x, t, z
<1> QED
  BY <1>3, <1>6, <1>7, <1>8, <1>15 DEF line, sc

\* "Comparaison croisée": on every case both engines answer, the second confirms the first to
\* what their gravities and factors make of it, whatever the line, the scenario, the fluid and
\* the deviation of the library from the solution.
THEOREM EnginesAlwaysAgree == ComparisonSpec => []EnginesAgree
<1>1. LineInit /\ ComparisonInit => EngineInv
  BY DEF LineInit, ComparisonInit, EngineInv, LineInv, DirectAnswers, AnswerKept
<1>2. EngineInv => EnginesAgree
  BY ConvergedAgree, Zenon DEF EnginesAgree
<1> QED
  BY <1>1, <1>2, EnginesKept, PTL DEF ComparisonSpec
===============================================================================
