----------------------------- MODULE LongDistance -----------------------------
(***************************************************************************)
(* hydroliquid/long_distance.py: the steady flow in a line of segments     *)
(* with stations, fittings and injections.                                 *)
(*                                                                         *)
(* The engine marches the head along a grid of chainages from a flow and   *)
(* an inlet pressure; when one of them is unknown it searches the value    *)
(* that gives the outlet pressure.  Then it reports losses, stations,      *)
(* depressurised zones and the outcome of the checks.                      *)
(*                                                                         *)
(* Units are chosen so that density times gravity is 1: a pressure is a    *)
(* head minus an elevation.  A segment gives its velocity per unit of flow *)
(* (speed), its loss per unit of length and velocity squared (drag, the    *)
(* friction factor being constant) and the velocities between which its    *)
(* regime is in transition.  A fitting that is fully closed, whose loss is *)
(* infinite, is left out.  The search is the contract RootSearch checks.   *)
(***************************************************************************)
EXTENDS PumpStations, HydraulicChecks, FluidStates

CONSTANTS
    Studies,           \* the canonical inputs: line, scenario, fluid
    StationReach,      \* tolerance_m of station_at
    InjectionReach,    \* an injection is at every point of the grid closer than this (1e-6 m)
    RoundedUp,         \* how many additions of the step come out a unit above the multiple
    Atmosphere,        \* STANDARD_PRESSURE_PA
    InitialFlow,       \* INITIAL_FLOW_GUESS_M3_S
    InitialPressure,   \* the least upper bound an inlet pressure is first tried with
    Doublings          \* MAX_BRACKET_EXPANSIONS

\* What the constructors accept.
FittingType == [at : Maybe(Int), k : Nat, quantity : Nat \ {0}, narrowing : Nat]
SegmentType ==
    {s \in [id : STRING, from : Int, to : Int, speed : Nat \ {0}, drag : Nat \ {0}, maop : Maybe(Int),
            minimum : Maybe(Int), fittings : Seq(FittingType), open : BOOLEAN, transition : Int \X Int] : s.from < s.to}
LineStationType ==
    [id : STRING, at : Int, groups : Seq(Groups), arrangement : STRING, status : STRING, drive : Nat \ {0},
     suctionMin : Maybe(Int), dischargeMax : Maybe(Int), bypassK : Int, suctionK : Nat, suctionSpeed : Maybe(Int)]
LineType ==
    [segments : Seq(SegmentType) \ {<<>>}, profile : Curves, stations : Seq(LineStationType),
     injections : Seq([at : Int, flow : Int, active : BOOLEAN]),
     originTank : Maybe([elevation : Int]), destinationTank : Maybe([elevation : Int])]

IsScenario(sc) ==
    /\ {sc.inletPressure, sc.inletLevel, sc.outletPressure, sc.outletLevel, sc.flow, sc.maxFlow,
        sc.minVelocity, sc.maxVelocity, sc.temperature} \subseteq Maybe(Int)
    /\ sc.tolerance \in Nat /\ sc.step \in Nat \ {0} /\ sc.gravity \in BOOLEAN
    /\ \A i \in DOMAIN sc.pumps :
          sc.pumps[i] \in [available : Maybe(BOOLEAN), running : Maybe(BOOLEAN), speed : Maybe(Nat \ {0})]
    /\ \A i \in DOMAIN sc.stations : sc.stations[i] \in STRING
    /\ \A i \in DOMAIN sc.segments : sc.segments[i] \in [open : Maybe(BOOLEAN), k : Maybe(Nat)]

IsStudy(s) ==
    {"line", "scenario", "fluid"} \subseteq DOMAIN s /\ s.line \in LineType /\ IsScenario(s.scenario) /\ IsSheet(s.fluid)

ASSUME LineAssumption ==
    /\ StationReach \in Nat /\ InjectionReach \in Nat \ {0} /\ RoundedUp \subseteq Nat /\ Atmosphere \in Int
    /\ InitialFlow \in Nat /\ InitialPressure \in Nat /\ Doublings \in Nat
    /\ \A s \in Studies : IsStudy(s)
    /\ None \notin Int

(***************************************************************************)
(* The input: validate, and the scenario applied to the line.              *)
(***************************************************************************)
LineStart(line) == line.segments[1].from
LineEnd(line)   == line.segments[Len(line.segments)].to
OnLine(line, c) == LineStart(line) <= c /\ c <= LineEnd(line)

\* validate_topology and validate_segment_chain.
TopologyIsValid(line) ==
    /\ \A i \in 1..(Len(line.segments) - 1) : line.segments[i].to = line.segments[i + 1].from
    /\ X(line.profile, 1) <= LineStart(line)
    /\ X(line.profile, Len(line.profile)) >= LineEnd(line)
    /\ \A i \in DOMAIN line.stations :
          /\ OnLine(line, line.stations[i].at)
          /\ InService(line.stations[i]) => line.stations[i].groups # <<>>
    /\ \A i, j \in DOMAIN line.stations : line.stations[i].id = line.stations[j].id => i = j
    /\ \A i \in DOMAIN line.injections : OnLine(line, line.injections[i].at)
    /\ \E i \in DOMAIN line.segments : line.segments[i].open

\* validate_boundary_conditions: exactly two, of which at most one at each end.
Given(values) == Cardinality({i \in DOMAIN values : values[i] # None})

BoundariesAreValid(sc) ==
    /\ Given(<<sc.inletPressure, sc.inletLevel>>) <= 1
    /\ Given(<<sc.outletPressure, sc.outletLevel>>) <= 1
    /\ Given(<<sc.inletPressure, sc.inletLevel, sc.outletPressure, sc.outletLevel, sc.flow>>) = 2
    /\ sc.flow # None => sc.flow >= 0
    /\ \A p \in {sc.inletPressure, sc.outletPressure} : p # None => p > 0

Override(value, replacement) == IF replacement = None THEN value ELSE replacement

ResolvedPump(pump, sc) ==
    IF pump.id \notin DOMAIN sc.pumps THEN pump
    ELSE [pump EXCEPT !.available = Override(@, sc.pumps[pump.id].available),
                      !.running   = Override(@, sc.pumps[pump.id].running),
                      !.speed     = Override(@, sc.pumps[pump.id].speed)]

ResolvedStation(station, sc) ==
    [station EXCEPT
        !.status = IF station.id \in DOMAIN sc.stations THEN sc.stations[station.id] ELSE @,
        !.groups = [i \in DOMAIN @ |-> {ResolvedPump(p, sc) : p \in @[i]}]]

\* An additional loss is a fitting at the end of the segment.
Extra(segment, k) ==
    IF k = None THEN <<>> ELSE <<[at |-> segment.to, k |-> k, quantity |-> 1, narrowing |-> 1]>>

ResolvedSegment(segment, sc) ==
    IF segment.id \notin DOMAIN sc.segments THEN segment
    ELSE [segment EXCEPT !.open = Override(@, sc.segments[segment.id].open),
                         !.fittings = @ \o Extra(segment, sc.segments[segment.id].k)]

\* _resolve_pipeline: a copy of the line; the baseline is not touched.
Resolved(input) ==
    LET sc == input.scenario IN
    [input.line EXCEPT !.segments = [i \in DOMAIN @ |-> ResolvedSegment(@[i], sc)],
                       !.stations = [i \in DOMAIN @ |-> ResolvedStation(@[i], sc)]]

Elevation(line, c) == Clamped(line.profile, c)

EndPressure(pressure, level, tank, elevation) ==
    IF pressure # None THEN pressure
    ELSE IF level # None /\ tank # None THEN Atmosphere + tank.elevation + level - elevation
    ELSE None

InletPressure(line, sc) ==
    EndPressure(sc.inletPressure, sc.inletLevel, line.originTank, Elevation(line, LineStart(line)))
OutletPressure(line, sc) ==
    EndPressure(sc.outletPressure, sc.outletLevel, line.destinationTank, Elevation(line, LineEnd(line)))

(***************************************************************************)
(* The grid.                                                               *)
(***************************************************************************)
EffectiveK(fitting) == fitting.quantity * fitting.k * fitting.narrowing * fitting.narrowing

\* A fitting without a chainage is at the end of its segment.
FittingAt(segment, fitting) == IF fitting.at = None THEN segment.to ELSE fitting.at

Fittings(line) ==
    UNION {{<<i, j>> : j \in DOMAIN line.segments[i].fittings} : i \in DOMAIN line.segments}

\* The step is added again and again, in floating point.
StepPoint(line, step, k) == LineStart(line) + k * step + (IF k \in RoundedUp THEN 1 ELSE 0)

Chainages(line, step) ==
    LET all ==
            (UNION {{line.segments[i].from, line.segments[i].to} : i \in DOMAIN line.segments})
            \cup {FittingAt(line.segments[f[1]], line.segments[f[1]].fittings[f[2]]) : f \in Fittings(line)}
            \cup {X(line.profile, i) : i \in DOMAIN line.profile}
            \cup {line.stations[i].at : i \in DOMAIN line.stations}
            \cup {line.injections[i].at : i \in DOMAIN line.injections}
            \cup {StepPoint(line, step, k) : k \in 0..((LineEnd(line) - LineStart(line)) \div step)}
    IN  {c \in all : OnLine(line, c)}

Grid(line, step) ==
    LET all == Chainages(line, step)
    IN  [i \in 1..Cardinality(all) |->
            CHOOSE c \in all : Cardinality({d \in all : d < c}) = i - 1]

\* Mutation of Governing: the segment upstream governs a joint.
GoverningUpstream(line, c) ==
    line.segments[CHOOSE i \in DOMAIN line.segments :
        (line.segments[i].from < c \/ i = 1) /\ c <= line.segments[i].to]

\* The segment downstream governs, except at the end of the line.
Governing(line, c) ==
    line.segments[CHOOSE i \in DOMAIN line.segments :
        /\ line.segments[i].from <= c
        /\ c < line.segments[i].to \/ i = Len(line.segments)]

\* What the fittings at a chainage lose together.
FittingK(line, c) ==
    SumOver([f \in {g \in Fittings(line) : FittingAt(line.segments[g[1]], line.segments[g[1]].fittings[g[2]]) = c} |->
                EffectiveK(line.segments[f[1]].fittings[f[2]])])

Injected(line, here) == SumOver([i \in here |-> line.injections[i].flow])

ActiveInjections(line) == {i \in DOMAIN line.injections : line.injections[i].active}

\* Two points of the grid may both be within reach of an injection.
AtPoint(injection, c) == Magnitude(injection.at - c) < InjectionReach

InjectionAt(line, c) == Injected(line, {i \in ActiveInjections(line) : AtPoint(line.injections[i], c)})

NetInjection(line) == Injected(line, ActiveInjections(line))

\* station_at: the first station within reach, for every point of the grid.
Near(station, c) == station.at - c <= StationReach /\ c - station.at <= StationReach

StationAt(line, c) ==
    LET near == {i \in DOMAIN line.stations : Near(line.stations[i], c)}
    IN  IF near = {} THEN None ELSE line.stations[Min(near)]

(***************************************************************************)
(* The march.                                                              *)
(***************************************************************************)
\* Mutation of Drop: a loss does not turn with the flow.
DropUnsigned(k, velocity) == k * velocity * velocity

Drop(k, velocity) == k * velocity * Magnitude(velocity)

BypassLoss(station, velocity) ==
    IF IsBypassed(station) THEN Drop(station.bypassK, velocity) ELSE 0

Passage(station, flow, suction, discharge) ==
    [station |-> station, flow |-> flow, suction |-> suction, discharge |-> discharge,
     head |-> StationHead(station, flow)]

Point(c, elevation, head, flow, velocity, vapour) ==
    [at |-> c, elevation |-> elevation, pressure |-> head - elevation, grade |-> head,
     flow |-> flow, velocity |-> velocity, below |-> head - elevation <= vapour]

\* One point of the grid once its flow is known: fittings, station, gravity model,
\* and the friction along the interval that follows.
Through(line, input, m, c, length, segment, elevation, flow, velocity) ==
    LET vapour   == input.state.vapour
        suction  == m.head - Drop(FittingK(line, c), velocity)
        station  == StationAt(line, c)
        gain     == IF station = None THEN 0 ELSE StationHead(station, flow) - BypassLoss(station, velocity)
        pumped   == suction + gain
        clamps   == input.scenario.gravity /\ pumped < elevation + vapour
        head     == IF clamps THEN elevation + vapour ELSE pumped
    IN  [head     |-> head - Drop(segment.drag, velocity) * length,
         flow     |-> flow,
         clamped  |-> m.clamped \/ clamps,
         points   |-> Append(m.points, Point(c, elevation, head, flow, velocity, vapour)),
         passages |-> m.passages \o (IF station = None THEN <<>>
                                     ELSE <<Passage(station, flow, suction - elevation, pumped - elevation)>>)]

\* One point of the grid, the injection there included.
Pass(line, input, grid, m, i) ==
    LET segment == Governing(line, grid[i])
        flow    == m.flow + InjectionAt(line, grid[i])
    IN  Through(line, input, m, grid[i], IF i = Len(grid) THEN 0 ELSE grid[i + 1] - grid[i],
                segment, Elevation(line, grid[i]), flow, flow * segment.speed)

Entering(line, grid, flow, pressure) ==
    [head |-> Elevation(line, grid[1]) + pressure, flow |-> flow, clamped |-> FALSE,
     points |-> <<>>, passages |-> <<>>]

MarchAlong(line, input, grid, flow, pressure) ==
    LET m[i \in 0..Len(grid)] ==
            IF i = 0 THEN Entering(line, grid, flow, pressure) ELSE Pass(line, input, grid, m[i - 1], i)
    IN  m[Len(grid)]

MarchOf(line, input, flow, pressure) ==
    MarchAlong(line, input, Grid(line, input.scenario.step), flow, pressure)

March(input, flow, pressure) == MarchOf(Resolved(input), input, flow, pressure)

Outlet(march) == march.points[Len(march.points)]

(***************************************************************************)
(* _solve_operating_point                                                  *)
(***************************************************************************)
OutletGap(input, flow, pressure) ==
    Outlet(March(input, flow, pressure)).pressure - OutletPressure(input.line, input.scenario)

\* The bounds bracket_root tries after the lower one.
TriedBounds(first, hard) ==
    {IF hard = None THEN first * 2 ^ k ELSE Least(first * 2 ^ k, hard) : k \in 0..Doublings}

\* What RootSearch shows of a search: a root to the tolerance between bounds with a
\* change of sign, no solution when there are none, or no convergence.
Brackets(gap, first, hard) ==
    {b \in TriedBounds(first, hard) : gap[0] = 0 \/ gap[b] = 0 \/ Opposite(gap[0], gap[b])}

Roots(gap, first, hard, tolerance) ==
    LET brackets == Brackets(gap, first, hard)
    IN  {x \in DOMAIN gap : Magnitude(gap[x]) <= tolerance /\ \E b \in brackets : x <= b}

SearchesInlet(input) ==
    input.scenario.flow # None /\ InletPressure(input.line, input.scenario) = None
Determined(input) ==
    LET inlet  == InletPressure(input.line, input.scenario)
        outlet == OutletPressure(input.line, input.scenario)
    IN  IF input.scenario.flow # None THEN inlet # None \/ outlet # None
                                      ELSE inlet # None /\ outlet # None
IsDirect(input) ==
    input.scenario.flow # None /\ InletPressure(input.line, input.scenario) # None

HardBound(input)  == IF SearchesInlet(input) THEN None ELSE input.scenario.maxFlow
FirstBound(input) ==
    IF SearchesInlet(input)
    THEN Greatest(2 * OutletPressure(input.line, input.scenario), InitialPressure)
    ELSE Min({InitialFlow} \cup ({input.scenario.maxFlow} \ {None}))

\* The residual for every value the search may try; 0 stands for its lower bound.
Gaps(input) ==
    [x \in 0..Max(TriedBounds(FirstBound(input), HardBound(input))) |->
        OutletGap(input, IF SearchesInlet(input) THEN input.scenario.flow ELSE x,
                  IF SearchesInlet(input) THEN x ELSE InletPressure(input.line, input.scenario))]

(***************************************************************************)
(* _build_result                                                           *)
(***************************************************************************)
\* _segment_results: friction interval by interval, each fitting at its own flow.
SegmentLosses(line, points, s) ==
    LET segment   == line.segments[s]
        inside    == {i \in DOMAIN points : segment.from <= points[i].at /\ points[i].at <= segment.to}
        intervals == {i \in inside : i + 1 \in inside}
        width(i)  == points[i + 1].at - points[i].at
        mean      == SumOver([i \in intervals |-> points[i].flow * width(i)])
                        \div (segment.to - segment.from)
        flowAt(c) == IF \E i \in inside : points[i].at = c
                     THEN points[CHOOSE i \in inside : points[i].at = c].flow ELSE mean
        fit(j)    == segment.fittings[j]
    IN  [friction |-> SumOver([i \in intervals |-> Drop(segment.drag, points[i].flow * segment.speed) * width(i)]),
         minor    |-> SumOver([j \in DOMAIN segment.fittings |->
                          Drop(EffectiveK(fit(j)), flowAt(FittingAt(segment, fit(j))) * segment.speed)]),
         highest  |-> Max({points[i].pressure : i \in inside}),
         lowest   |-> Min({points[i].pressure : i \in inside})]

NpshAvailable(passage, vapour) ==
    LET velocity == passage.flow * passage.station.suctionSpeed
    IN  passage.suction - Drop(passage.station.suctionK, velocity) - vapour + velocity * velocity

\* _station_results: one pump of a passage, with the flow through it and its power.
ReportOf(passage, pump, vapour, works, flow, power, best) ==
    LET station == passage.station
        active  == pump.available /\ pump.running
    IN  [id |-> pump.id, running |-> active, flow |-> flow,
         within |-> ~works \/ ~PumpExtrapolated(pump, flow),
         npshRequired  |-> IF works THEN RequiredNpsh(pump, flow) ELSE None,
         npshAvailable |-> IF active /\ station.suctionSpeed # None THEN NpshAvailable(passage, vapour) ELSE None,
         npshMargin |-> pump.npshMargin,
         offBep |-> IF best = None \/ best = 0 \/ ~active THEN None
                    ELSE (100 * Magnitude(flow - best)) \div best,
         absorbed |-> IF power = None THEN None ELSE (100 * power) \div station.drive,
         minimumFlow |-> pump.minimumFlow, rated |-> pump.rated]

ReportAt(passage, pump, vapour, works, flow) ==
    ReportOf(passage, pump, vapour, works, flow, IF works THEN ShaftPower(pump, flow) ELSE None,
             BestEfficiencyFlow(pump))

PumpReport(passage, i, pump, vapour) ==
    IF pump \in RunningPumps(passage.station)
    THEN ReportAt(passage, pump, vapour, TRUE, GroupFlow(passage.station, i, passage.flow))
    ELSE ReportAt(passage, pump, vapour, FALSE, 0)

PumpReports(march, vapour) ==
    UNION {UNION {{PumpReport(march.passages[k], i, p, vapour) : p \in march.passages[k].station.groups[i]} :
                  i \in DOMAIN march.passages[k].station.groups} : k \in DOMAIN march.passages}

StationReport(passage) ==
    [id |-> passage.station.id, inService |-> InService(passage.station),
     suction |-> passage.suction, discharge |-> passage.discharge,
     suctionMin |-> passage.station.suctionMin, dischargeMax |-> passage.station.dischargeMax]

\* _gravity_zones: runs of depressurised points.
GravityZones(points) ==
    {<<points[run[1]].at, points[run[2]].at>> : run \in {p \in (DOMAIN points) \X (DOMAIN points) :
        /\ p[1] <= p[2] /\ \A k \in p[1]..p[2] : points[k].below
        /\ p[1] = 1 \/ ~points[p[1] - 1].below
        /\ p[2] = Len(points) \/ ~points[p[2] + 1].below}}

\* _energy_summary: unknown when one station's power is.
TotalPower(powers) ==
    IF powers = <<>> \/ \E k \in DOMAIN powers : powers[k] = None THEN None
    ELSE SumOver(powers)

AbsorbedPower(march) ==
    TotalPower([k \in DOMAIN march.passages |->
        StationPower(march.passages[k].station, march.passages[k].flow)])

\* The warnings of validate, and of a regime in transition.
BaseWarnings(input) ==
    LET stations == input.line.stations IN
    If(input.scenario.flow = None /\ \A i \in DOMAIN stations : RunningPumps(stations[i]) = {},
       <<"input", "no pump">>)
    \cup If(~HasOwn(input.fluid, "vapour"), <<"input", "vapour unknown">>)
    \cup If(input.scenario.gravity, <<"input", "gravity model">>)

TransitionWarning(line, flow) ==
    If(\E i \in DOMAIN line.segments :
          LET s == line.segments[i]
          IN  s.transition[1] <= flow * s.speed /\ flow * s.speed < s.transition[2], <<"input", "transition">>)

AllChecks(input, line, march, pumps, flow, residual) ==
    LET sc == input.scenario
    IN  Together(
           {CheckMassBalance(flow, Outlet(march).flow, NetInjection(line), 0),
            CheckVapour(march.points, input.state.vapour, sc.gravity, HasOwn(input.fluid, "vapour")),
            CheckNpsh(pumps),
            CheckMaximumPressure(march.points, line.segments),
            CheckVelocity(march.points, sc.minVelocity, sc.maxVelocity),
            CheckCurveDomain(pumps),
            CheckMotorPower(pumps),
            CheckStationPressures({StationReport(march.passages[k]) : k \in DOMAIN march.passages}),
            CheckExtrapolation(input.state.extrapolated),
            CheckConvergence(TRUE, residual, sc.tolerance)})

BuiltFrom(input, line, march, outcome, flow, pressure) ==
    LET warned == BaseWarnings(input) \cup TransitionWarning(line, flow) \cup outcome.warnings
    IN  [status   |-> IF warned \cup outcome.violations = {} THEN "converged" ELSE "converged_warn",
         flow     |-> flow, inlet |-> pressure, march |-> march, outcome |-> outcome,
         losses   |-> [s \in DOMAIN line.segments |-> SegmentLosses(line, march.points, s)],
         zones    |-> IF input.scenario.detectZones THEN GravityZones(march.points) ELSE {},
         absorbed |-> AbsorbedPower(march)]

Checked(input, line, march, flow, pressure, residual) ==
    BuiltFrom(input, line, march, AllChecks(input, line, march, PumpReports(march, input.state.vapour), flow, residual), flow, pressure)

Built(input, flow, pressure, residual) ==
    Checked(input, Resolved(input), March(input, flow, pressure), flow, pressure, residual)

(***************************************************************************)
(* simulate                                                                *)
(***************************************************************************)
VARIABLES
    study,     \* the canonical input and the state of its fluid, or None
    simulated  \* the result, or None

lineVars == <<study, simulated>>

LineInit == study = None /\ simulated = None

IsValid(s) == TopologyIsValid(s.line) /\ BoundariesAreValid(s.scenario)

SubmitStudy(s) ==
    /\ study = None /\ study' = Put(s, "state", FluidState(s.fluid, s.scenario.temperature))
    /\ UNCHANGED simulated

Solving == study # None /\ simulated = None
Return(result) == simulated' = result /\ UNCHANGED study
Failed(status) == [status |-> status]

RejectStudy == Solving /\ ~IsValid(study) /\ Return(Failed("invalid_input"))

\* FluidPropertyError leaves simulate: the calculation fails.
FluidIsUnknown == Solving /\ IsValid(study) /\ study.state = Refused /\ Return(Failed("error"))

Ready == Solving /\ IsValid(study) /\ study.state # Refused

\* Flow and inlet pressure are given: one march.
MarchOnce ==
    /\ Ready /\ IsDirect(study)
    /\ Return(Built(study, study.scenario.flow, InletPressure(study.line, study.scenario), 0))

Searching == Ready /\ Determined(study) /\ ~IsDirect(study)

Undetermined ==
    /\ Ready /\ ~Determined(study)
    /\ Return(Failed("no_physical_solution"))

\* The unknown found, or no change of sign, or the search used up.
Solved(gap, x) ==
    IF SearchesInlet(study)
    THEN Return(Built(study, study.scenario.flow, x, gap[x]))
    ELSE Return(Built(study, x, InletPressure(study.line, study.scenario), gap[x]))

SettleUnknown(gap) ==
    \/ \E x \in Roots(gap, FirstBound(study), HardBound(study), study.scenario.tolerance) : Solved(gap, x)
    \/ /\ Brackets(gap, FirstBound(study), HardBound(study)) = {}
       /\ Return(Failed("no_physical_solution"))
    \/ /\ Brackets(gap, FirstBound(study), HardBound(study)) # {}
       /\ Return(Failed("not_converged"))

SearchUnknown == Searching /\ SettleUnknown(Gaps(study))

LineStep == RejectStudy \/ FluidIsUnknown \/ MarchOnce \/ Undetermined \/ SearchUnknown

LineNext == (\E s \in Studies : SubmitStudy(s)) \/ LineStep

LineSpec == LineInit /\ [][LineNext]_lineVars

-----------------------------------------------------------------------------
HasResults == simulated # None /\ simulated.status \in {"converged", "converged_warn"}

\* is_approvable: convergence, mass balance and no critical violation.
IsApprovable ==
    HasResults /\ simulated.outcome.violations = {}

\* At every point the flow is that of the inlet and of the injections passed (flow_at), so
\* that C-001 finds nothing.
FlowsFollowInjections(line) ==
    /\ \A i \in DOMAIN simulated.march.points :
          LET p == simulated.march.points[i] IN
          p.flow = simulated.flow + Injected(line, {j \in ActiveInjections(line) : line.injections[j].at <= p.at})
    /\ <<"C-001", "mass balance">> \notin simulated.outcome.violations

\* No other point of the grid is within reach of an injection.
InjectionsApart(line, step) ==
    \A i \in ActiveInjections(line), c \in Chainages(line, step) :
        AtPoint(line.injections[i], c) => c = line.injections[i].at

\* Where it is so, mass is conserved along the march.  Where it is not, the march counts an
\* injection at two points, and no result of which the outlet is wrong for that is approvable.
FlowsAreConserved ==
    HasResults =>
        LET line == Resolved(study)
        IN  /\ InjectionsApart(line, study.scenario.step) => FlowsFollowInjections(line)
            /\ IsApprovable => Outlet(simulated.march).flow = simulated.flow + NetInjection(line)

\* The head that leaves the line is the head that enters it, plus what the passages of
\* the stations report between suction and discharge, minus every loss the segments
\* report: nothing is lost or counted twice between the march and the report.  Not with
\* the gravity model, which creates head.  Each fitting must lie on its own segment and
\* see the same velocity there as at its chainage, for the march takes the segment
\* downstream of a joint and the report the one the fitting belongs to; nothing in the
\* constructors ties the chainage of a fitting to its segment.
FittingsInPlace(line) ==
    \A f \in Fittings(line) :
        LET s == line.segments[f[1]]
            c == FittingAt(s, s.fittings[f[2]])
        IN  s.from <= c /\ c <= s.to /\ Governing(line, c).speed = s.speed

LossesAccountForHead ==
    HasResults /\ ~simulated.march.clamped /\ FittingsInPlace(Resolved(study)) =>
        LET points == simulated.march.points
            passed == simulated.march.passages
            losses == simulated.losses
        IN  Outlet(simulated.march).grade =
              points[1].elevation + simulated.inlet
              + SumOver([k \in DOMAIN passed |-> passed[k].discharge - passed[k].suction])
              - SumOver([s \in DOMAIN losses |-> losses[s].friction + losses[s].minor])

\* Every depressurised point of the profile is in one reported zone, and no other.
ZonesCoverDepression ==
    HasResults /\ study.scenario.detectZones =>
        \A i \in DOMAIN simulated.march.points :
            LET p == simulated.march.points[i]
                zones == {z \in simulated.zones : z[1] <= p.at /\ p.at <= z[2]}
            IN  Cardinality(zones) = IF p.below THEN 1 ELSE 0

\* The result says what the march did: flows, losses and depressurised zones.
ResultAccountsForLine == FlowsAreConserved /\ LossesAccountForHead /\ ZonesCoverDepression

\* Every segment keeps its maximum, and its minimum or C-004 is reported as skipped: without any
\* maximum, check_maximum_pressure returns before it looks at the minima.
SegmentsKeepLimits(line, points) ==
    \A i \in DOMAIN points, s \in DOMAIN line.segments :
        line.segments[s].from <= points[i].at /\ points[i].at <= line.segments[s].to =>
            /\ line.segments[s].maop # None => points[i].pressure <= line.segments[s].maop
            /\ line.segments[s].minimum # None =>
                  points[i].pressure >= line.segments[s].minimum \/ "C-004" \in simulated.outcome.skipped

\* The whole profile is above a vapour pressure that the sheet gives, summits included.  Not the
\* suction of a station: C-002 reads the points of the profile, which are after the pumps.
LineStaysFull(line, points) ==
    HasOwn(study.fluid, "vapour") /\ ~study.scenario.gravity =>
        /\ \A i \in DOMAIN points : points[i].pressure > study.state.vapour
        /\ \A j \in DOMAIN line.profile :
              OnLine(line, X(line.profile, j)) => \E k \in DOMAIN points : points[k].at = X(line.profile, j)

\* No station in service sucks below its minimum or discharges above its maximum.
StationsKeepLimits(passages) ==
    ~ \E k \in DOMAIN passages :
        LET p == passages[k] IN
        /\ InService(p.station)
        /\ \/ p.station.suctionMin # None /\ p.suction < p.station.suctionMin
           \/ p.station.dischargeMax # None /\ p.discharge > p.station.dischargeMax

\* No running pump cavitates, is below its minimum flow or overloads its motor, as far as its
\* tables, its limits and the suction of its station are known.
PumpsKeepLimits(passages, vapour) ==
    ~ \E k \in DOMAIN passages : \E i \in DOMAIN passages[k].station.groups :
      \E pump \in passages[k].station.groups[i] :
        LET p    == passages[k]
            flow == GroupFlow(p.station, i, p.flow)
        IN  /\ pump \in RunningPumps(p.station)
            /\ \/ /\ p.station.suctionSpeed # None /\ RequiredNpsh(pump, flow) # None
                  /\ NpshAvailable(p, vapour) < RequiredNpsh(pump, flow) + pump.npshMargin
               \/ pump.minimumFlow # None /\ flow < pump.minimumFlow
               \/ /\ pump.rated # None /\ ShaftPower(pump, flow) # None
                  /\ (100 * ShaftPower(pump, flow)) \div p.station.drive > pump.rated

\* What an approval relies on.  An approvable result, whatever was drawn and whatever the
\* search went through, keeps the limits of its segments, stations and pumps, its line full, and
\* the outlet pressure asked for.
ApprovableIsSafe ==
    IsApprovable =>
        LET line == Resolved(study)
        IN  /\ SegmentsKeepLimits(line, simulated.march.points)
            /\ LineStaysFull(line, simulated.march.points)
            /\ StationsKeepLimits(simulated.march.passages)
            /\ PumpsKeepLimits(simulated.march.passages, study.state.vapour)
            /\ ~IsDirect(study) =>
                  Magnitude(Outlet(simulated.march).pressure - OutletPressure(line, study.scenario))
                      <= study.scenario.tolerance

TemperatureOf(s) == IF s.scenario.temperature = None THEN s.fluid.reference ELSE s.scenario.temperature

\* Every mandatory check was executed or declared skipped, and a violation names a check that
\* was executed.  A value read outside of the table it comes from is always reported.  A check
\* counts as executed when part of it was: C-004 by the limits of the stations while those of
\* the segments were skipped, C-003 by one pump of which the NPSH is known.  What such a part
\* leaves out is said by SegmentsKeepLimits and PumpsKeepLimits.
ChecksAreAccounted ==
    HasResults =>
        /\ Mandatory \subseteq simulated.outcome.executed \cup simulated.outcome.skipped
        /\ \A v \in simulated.outcome.violations \cup simulated.outcome.warnings :
              v[1] \in simulated.outcome.executed
        /\ (\E w \in simulated.outcome.warnings : w[1] = "C-011") <=>
              \E p \in Properties : study.fluid.tables[p] # None /\ ~InDomain(study.fluid.tables[p], TemperatureOf(study))

\* What the search relies on: without the gravity model, and while every station sees a
\* positive flow, more flow gives less outlet pressure, so that there is one operating point.
FallsAlong(gap, marches) ==
    \A q \in DOMAIN gap :
        q + 1 \in DOMAIN gap /\ (\A k \in DOMAIN marches[q].passages : marches[q].passages[k].flow >= 0)
            => gap[q + 1] < gap[q]

OutletFallsWithFlow ==
    Searching /\ ~SearchesInlet(study) /\ ~study.scenario.gravity =>
        FallsAlong(Gaps(study), [q \in DOMAIN Gaps(study) |-> March(study, q, 1)])

\* "À chaque station rencontrée, la charge est augmentée de la hauteur fournie":
\* each station of the line is passed once.
StationsPassedOnce ==
    HasResults =>
        LET passed == simulated.march.passages IN
        \A i \in DOMAIN Resolved(study).stations :
            Cardinality({k \in DOMAIN passed : passed[k].station.id = Resolved(study).stations[i].id}) = 1
=============================================================================
