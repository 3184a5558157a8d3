---------------------------- MODULE PumpStations ----------------------------
(***************************************************************************)
(* hydro_domain/pumps.py and stations.py: what a pumping station adds to   *)
(* the head of the line, and how the flow is shared between its groups.    *)
(*                                                                         *)
(* Flows and heads are integers.  The dichotomies of the code converge to  *)
(* the last flow, or head, on one side of a condition: here it is the last *)
(* integer.  FullSpeed stands for a speed ratio of 1.                      *)
(***************************************************************************)
EXTENDS Tables, Quantities

CONSTANTS
    FullSpeed, LargestFlow,
    Stations  \* those that are evaluated alone

\* An efficiency is in percent.
Efficiencies == {c \in Curves : \A i \in DOMAIN c : Y(c, i) \in 1..100}

\* The curve of a pump falls, and its speed is within the bounds of its model.
PumpType ==
    [id : STRING, curve : {c \in Curves : Decreasing(c)}, speed : Nat \ {0}, available : BOOLEAN, running : BOOLEAN,
     power : Maybe(Curves), efficiency : Maybe(Efficiencies), npshr : Maybe(Curves), npshMargin : Int,
     minimumFlow : Maybe(Int), rated : Maybe(Int)]
Groups == {group \in SUBSET PumpType : IsFiniteSet(group)}

ASSUME StationAssumption ==
    /\ FullSpeed \in Nat \ {0} /\ LargestFlow \in Nat
    /\ \A s \in Stations : s.groups \in Seq(Groups)

(***************************************************************************)
(* A pump.  curve, power, efficiency (in percent) and npshr are tables     *)
(* against the flow at full speed; the last three may be None.             *)
(***************************************************************************)
EquivalentFlow(pump, flow) == (flow * FullSpeed) \div pump.speed

\* Affinity laws: the head varies as the square of the speed, the power as its cube.
Raised(n, power) == IF power = 2 THEN n * n ELSE n * n * n

AtSpeed(pump, value, power) == (value * Raised(pump.speed, power)) \div Raised(FullSpeed, power)

PumpHead(pump, flow) ==
    Above0(AtSpeed(pump, Evaluate(pump.curve, EquivalentFlow(pump, flow)), 2))

PumpExtrapolated(pump, flow) == ~InDomain(pump.curve, EquivalentFlow(pump, flow))

Optional(table, pump, flow, power) ==
    IF table = None THEN None
    ELSE AtSpeed(pump, Clamped(table, EquivalentFlow(pump, flow)), power)

RequiredNpsh(pump, flow) == Optional(pump.npshr, pump, flow, 2)

\* The power on the shaft: P(Q), or the hydraulic power over the efficiency.
ShaftPower(pump, flow) ==
    IF pump.power # None THEN Optional(pump.power, pump, flow, 3)
    ELSE IF pump.efficiency # None
         THEN (100 * flow * PumpHead(pump, flow))
                \div Clamped(pump.efficiency, EquivalentFlow(pump, flow))
         ELSE None

BestEfficiencyFlow(pump) ==
    IF pump.efficiency = None THEN None
    ELSE X(pump.efficiency,
           CHOOSE i \in DOMAIN pump.efficiency :
               /\ \A j \in DOMAIN pump.efficiency : Y(pump.efficiency, j) <= Y(pump.efficiency, i)
               /\ \A j \in 1..(i - 1) : Y(pump.efficiency, j) < Y(pump.efficiency, i))

(***************************************************************************)
(* A group: pumps in series.  A station: a sequence of groups.             *)
(***************************************************************************)
ActivePumps(group) == {p \in group : p.available /\ p.running}

GroupHead(group, flow) ==
    SumOver([p \in ActivePumps(group) |-> PumpHead(p, flow)])

InService(station)    == station.status = "available"
IsBypassed(station)   == station.status = "bypassed"
ActiveGroups(station) ==
    {i \in DOMAIN station.groups : InService(station) /\ ActivePumps(station.groups[i]) # {}}
RunningPumps(station) == UNION {ActivePumps(station.groups[i]) : i \in ActiveGroups(station)}

InSeries(station) == station.arrangement = "series" \/ Cardinality(ActiveGroups(station)) = 1

\* The last flow at which the group still exceeds the head; none for a group
\* that cannot reach it.
GroupFlowAtHead(group, head) ==
    IF head >= GroupHead(group, 0) THEN 0
    ELSE CHOOSE q \in 0..LargestFlow :
             /\ GroupHead(group, q) > head
             /\ q = LargestFlow \/ GroupHead(group, q + 1) <= head

TotalFlowAt(station, head) ==
    SumOver([i \in ActiveGroups(station) |-> GroupFlowAtHead(station.groups[i], head)])

\* Mutation of HighestHead: the weakest group limits the search.
HighestHeadOfWeakest(station) ==
    Min({GroupHead(station.groups[i], 0) : i \in ActiveGroups(station)})

HighestHead(station) == Max({GroupHead(station.groups[i], 0) : i \in ActiveGroups(station)})

\* The head at which the groups carry the flow together; none beyond what they can carry.
ParallelHead(station, flow) ==
    IF flow <= 0 THEN HighestHead(station)
    ELSE IF TotalFlowAt(station, 0) < flow THEN 0
    ELSE Max({h \in 0..HighestHead(station) : TotalFlowAt(station, h) >= flow})

\* combined_head.
StationHead(station, flow) ==
    IF flow < 0 \/ ActiveGroups(station) = {} THEN 0
    ELSE IF InSeries(station)
         THEN SumOver([i \in ActiveGroups(station) |-> GroupHead(station.groups[i], flow)])
         ELSE ParallelHead(station, flow)

\* flow_distribution: what each group carries, scaled to the flow of the station.
ShareAt(station, i, flow, head) ==
    LET raw == GroupFlowAtHead(station.groups[i], head)
    IN  IF raw = 0 THEN 0 ELSE (raw * flow) \div TotalFlowAt(station, head)

GroupFlow(station, i, flow) ==
    IF InSeries(station) THEN flow ELSE ShareAt(station, i, flow, ParallelHead(station, flow))

PumpPowers(station, flow) ==
    [p \in RunningPumps(station) |->
        ShaftPower(p, GroupFlow(station, CHOOSE i \in ActiveGroups(station) : p \in station.groups[i], flow))]

\* evaluate: known only when the power of every running pump is.
DrawnPower(powers, drive) ==
    IF \E p \in DOMAIN powers : powers[p] = None THEN None
    ELSE IF DOMAIN powers # {} /\ SumOver(powers) <= 0 THEN None ELSE (100 * SumOver(powers)) \div drive

StationPower(station, flow) == DrawnPower(PumpPowers(station, flow), station.drive)

(***************************************************************************)
(* One evaluation.                                                         *)
(***************************************************************************)
VARIABLE operation  \* the station and the flow it is evaluated at, or None

StationInit == operation = None

EvaluateStation(station, flow) ==
    /\ operation = None
    /\ operation' = [station |-> station, flow |-> flow]

StationNext == \E s \in Stations, q \in 0..LargestFlow : EvaluateStation(s, q)

StationSpec == StationInit /\ [][StationNext]_operation

-----------------------------------------------------------------------------
\* What the uniqueness of an operating point rests on: the head a station gives
\* never rises with the flow, whatever its arrangement and its pumps.
HeadNeverRises ==
    operation # None =>
        LET s == operation.station IN
        operation.flow < LargestFlow =>
            StationHead(s, operation.flow + 1) <= StationHead(s, operation.flow)

\* Groups in parallel work at one head, to the resolution of the flow (one unit for each
\* group): none is asked for a flow at which it gives less, none is held so far back that
\* it would still give more, and together they carry all of it.
HeadsAgree ==
    operation # None /\ ~InSeries(operation.station) /\ ActiveGroups(operation.station) # {} =>
        LET s == operation.station
            q == operation.flow
            h == StationHead(s, q)
            groups == ActiveGroups(s)
            carried == SumOver([i \in groups |-> GroupFlow(s, i, q)])
        IN  h > 0 =>
            /\ carried <= q /\ q < carried + Cardinality(groups)
            /\ \A i \in groups :
                  /\ GroupFlow(s, i, q) > 0 => GroupHead(s.groups[i], GroupFlow(s, i, q)) >= h
                  /\ GroupHead(s.groups[i], GroupFlow(s, i, q) + Cardinality(groups)) <= h

\* The characteristic of a station, whatever its arrangement.
StationsWorkAtOneHead == HeadNeverRises /\ HeadsAgree
=============================================================================
