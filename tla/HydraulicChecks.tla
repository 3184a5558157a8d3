--------------------------- MODULE HydraulicChecks ---------------------------
(***************************************************************************)
(* hydroliquid/checks.py: the checks C-001 to C-012 of a computed result.  *)
(* Each returns an outcome: the checks it executed, those it skipped for   *)
(* want of data, the violations and the warnings.  All violations are      *)
(* critical.  Ratios are in percent, except the relative balance.          *)
(***************************************************************************)
EXTENDS Quantities, Sequences, FiniteSets

Outcome(executed, skipped, violations, warnings) ==
    [executed |-> executed, skipped |-> skipped, violations |-> violations, warnings |-> warnings]

Skipped(check) == Outcome({}, {check}, {}, {})

\* Mutation of Together: what a check skipped is forgotten.
TogetherExecuted(outcomes) ==
    Outcome(UNION {o.executed : o \in outcomes}, {},
            UNION {o.violations : o \in outcomes}, UNION {o.warnings : o \in outcomes})

\* CheckOutcome.extend, outcome after outcome: what is skipped once stays listed, even when
\* executed elsewhere.
Together(outcomes) ==
    Outcome(UNION {o.executed : o \in outcomes}, UNION {o.skipped : o \in outcomes},
            UNION {o.violations : o \in outcomes}, UNION {o.warnings : o \in outcomes})

\* A finding names its check and what it found, with the object when there are several.
If(condition, finding) == IF condition THEN {finding} ELSE {}

CheckMassBalance(inlet, outlet, net, tolerance) ==
    LET gap       == Magnitude(outlet - (inlet + net))
        reference == Max({Magnitude(inlet), Magnitude(outlet), 1})
    IN  Outcome({"C-001"}, {}, If(gap > tolerance * reference, <<"C-001", "mass balance">>), {})

\* With the gravity model a depressurised point is a feature of the model.
CheckVapour(points, vapour, gravity, known) ==
    LET low == \E i \in DOMAIN points : points[i].pressure <= vapour IN
    IF ~known THEN Skipped("C-002")
    ELSE Outcome({"C-002"}, {}, If(low /\ ~gravity, <<"C-002", "below vapour">>),
                                If(low /\ gravity, <<"C-002", "gravity flow">>))

\* Executed as soon as one running pump has both values.
CheckNpsh(pumps) ==
    LET known == {p \in pumps : p.running /\ p.npshRequired # None /\ p.npshAvailable # None} IN
    IF known = {} THEN Skipped("C-003")
    ELSE Outcome({"C-003"}, {},
            {<<"C-003", p.id>> : p \in {r \in known : r.npshAvailable < r.npshRequired + r.npshMargin}}, {})

PointsOf(segment, points) ==
    {points[i] : i \in {j \in DOMAIN points : segment.from <= points[j].at /\ points[j].at <= segment.to}}
HighestPressure(segment, points) == Max({p.pressure : p \in PointsOf(segment, points)})
LowestPressure(segment, points)  == Min({p.pressure : p \in PointsOf(segment, points)})

Limited(segments) ==
    {i \in DOMAIN segments : segments[i].maop # None}

\* Mutation of TooHigh: only the inlet of the segment is looked at.
TooHighAtInlet(segment, points) ==
    /\ segment.maop # None
    /\ \E p \in PointsOf(segment, points) : p.at = segment.from /\ p.pressure > segment.maop

TooHigh(segment, points) == segment.maop # None /\ HighestPressure(segment, points) > segment.maop

TooLow(segment, points) == segment.minimum # None /\ LowestPressure(segment, points) < segment.minimum

\* Segment by segment; 95 % of the limit is near.  Without any maximum, the
\* minimum pressures are not looked at either.
CheckMaximumPressure(points, segments) ==
    IF Limited(segments) = {} THEN Skipped("C-004")
    ELSE Outcome({"C-004"}, {},
            {<<"C-004", "high", i>> : i \in {j \in DOMAIN segments : TooHigh(segments[j], points)}}
            \cup {<<"C-004", "low", i>> : i \in {j \in DOMAIN segments : TooLow(segments[j], points)}},
            {<<"C-004", "near", i>> : i \in {j \in Limited(segments) :
                /\ ~TooHigh(segments[j], points)
                /\ 100 * HighestPressure(segments[j], points) > 95 * segments[j].maop}})

CheckVelocity(points, lowest, highest) ==
    LET speeds == {Magnitude(points[i].velocity) : i \in DOMAIN points} IN
    IF lowest = None /\ highest = None THEN Skipped("C-005")
    ELSE Outcome({"C-005"}, {}, {},
            If(highest # None /\ Max(speeds) > highest, <<"C-005", "fast">>)
            \cup If(lowest # None /\ Min(speeds) < lowest, <<"C-005", "slow">>))

CheckCurveDomain(pumps) ==
    LET running == {p \in pumps : p.running} IN
    IF running = {} THEN Skipped("C-006")
    ELSE Outcome({"C-006"}, {},
            {<<"C-006", p.id>> : p \in {r \in running : r.minimumFlow # None /\ r.flow < r.minimumFlow}},
            {<<"C-006", "extrapolated", p.id>> : p \in {r \in running : ~r.within}}
            \cup {<<"C-006", "off bep", p.id>> : p \in {r \in running : r.offBep # None /\ r.offBep > 30}})

CheckMotorPower(pumps) ==
    LET known == {p \in pumps : p.running /\ p.absorbed # None /\ p.rated # None} IN
    IF known = {} THEN Skipped("C-007")
    ELSE Outcome({"C-007"}, {}, {<<"C-007", p.id>> : p \in {r \in known : r.absorbed > r.rated}}, {})

CheckConvergence(converged, residual, tolerance) ==
    Outcome({"C-010", "C-012"}, {},
            If(~converged, <<"C-010", "not converged">>)
            \cup If(converged /\ Magnitude(residual) > tolerance, <<"C-012", "residual">>), {})

CheckExtrapolation(extrapolated) ==
    Outcome({"C-011"}, {}, {}, If(extrapolated, <<"C-011", "extrapolated">>))

\* Suction and discharge of the stations in service, under the name of C-004.
CheckStationPressures(stations) ==
    LET limited == {s \in stations : s.inService /\ (s.suctionMin # None \/ s.dischargeMax # None)} IN
    Outcome(IF limited = {} THEN {} ELSE {"C-004"}, {},
            {<<"C-004", "suction", s.id>> : s \in
                {t \in limited : t.suctionMin # None /\ t.suction < t.suctionMin}}
            \cup {<<"C-004", "discharge", s.id>> : s \in
                {t \in limited : t.dischargeMax # None /\ t.discharge > t.dischargeMax}}, {})

Mandatory == {"C-001", "C-002", "C-003", "C-004", "C-005", "C-006", "C-007", "C-010", "C-011", "C-012"}
=============================================================================
