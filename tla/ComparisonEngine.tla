--------------------------- MODULE ComparisonEngine ---------------------------
(***************************************************************************)
(* hydroliquid/pandapipes_adapter.py: the second engine.  It translates a  *)
(* line into a network of the library pandapipes, which is external, and   *)
(* keeps the answer only when the balances it computes again close.        *)
(*                                                                         *)
(* The library gives pressures above the local atmosphere.  Its answer is  *)
(* the solution of the network it was given, or is off it, or none.  It    *)
(* has its own friction factor, near that of the first engine.  As in      *)
(* LongDistance there is one friction model and no closed fitting.         *)
(*                                                                         *)
(* The two engines do not have the same gravity.  LongDistance takes       *)
(* density times Gravity as 1.  Here pressures are in Gravity-ths of that  *)
(* unit, and heads in LibraryGravity-ths of a unit of height: a difference *)
(* of height h is a pressure LibraryGravity * h, and the head of a         *)
(* pressure is the same number.                                            *)
(***************************************************************************)
EXTENDS LongDistance

CONSTANTS
    Gravity,         \* G of hydraulics.py
    LibraryGravity,  \* PANDAPIPES_GRAVITY_M_S2
    FactorError,     \* how far from the drag of the first engine that of the library may be
    Deviations       \* how far from the first engine's the drags are, and from the solution
                     \* the last pressure and the flow

ASSUME ComparisonAssumption ==
    /\ Gravity \in Nat \ {0} /\ LibraryGravity \in Nat \ {0}
    /\ FactorError \in Nat
    /\ Deviations \subseteq [drag : (-FactorError)..FactorError, pressure : Int, flow : Int]

\* A junction at the start of the line, then one at the end of each segment.
JunctionAt(line, j) == IF j = 1 THEN LineStart(line) ELSE line.segments[j - 1].to
Junctions(line)     == 1..(Len(line.segments) + 1)
Height(line, j)     == Elevation(line, JunctionAt(line, j))

\* Mutation of Untranslatable: what enters or leaves along the line is not looked at.
UntranslatableButInjections(line, sc) ==
    \/ line.stations # <<>>
    \/ sc.gravity
    \/ \E s \in DOMAIN line.segments : ~line.segments[s].open
    \/ DOMAIN sc.pumps \cup DOMAIN sc.stations \cup DOMAIN sc.segments # {}
    \/ \E i \in DOMAIN line.profile : \A j \in Junctions(line) : X(line.profile, i) # JunctionAt(line, j)

\* _incompatibilities is not empty: stations, injections, free surface flow, segments out
\* of service, overrides of the scenario, a level known inside a segment.
Untranslatable(line, sc) ==
    \/ line.stations # <<>>
    \/ \E i \in DOMAIN line.injections : line.injections[i].active
    \/ sc.gravity
    \/ \E s \in DOMAIN line.segments : ~line.segments[s].open
    \/ DOMAIN sc.pumps \cup DOMAIN sc.stations \cup DOMAIN sc.segments # {}
    \/ \E i \in DOMAIN line.profile : \A j \in Junctions(line) : X(line.profile, i) # JunctionAt(line, j)

(***************************************************************************)
(* The library.                                                            *)
(***************************************************************************)
\* p_correction_height_air, for an air as dense as the product.
Air(elevation) == Gravity * Atmosphere - LibraryGravity * elevation

TotalK(segment) == SumOver([j \in DOMAIN segment.fittings |-> EffectiveK(segment.fittings[j])])

\* What Drop takes is a head under Gravity, of which drag and k hold the inverse: the pressure
\* lost does not depend on gravity, and the head lost is that pressure under LibraryGravity.
PipeFriction(segment, flow, deviation) ==
    Gravity * (Drop(segment.drag + deviation.drag, flow * segment.speed) * (segment.to - segment.from))

PipeMinor(segment, flow) == Gravity * Drop(TotalK(segment), flow * segment.speed)

Static(line, i, j) == LibraryGravity * (Height(line, j) - Height(line, i))

\* pipeflow: the pressures, relative to the air, for the pressure imposed on the first
\* junction and the flow drawn from the last one.
Relative(line, imposed, flow, deviation) ==
    [j \in Junctions(line) |->
        imposed + Air(Height(line, 1)) - Static(line, 1, j) - Air(Height(line, j))
        - SumOver([s \in 1..(j - 1) |-> PipeFriction(line.segments[s], flow, deviation) + PipeMinor(line.segments[s], flow)])
        + IF j = Len(line.segments) + 1 THEN Gravity * deviation.pressure ELSE 0]

(***************************************************************************)
(* simulate                                                                *)
(***************************************************************************)
Absolute(line, relative) == [j \in Junctions(line) |-> relative[j] + Air(Height(line, j))]

\* The balance of heads of a segment, computed again from what the library returned.
BalanceResidual(line, pressures, flow, deviation, s) ==
    Magnitude((pressures[s] - pressures[s + 1]) - Static(line, s, s + 1)
              - PipeFriction(line.segments[s], flow, deviation) - PipeMinor(line.segments[s], flow))

\* The tolerance on flows is far below the unit.
BalancesClose(line, sc, pressures, deviation) ==
    /\ \A s \in DOMAIN line.segments : BalanceResidual(line, pressures, sc.flow, deviation, s) <= Gravity * sc.tolerance
    /\ deviation.flow = 0

Compared(line, sc, pressures, deviation) ==
    [status    |-> IF BalancesClose(line, sc, pressures, deviation) THEN "converged" ELSE "not_converged",
     flow      |-> sc.flow,
     pressures |-> pressures,
     losses    |-> [s \in DOMAIN line.segments |->
                       [friction |-> PipeFriction(line.segments[s], sc.flow, deviation),
                        minor    |-> PipeMinor(line.segments[s], sc.flow)]]]

ComparedWith(line, sc, deviation) ==
    Compared(line, sc,
             Absolute(line, Relative(line, Gravity * sc.inletPressure - Air(Height(line, 1)), sc.flow, deviation)), deviation)

VARIABLE compared  \* the result of the second engine for the study, or None

engineVars == <<lineVars, compared>>

\* After the first engine, to which it is compared.
Comparing == simulated # None /\ compared = None /\ UNCHANGED lineVars

\* UnsupportedCaseError: also without a flow and a pressure at the inlet.
IsUnsupported == \/ Untranslatable(study.line, study.scenario)
                 \/ study.scenario.flow = None \/ study.scenario.inletPressure = None

RefuseToCompare == Comparing /\ IsUnsupported /\ compared' = Failed("unsupported")

CompareInvalid == Comparing /\ ~IsUnsupported /\ ~IsValid(study) /\ compared' = Failed("invalid_input")

CompareUnknownFluid ==
    Comparing /\ ~IsUnsupported /\ IsValid(study) /\ study.state = Refused /\ compared' = Failed("error")

Translates == Comparing /\ ~IsUnsupported /\ IsValid(study) /\ study.state # Refused

CompareStudy ==
    /\ Translates
    /\ \E deviation \in Deviations : compared' = ComparedWith(study.line, study.scenario, deviation)

LibraryDiverges == Translates /\ compared' = Failed("not_converged")

ComparisonStep ==
    RefuseToCompare \/ CompareInvalid \/ CompareUnknownFluid \/ CompareStudy \/ LibraryDiverges

ComparisonInit == compared = None
ComparisonNext == (LineNext /\ UNCHANGED compared) \/ ComparisonStep

ComparisonSpec == LineInit /\ ComparisonInit /\ [][ComparisonNext]_engineVars

-----------------------------------------------------------------------------
\* What the second engine loses by friction more than the first one, as a pressure.
FrictionExcess(s) == compared.losses[s].friction - Gravity * simulated.losses[s].friction

\* "Comparaison croisée": a case the second engine accepts and converges on is a case of the
\* first one.  In every segment the fittings lose the same pressure, so that the heads reported
\* are as the inverse of the gravities, and the frictions differ by what the two factors do.
\* At the end of the line the pressures differ by these frictions, by what the gravities make
\* of the difference of height, and by no more than the tolerance of each segment.  Where a
\* fitting lies on the joint of two velocities the last does not hold: see FittingsInPlace.
EnginesAgree ==
    compared # None /\ compared.status = "converged" =>
        /\ HasResults /\ simulated.flow = compared.flow
        /\ \A s \in DOMAIN compared.losses :
              LET segment == study.line.segments[s]
                  spread  == Magnitude(Drop(FactorError, compared.flow * segment.speed)) * (segment.to - segment.from)
              IN  /\ Magnitude(FrictionExcess(s)) <= Gravity * spread
                  /\ compared.losses[s].minor = Gravity * simulated.losses[s].minor
        /\ FittingsInPlace(study.line) =>
              LET last   == Len(study.line.segments) + 1
                  relief == Height(study.line, last) - Height(study.line, 1)
                  excess == SumOver([s \in DOMAIN compared.losses |-> FrictionExcess(s)])
              IN  Magnitude(Gravity * Outlet(simulated.march).pressure - compared.pressures[last] - excess)
                      <= Magnitude((LibraryGravity - Gravity) * relief)
                         + Gravity * (Len(study.line.segments) * study.scenario.tolerance)
=============================================================================
