------------------------------ MODULE Transfers ------------------------------
(***************************************************************************)
(* hydro_tanks/transfer.py and the resolver of services/operations.py: one *)
(* tank to tank transfer, from the checks that precede it to its stop.     *)
(*                                                                         *)
(* Each step asks for the operating point of the path, which is imposed or *)
(* computed by the hydraulic engine, then moves a volume.  The engine is   *)
(* the environment: it may return any flow, or fail.  A computed point is  *)
(* kept and used again while the levels have hardly changed, or when the   *)
(* budget of evaluations is spent.                                         *)
(*                                                                         *)
(* Volumes, levels and times are integers; Ticks ticks of the clock are    *)
(* the time in which a flow q moves a volume q.  What is received is the   *)
(* volume withdrawn divided by keep, the rest is lost.  Pressures, power   *)
(* and energy are left out.                                                *)
(* A transfer that was simulated is recorded, and a balance of gauged and  *)
(* metered volumes may be attached to its record.                          *)
(***************************************************************************)
EXTENDS Tables, Quantities, FiniteSets

CONSTANTS
    Requests,  \* what a user may ask for
    Flows,     \* the flows the hydraulic engine may return
    Ticks,
    Gaugings   \* errors of what is measured around a transfer, and the tolerances asked for

\* The strapping table of a tank: heights against volumes.
VolumeAt(tank, level)  == Evaluate(tank.strapping, level)
LevelAt(tank, volume)  == Solve(tank.strapping, volume)
HighHighVolume(tank)   == VolumeAt(tank, tank.highHigh)
CurrentVolume(tank)    == VolumeAt(tank, tank.level)
SourceLimit(tank)      == VolumeAt(tank, tank.minimum) + tank.dead

PumpableVolume(tank)    == Above0(CurrentVolume(tank) - SourceLimit(tank))
AvailableCapacity(tank) == Above0(HighHighVolume(tank) - CurrentVolume(tank))

AcceptsFluid(tank, fluid) ==
    IF tank.compatible # {} THEN fluid \in tank.compatible
    ELSE tank.fluid \in {None, fluid}

ASSUME TransferAssumption ==
    /\ Ticks \in Nat \ {0}
    /\ Flows \subseteq Nat
    /\ \A r \in Requests :
          /\ \A v \in {CurrentVolume(r.source), SourceLimit(r.source),
                       CurrentVolume(r.destination), HighHighVolume(r.destination)} : v \in Nat
          /\ {r.flow, r.step, r.target, r.maxDuration} \subseteq Int /\ r.budget \in Nat \ {0}
          /\ r.keep \in {1, 2} /\ r.kind \in {"volume", "level", "duration"}
          /\ r.maxFlow \in Int \cup {None} /\ None \notin Int
          /\ r.coupled \in BOOLEAN

ASSUME GaugingAssumption ==
    \A e \in Gaugings :
        /\ e.drift \in Int /\ e.accounted \in BOOLEAN
        /\ {e.absolute, e.relative, e.coverage, e.uncertainty} \subseteq Nat

TransferReasons ==
    {"target_volume_reached", "target_level_reached", "source_low_level",
     "destination_high_level", "duration_reached", "hydraulic_constraint", "not_feasible", "refused"}

ASSUME ReasonAssumption == None \notin TransferReasons /\ None \notin Requests

VARIABLES
    stage,        \* "idle", "running" or "done"
    request,      \* the transfer that was asked for
    source, destination,          \* volumes of the two tanks
    withdrawn, received, losses,  \* cumulated volumes
    clock,
    evaluations,  \* engine calls of the resolver
    cached,       \* levels and point of the last engine call, or None
    reason,       \* TransferStopReason, "refused" or None
    record        \* TransferRun: its status and its balance, or None

volumeVars   == <<source, destination, withdrawn, received, losses, clock>>
resolverVars == <<evaluations, cached>>
transferVars == <<stage, request, volumeVars, resolverVars, reason, record>>

TransferInit ==
    /\ stage = "idle" /\ request = None
    /\ source = 0 /\ destination = 0
    /\ withdrawn = 0 /\ received = 0 /\ losses = 0 /\ clock = 0
    /\ evaluations = 0 /\ cached = None /\ reason = None /\ record = None

(***************************************************************************)
(* Before the start.                                                       *)
(***************************************************************************)
\* TransferRequest: the tanks are distinct, what is given is positive, and a target duration
\* is not beyond the maximum.
RequestIsSound(r) ==
    /\ r.source.id # r.destination.id
    /\ \A v \in {r.flow, r.target, r.step, r.maxDuration, r.maxFlow} \ {None} : v > 0
    /\ r.kind = "duration" => r.target <= r.maxDuration

LevelInTable(r) == InDomain(r.destination.strapping, r.target)

\* The volume to withdraw; None for a level that is outside of the table.
PlannedWithdrawal(r) ==
    CASE r.kind = "volume"   -> r.target
      [] r.kind = "duration" -> (r.flow * r.target) \div Ticks
      [] OTHER -> IF LevelInTable(r)
                  THEN Above0(VolumeAt(r.destination, r.target) - CurrentVolume(r.destination)) * r.keep
                  ELSE None

TanksUsable(r) ==
    /\ r.source.available /\ r.destination.available
    /\ r.source.fluid \in {None, r.fluid}
    /\ AcceptsFluid(r.destination, r.fluid)

\* Mutation of VolumesSuffice: the dead volume counts as pumpable.
VolumesSufficeGross(r) ==
    LET w == PlannedWithdrawal(r) IN
    w # None => /\ w <= CurrentVolume(r.source)
                /\ w \div r.keep <= AvailableCapacity(r.destination)

VolumesSuffice(r) ==
    LET w == PlannedWithdrawal(r) IN
    w # None => /\ w <= PumpableVolume(r.source)
                /\ w \div r.keep <= AvailableCapacity(r.destination)

LevelReachable(r) ==
    r.kind = "level" => /\ LevelInTable(r)
                        /\ r.destination.level < r.target
                        /\ r.target <= r.destination.highHigh

\* assess_feasibility finds no problem.
Feasible(r) ==
    /\ TanksUsable(r)
    /\ r.maxFlow # None => r.flow <= r.maxFlow
    /\ VolumesSuffice(r)
    /\ LevelReachable(r)

\* A feasible transfer has something to withdraw: the quantities are strictly positive and
\* the tables strictly increasing.
ASSUME PlanAssumption ==
    \A r \in Requests : RequestIsSound(r) /\ Feasible(r) =>
        /\ PlannedWithdrawal(r) \in Int /\ PlannedWithdrawal(r) >= r.keep
        /\ r.kind = "level" => VolumeAt(r.destination, r.target) \in Int

BeginTransfer(r) ==
    /\ stage = "idle"
    /\ request' = r
    /\ source' = CurrentVolume(r.source) /\ destination' = CurrentVolume(r.destination)
    /\ \/ ~RequestIsSound(r) /\ stage' = "done" /\ reason' = "refused"
       \/ RequestIsSound(r) /\ Feasible(r) /\ stage' = "running" /\ reason' = None
       \/ RequestIsSound(r) /\ ~Feasible(r) /\ stage' = "done" /\ reason' = "not_feasible"
    /\ UNCHANGED <<withdrawn, received, losses, clock, resolverVars, record>>

(***************************************************************************)
(* One step at an operating point.                                         *)
(***************************************************************************)
\* What may still be withdrawn before the target and before each limit.
TargetGap(r) ==
    IF r.kind = "volume" THEN Above0(r.target - withdrawn)
    ELSE Above0(VolumeAt(r.destination, r.target) - destination) * r.keep
SourceGap(r) == Above0(source - SourceLimit(r.source))

\* Mutation of DestinationGap: the losses are forgotten.
DestinationGapLossless(r) == Above0(HighHighVolume(r.destination) - destination) * 2

DestinationGap(r) == Above0(HighHighVolume(r.destination) - destination) * r.keep

LimitGap(r) == Least(SourceGap(r), DestinationGap(r))
Gap(r)      == IF r.kind = "duration" THEN LimitGap(r) ELSE Least(TargetGap(r), LimitGap(r))

\* min(candidates): the first of the smallest.
LimitingReason(r) ==
    IF r.kind # "duration" /\ TargetGap(r) <= LimitGap(r)
    THEN IF r.kind = "volume" THEN "target_volume_reached" ELSE "target_level_reached"
    ELSE IF SourceGap(r) <= DestinationGap(r) THEN "source_low_level" ELSE "destination_high_level"

\* The next step, cut at the maximum duration and at the target duration.
StepLength(r) ==
    LET dt == Least(r.step, r.maxDuration - clock)
    IN  IF r.kind = "duration" THEN Least(dt, Above0(r.target - clock)) ELSE dt

Planned(r, flow) == (flow * StepLength(r)) \div Ticks
Moved(r, flow)   == Least(Planned(r, flow), Gap(r))

\* Reached(r, flow): why the transfer ends after this step, None if it goes on.
Reached(r, flow) ==
    LET dt      == StepLength(r)
        elapsed == (Moved(r, flow) * Ticks) \div flow
    IN  IF Gap(r) <= Planned(r, flow) THEN LimitingReason(r)
        ELSE IF r.kind = "duration" /\ r.target - clock <= dt /\ dt <= elapsed
             THEN "duration_reached"
        ELSE IF elapsed = 0 THEN "hydraulic_constraint" ELSE None

Blocked(r, point) ==
    \/ ~point.feasible \/ point.flow <= 0
    \/ r.maxFlow # None /\ point.flow > r.maxFlow

Advance(r, flow) ==
    LET w == Moved(r, flow)
        g == w \div r.keep
    IN
    /\ source' = source - w /\ destination' = destination + g
    /\ withdrawn' = withdrawn + w /\ received' = received + g
    /\ losses' = losses + (w - g)
    /\ clock' = clock + (w * Ticks) \div flow
    /\ reason' = Reached(r, flow)
    /\ stage' = IF reason' = None THEN "running" ELSE "done"

Stop(why) == stage' = "done" /\ reason' = why /\ UNCHANGED volumeVars

StepAt(point) ==
    IF Blocked(request, point) THEN Stop("hydraulic_constraint")
                               ELSE Advance(request, point.flow)

(***************************************************************************)
(* The operating point.                                                    *)
(***************************************************************************)
Running == stage = "running" /\ clock < request.maxDuration

Levels == [source |-> LevelAt(request.source, source),
           destination |-> LevelAt(request.destination, destination)]

CacheIsNear ==
    /\ cached # None
    /\ Within(Levels.source, cached.levels.source, request.levelStep)
    /\ Within(Levels.destination, cached.levels.destination, request.levelStep)

\* constant_operating_point: the requested flow.
MoveAtImposedFlow ==
    /\ Running /\ ~request.coupled
    /\ StepAt([flow |-> request.flow, feasible |-> TRUE])
    /\ UNCHANGED <<request, resolverVars>>

\* The last point again: near enough, or the budget is spent.
MoveAtCachedPoint ==
    /\ Running /\ request.coupled
    /\ CacheIsNear \/ (evaluations >= request.budget /\ cached # None)
    /\ StepAt(cached.point)
    /\ UNCHANGED <<request, resolverVars>>

CallsEngine == /\ Running /\ request.coupled
               /\ ~CacheIsNear /\ evaluations < request.budget

\* A new point; its flow is cut at the maximum, and a null flow is not feasible.
MoveAtComputedPoint(flow, feasible) ==
    LET q == IF request.maxFlow = None THEN flow ELSE Least(flow, request.maxFlow)
        point == [flow |-> q, feasible |-> feasible /\ q > 0]
    IN
    /\ CallsEngine
    /\ evaluations' = evaluations + 1
    /\ cached' = [levels |-> Levels, point |-> point]
    /\ StepAt(point)
    /\ UNCHANGED request

\* HydroError: an infeasible point, which is not kept.
EngineFails ==
    /\ CallsEngine
    /\ evaluations' = evaluations + 1
    /\ Stop("hydraulic_constraint")
    /\ UNCHANGED <<request, cached>>

\* The loop ends without a reason.
RunOutOfTime ==
    /\ stage = "running" /\ clock >= request.maxDuration
    /\ Stop("hydraulic_constraint")
    /\ UNCHANGED <<request, resolverVars>>

(***************************************************************************)
(* The record of a transfer and its balance.                               *)
(***************************************************************************)
\* simulate_transfer: a request that is refused raises, and nothing is recorded.
RecordTransfer ==
    /\ stage = "done" /\ reason # "refused" /\ record = None
    /\ record' = [status |-> reason, balance |-> None]
    /\ UNCHANGED <<stage, request, volumeVars, resolverVars, reason>>

\* compute_transfer_balance; a positive imbalance is a volume that nothing explains.
Imbalance(g) == (g.sourceOpening - g.sourceClosing) - (g.destinationClosing - g.destinationOpening) - g.losses

ReferenceVolume(g) ==
    Greatest(Magnitude(g.metered), Greatest(Magnitude(g.sourceOpening - g.sourceClosing),
                                            Magnitude(g.destinationClosing - g.destinationOpening)))

\* The largest of three limits: absolute, relative (in thousandths) and the uncertainty of
\* the five measurements of the stocks, combined as a root of squares.
WithinTolerance(g) ==
    \/ Magnitude(Imbalance(g)) <= g.absolute
    \/ 1000 * Magnitude(Imbalance(g)) <= g.relative * ReferenceVolume(g)
    \/ Imbalance(g) * Imbalance(g) <= g.coverage * g.coverage * 5 * g.uncertainty * g.uncertainty

\* The measurements of a user: those of the transfer, with an error on the last volume of the
\* source, and with its losses or without.
Gauged(e) ==
    [sourceOpening |-> CurrentVolume(request.source), sourceClosing |-> source + e.drift,
     destinationOpening |-> CurrentVolume(request.destination), destinationClosing |-> destination,
     losses |-> IF e.accounted THEN losses ELSE 0, metered |-> withdrawn, absolute |-> e.absolute,
     relative |-> e.relative, coverage |-> e.coverage, uncertainty |-> e.uncertainty]

BalanceOf(e) == [error |-> e, imbalance |-> Imbalance(Gauged(e)), closed |-> WithinTolerance(Gauged(e))]

\* compute_balance replaces the balance of the record; once is enough to see all of them.
ComputeBalance ==
    /\ record # None /\ record.balance = None
    /\ \E e \in Gaugings : record' = [record EXCEPT !.balance = BalanceOf(e)]
    /\ UNCHANGED <<stage, request, volumeVars, resolverVars, reason>>

SimulationStep ==
    \/ MoveAtImposedFlow \/ MoveAtCachedPoint \/ EngineFails \/ RunOutOfTime
    \/ \E q \in Flows, ok \in BOOLEAN : MoveAtComputedPoint(q, ok)

TransferStep == SimulationStep /\ UNCHANGED record

TransferNext ==
    \/ RecordTransfer \/ ComputeBalance
    \/ (stage = "idle" /\ \E r \in Requests : BeginTransfer(r))
    \/ TransferStep

TransferSpec == TransferInit /\ [][TransferNext]_transferVars

-----------------------------------------------------------------------------
\* Types; the engine is called no more often than the budget allows, and a
\* transfer that has stopped says why.
TransferTypeOK ==
    /\ stage \in {"idle", "running", "done"}
    /\ stage = "idle" <=> request = None
    /\ reason \in TransferReasons \cup {None} /\ (stage = "done" <=> reason # None)
    /\ {source, destination, withdrawn, received, losses, clock, evaluations} \subseteq Nat
    /\ request # None => evaluations <= request.budget

\* Closed balance (balance_residual_m3 = 0): what left the source is in the
\* destination or among the losses, whatever the operating points were.
TransferConserves ==
    request # None =>
        /\ source = CurrentVolume(request.source) - withdrawn
        /\ destination = CurrentVolume(request.destination) + received
        /\ withdrawn = received + losses

\* The source is never drawn below its minimum and dead volumes, and the
\* destination never filled above its very high level: also with a flow that is
\* out of date because the budget of evaluations is spent.
TransferWithinLimits ==
    stage # "idle" /\ reason \notin {"not_feasible", "refused"} =>
        /\ source >= SourceLimit(request.source)
        /\ destination <= HighHighVolume(request.destination)

\* The tanks are where the reason of the stop says they are.
StopIsTrue ==
    /\ reason = "target_volume_reached" => withdrawn = request.target
    /\ reason = "target_level_reached" =>
          destination = VolumeAt(request.destination, request.target)
    /\ reason = "source_low_level" => source = SourceLimit(request.source)
    /\ reason = "destination_high_level" => destination = HighHighVolume(request.destination)
    /\ reason = "duration_reached" => clock = request.target

\* The balance of a simulated transfer closes when its stocks are gauged as they are and its
\* losses accounted for; what is missing shows, unless a tolerance or an uncertainty covers it.
BalanceCloses ==
    record # None /\ record.balance # None =>
        LET e       == record.balance.error
            missing == IF e.accounted THEN 0 ELSE losses
        IN  /\ e.drift = 0 /\ missing = 0 => record.balance.imbalance = 0 /\ record.balance.closed
            /\ e.absolute = 0 /\ e.relative = 0 /\ e.uncertainty = 0
                  => (record.balance.closed <=> missing = e.drift)

\* A simulated transfer: no volume appears or vanishes, no limit is passed, and the
\* reason of the stop is the limit that was met; its balance closes.
TransferIsSound == TransferConserves /\ TransferWithinLimits /\ StopIsTrue /\ BalanceCloses

\* What the checks before the start are for: an imposed flow that passes them
\* reaches its target or the maximum duration, and no limit before.
PreflightIsRight ==
    stage = "done" /\ reason \notin {"not_feasible", "refused"} /\ ~request.coupled =>
        \/ clock >= request.maxDuration
        \/ CASE request.kind = "volume"   -> withdrawn = request.target
             [] request.kind = "level"    -> destination = VolumeAt(request.destination, request.target)
             [] OTHER                     -> clock = request.target

\* A transfer that has started stops: the loop of simulate ends, whatever the
\* engine answers.
TransferEnds == stage = "running" ~> stage = "done"
=============================================================================
