---------------------------- MODULE MCComponents ----------------------------
(***************************************************************************)
(* Instances of the engines and of the services for TLC.  The parts share  *)
(* no state; one run checks them all, each behaviour taking the steps of   *)
(* one part.                                                               *)
(***************************************************************************)
EXTENDS Transfers, RootSearch, ComparisonEngine, PumpSearch, Submissions, RuleGovernance, DataImports, Packages,
        NetworkAssembly, Catalog

CONSTANT Parts  \* the parts a run checks
VARIABLE part

-----------------------------------------------------------------------------
\* Tanks: slope 1 below level 8 and slope 2 above, or slope 1/2.
TankA(level, dead) ==
    [id |-> "a", strapping |-> << <<0, 0>>, <<8, 8>>, <<12, 16>> >>, minimum |-> 2, highHigh |-> 12,
     level |-> level, dead |-> dead, fluid |-> "oil", compatible |-> {}, available |-> TRUE]
TankB(level) ==
    [id |-> "b", strapping |-> << <<0, 0>>, <<16, 8>>, <<20, 12>> >>, minimum |-> 0, highHigh |-> 16,
     level |-> level, dead |-> 0, fluid |-> None, compatible |-> {"oil"}, available |-> TRUE]

Transfer(from, to, fluid, limit, kind, target, pace, longest, keep, coupled, budget) ==
    [source |-> from, destination |-> to, fluid |-> fluid, flow |-> 2, maxFlow |-> limit, kind |-> kind,
     target |-> target, step |-> pace, maxDuration |-> longest, keep |-> keep, coupled |-> coupled,
     levelStep |-> 5, budget |-> budget]

AnyTransfer == Transfer(TankA(10, 0), TankB(4), "oil", None, "duration", 4, 2, 6, 1, FALSE, 1)
MCRequests ==
    {Transfer(from, to, fluid, limit, kind, target, pace, longest, keep, coupled, budget) :
        <<from, to, fluid>> \in {<<TankA(10, 0), TankB(4), "oil">>, <<TankA(10, 0), TankB(0), "oil">>,
                                 <<TankA(8, 2), TankB(0), "oil">>, <<TankA(8, 2), TankB(4), "water">>},
        limit \in {None, 2}, kind \in {"volume", "level", "duration"}, target \in {4, 8, 12},
        <<pace, longest>> \in {<<2, 6>>, <<2, 12>>, <<4, 12>>}, keep \in {1, 2},
        <<coupled, budget>> \in {<<FALSE, 1>>, <<TRUE, 1>>, <<TRUE, 2>>}}
    \cup {[AnyTransfer EXCEPT ![field] = 0] : field \in {"flow", "target", "step", "maxDuration", "maxFlow"}}
    \cup {[AnyTransfer EXCEPT !.destination = TankA(8, 2)]}

\* Exact, or with an error or a loss left out that a tolerance covers or not.
Gauging(drift, accounted, t) ==
    [drift |-> drift, accounted |-> accounted, absolute |-> t[1], relative |-> t[2], uncertainty |-> t[3], coverage |-> 2]
MCGaugings ==
    {Gauging(-1, TRUE, t) : t \in {<<0, 0, 0>>, <<1, 0, 0>>, <<0, 500, 0>>, <<0, 0, 1>>}}
    \cup {Gauging(0, accounted, <<0, 0, 0>>) : accounted \in BOOLEAN} \cup {Gauging(0, FALSE, <<1, 0, 0>>)}

-----------------------------------------------------------------------------
\* Equations: growing and falling lines, convex, flat, a jump, several roots.
MCResidual(eq, x) ==
    CASE eq = "falling" -> 11 - 3 * x
      [] eq = "growing" -> x * x - 40
      [] eq = "flat"    -> 5
      [] eq = "jump"    -> IF x < 5 THEN 4 ELSE -7
      [] OTHER          -> 60 - x * x * x

\* Only solve_monotonic has a hard upper bound, and only solve_hybrid a guess.
Equations(guesses, limits) ==
    [equation : {"falling", "growing", "flat", "jump", "cubic"}, lower : {0, 3}, upper : {3, 4},
     hardUpper : limits, guess : guesses, tolerance : {0, 6}, maxIterations : {1, 4}]
MCSearches == Equations({None}, {None, 2, 6, 10}) \cup Equations({2, 9}, {None})

-----------------------------------------------------------------------------

\* Pumps of two sizes; the second has neither efficiency nor NPSH.
Strong == << <<0, 40>>, <<4, 32>>, <<8, 8>> >>
Weak   == << <<0, 20>>, <<4, 16>>, <<6, 4>> >>

Pump(id, curve, speed, known) ==
    [id |-> id, curve |-> curve, power |-> None, speed |-> speed, available |-> TRUE, running |-> TRUE,
     efficiency |-> IF known THEN << <<0, 10>>, <<4, 80>>, <<8, 50>> >> ELSE None,
     npshr |-> IF known THEN << <<0, 2>>, <<8, 10>> >> ELSE None,
     npshMargin |-> 0, minimumFlow |-> IF known THEN 1 ELSE None, rated |-> IF known THEN 180 ELSE None]
Off(p) == [p EXCEPT !.running = FALSE]

GroupsOf(arrangement, groups) ==
    [groups |-> groups, arrangement |-> arrangement, status |-> "available", drive |-> 90]

MCStations == {GroupsOf(a, g) : a \in {"series", "parallel"}, g \in {
    << {Pump("a", Strong, 2, TRUE)}, {Pump("b", Weak, 2, TRUE)} >>,
    << {Pump("a", Strong, 2, TRUE)}, {Pump("b", Strong, 1, TRUE)} >>,
    << {Pump("a", Strong, 2, TRUE)}, {Off(Pump("b", Strong, 1, TRUE))} >>,
    << {Pump("a", Weak, 2, TRUE), Pump("c", Weak, 2, TRUE)}, {Pump("b", Strong, 2, TRUE)},
       {Pump("d", Weak, 1, TRUE)} >> }}

\* Lines of two segments and 8 units of length, with a summit in the first one.
Station(id, at, s, min, max) ==
    [id |-> id, at |-> at, groups |-> s.groups, arrangement |-> s.arrangement, status |-> s.status,
     drive |-> s.drive, suctionMin |-> min, dischargeMax |-> max, bypassK |-> 1, suctionK |-> 1,
     suctionSpeed |-> 1]
Segment(id, from, to, speed, maop, min, fittings) ==
    [id |-> id, from |-> from, to |-> to, speed |-> speed, drag |-> 1, maop |-> maop, minimum |-> min,
     fittings |-> fittings, open |-> TRUE, transition |-> <<1, 2>>]
Valve(at, k) == [at |-> at, k |-> k, quantity |-> 1, narrowing |-> 2]

Origin == Station("s1", 0, GroupsOf("series", << {Pump("a", Strong, 2, TRUE)} >>), 2, None)
Relay  == Station("s2", 4, GroupsOf("parallel", << {Pump("b", Weak, 2, TRUE)}, {Pump("c", Weak, 2, FALSE)} >>), None, 50)

Line(stations, speed, maop, fittings, injections, tank, hill) ==
    [segments |-> <<Segment("p1", 0, 4, 1, maop, 1, fittings), Segment("p2", 4, 8, speed, None, 1, <<>>)>>,
     profile |-> << <<0, 0>>, <<2, hill>>, <<6, 2>>, <<8, 4>> >>, stations |-> stations,
     injections |-> injections, originTank |-> tank, destinationTank |-> None]

Tapped(at, q, active) == <<[at |-> at, flow |-> q, active |-> active]>>

MCLines ==
    {Line(<<Origin, Relay>>, 2, 60, <<Valve(None, 1)>>, Tapped(4, -1, TRUE), [elevation |-> 2], 30),
     Line(<<Origin, Relay>>, 1, 60, <<Valve(None, 1)>>, Tapped(4, -1, TRUE), [elevation |-> 2], 6),
     Line(<<Origin>>, 2, None, <<Valve(None, 1)>>, Tapped(4, -1, TRUE), [elevation |-> 2], 6),
     Line(<<Origin, Relay>>, 1, 52, <<Valve(2, 1)>>, Tapped(6, 1, TRUE), None, -30),
     Line(<<Origin, Relay>>, 1, 60, <<Valve(2, 1)>>, Tapped(6, 1, FALSE), None, 6)}

\* A point of the profile within reach of an injection.
MCTappedLine == Line(<<Origin>>, 1, 60, <<>>, Tapped(3, -1, TRUE), None, 6)

Scenario(pin, level, pout, flow, gravity) ==
    [inletPressure |-> pin, inletLevel |-> level, outletPressure |-> pout, outletLevel |-> None, flow |-> flow,
     maxFlow |-> 4, pumps |-> <<>>, stations |-> <<>>, segments |-> <<>>, gravity |-> gravity, tolerance |-> 8, step |-> 3,
     minVelocity |-> 1, maxVelocity |-> 3, detectZones |-> TRUE, temperature |-> 5]

MCScenarios ==
    {Scenario(p[1], p[2], p[3], p[4], FALSE) : p \in {<<4, None, None, 2>>, <<4, None, 6, None>>, <<None, None, 6, 2>>,
          <<None, 2, 6, None>>, <<None, 2, None, 1>>, <<4, None, 6, 2>>}}
    \cup {Scenario(4, None, p, q, TRUE) : <<p, q>> \in {<<None, 2>>, <<6, None>>}}
    \cup {[Scenario(4, None, 6, None, FALSE) EXCEPT !.stations = ("s1" :> "bypassed")],
          [Scenario(4, None, 6, None, FALSE) EXCEPT !.pumps = ("b" :> [available |-> None, running |-> FALSE, speed |-> None])],
          [Scenario(4, None, None, 2, FALSE) EXCEPT !.segments = ("p1" :> [open |-> None, k |-> 2])],
          [Scenario(4, None, 6, None, FALSE) EXCEPT !.step = 4],  \* a point next to the injections
          [Scenario(60, None, 4, None, FALSE) EXCEPT !.maxFlow = None],
          [Scenario(2, None, 90, None, FALSE) EXCEPT !.maxFlow = None]}

\* A sheet of constants; sheets with tables that are left at 5 degrees or not; CoolProp; nothing.
Sheet(density, viscosity, vapour) ==
    [tables |-> [density |-> density, viscosity |-> viscosity, vapour |-> vapour],
     constants |-> [density |-> 8, viscosity |-> 1, vapour |-> 1], coolprop |-> None, reference |-> 5]
Constant == Sheet(None, None, None)
Cold == Sheet(<< <<0, 9>>, <<4, 8>> >>, None, None)
Warm == Sheet(None, << <<0, 2>>, <<10, 1>> >>, << <<0, 0>>, <<10, 4>> >>)
Library == [Cold EXCEPT !.constants.vapour = None, !.constants.viscosity = None, !.coolprop = [density |-> 8, viscosity |-> 2, vapour |-> 1]]

Study(l, sc, sheet) == [line |-> l, scenario |-> sc, fluid |-> sheet]
AnyLine == CHOOSE l \in MCLines : TRUE
SomeScenario == Scenario(4, None, None, 2, FALSE)

\* Lines without stations, which both engines compute.
Plain(speed, fittings, q, profile) ==
    [Line(<<>>, speed, None, fittings, Tapped(4, q, q # 0), None, 0) EXCEPT !.profile = profile]
Bent == << <<0, 0>>, <<4, 6>>, <<8, 4>> >>
MCPlain ==
    {Plain(2, <<Valve(2, 1)>>, 0, Bent), Plain(2, <<Valve(None, 1)>>, 0, Bent), Plain(1, <<Valve(2, 1)>>, -1, Bent),
     Plain(1, <<>>, 0, << <<0, 0>>, <<2, 6>>, <<8, 4>> >>), [Plain(1, <<>>, 0, Bent) EXCEPT !.segments[1].open = FALSE]}
PlainScenarios ==
    {SomeScenario, Scenario(4, None, None, 1, TRUE), Scenario(None, None, 6, 2, FALSE), Scenario(4, None, 6, 2, FALSE),
     Scenario(4, None, 6, None, FALSE), [SomeScenario EXCEPT !.segments = ("p1" :> [open |-> None, k |-> 2])]}

MCDeviations ==
    {[drag |-> 0, pressure |-> p, flow |-> q] : p \in {0, 5, -9}, q \in {0, 1}}
    \cup {[drag |-> k, pressure |-> 0, flow |-> 0] : k \in {-1, 1}}

MCStudies ==
    {Study(l, sc, Constant) : l \in MCPlain, sc \in PlainScenarios} \cup
    {Study(MCTappedLine, sc, Constant) : sc \in {SomeScenario, Scenario(4, None, 6, None, FALSE)}} \cup
    {Study(CHOOSE l \in MCPlain : l.injections[1].flow = 0 /\ l.segments[1].open, SomeScenario, [Constant EXCEPT !.constants.viscosity = None])} \cup
    {Study(l, sc, Constant) : l \in MCLines, sc \in MCScenarios}
    \cup {Study(AnyLine, sc, Library) : sc \in {SomeScenario, Scenario(4, None, 6, None, FALSE)}}
    \cup {Study(AnyLine, [SomeScenario EXCEPT !.temperature = t], sheet) :
              t \in {None, 0, 12}, sheet \in {Cold, Warm, [Constant EXCEPT !.constants.vapour = None],
                                            [Constant EXCEPT !.constants.viscosity = None]}}

\* A point of the profile next to the second station.
MCNearStudies ==
    {Study([l EXCEPT !.profile = << <<0, 0>>, <<3, 6>>, <<8, 4>> >>], sc, Constant) : l \in MCLines, sc \in MCScenarios}

-----------------------------------------------------------------------------
\* Requests to the optimizer, for one pump or two with one speed or two.
Override1 == [running |-> TRUE, speed |-> None, status |-> "unavailable"]
Quest(pumps, speeds, objective, allowNone, maxE, solver) ==
    [pumps |-> pumps, speeds |-> speeds, objective |-> objective, allowNone |-> allowNone,
     maxConfigurations |-> 8, maxEvaluations |-> maxE, required |-> {}, forbidden |-> {},
     maxActive |-> None, minFlow |-> 1, maxFlow |-> None, minPressure |-> None, maxPressure |-> None,
     allowViolations |-> FALSE, price |-> None, solver |-> solver, onLine |-> 3,
     previous |-> (1 :> Override1 @@ 3 :> Override1)]

MCQuests ==
    {Quest(2, 1, o, FALSE, m, sv) : o \in {"min_energy", "max_flow"}, m \in {None, 2}, sv \in {"enumeration", "pyomo"}}
    \cup {[Quest(2, 2, "min_cost", FALSE, 2, "enumeration") EXCEPT !.price = p] : p \in {None, 1}}
    \cup {[Quest(2, 1, "min_energy", TRUE, 1, "enumeration") EXCEPT !.required = {2}],
          [Quest(2, 2, "min_pumps", FALSE, None, "pyomo") EXCEPT !.forbidden = {1}, !.minPressure = 2],
          [Quest(2, 1, "min_pumps", FALSE, None, "pyomo") EXCEPT !.maxActive = 1, !.maxPressure = 5,
                                                             !.minFlow = None, !.allowViolations = TRUE],
          Quest(2, 2, "min_energy", TRUE, None, "pyomo")}
    \cup {[Quest(2, 1, "min_energy", FALSE, None, "enumeration") EXCEPT ![field] = v] :
              <<field, v>> \in {<<"pumps", 0>>, <<"pumps", 4>>, <<"minFlow", -1>>, <<"maxFlow", 0>>, <<"maxActive", -1>>,
                               <<"required", {3}>>, <<"maxConfigurations", 0>>, <<"maxEvaluations", 0>>, <<"speeds", 0>>}}

\* Two pumps, "a" and "b": a@1, a@1+b@1, a@1+b@2, a@2, ..., then b@1, b@2.
MCIdOrder(c) == IF Len(c) # 2 THEN 0 ELSE IF c[1] = 0 THEN 100 + c[2] ELSE 10 * c[1] + c[2]

Answer6(q, p, lo, ok, conv, v) ==
    [flow |-> q, power |-> p, lowest |-> lo, highest |-> IF lo = None THEN None ELSE lo + 3,
     feasible |-> ok, converged |-> conv, violations |-> v]

MCEvaluations ==
    {Answer6(2, 3, 2, TRUE, TRUE, FALSE), Answer6(1, 2, 1, TRUE, TRUE, FALSE),
     Answer6(2, None, None, TRUE, TRUE, FALSE), Answer6(0, 0, None, FALSE, FALSE, FALSE),
     Answer6(2, 1, 3, TRUE, TRUE, TRUE), Answer6(2, 1, 2, TRUE, FALSE, FALSE)}

-----------------------------------------------------------------------------
\* Submissions: two calculations and a rerun under one key; two reports, and two comparisons,
\* of different contents under one.
Callers   == {"queue1", "queue2", "rerun"}
Reporters == {"report1", "report2"}
Comparers == {"compare1", "compare2"}
MCClients == Callers \cup Reporters \cup Comparers

MCIntent == [c \in MCClients |->
    [kind |-> CASE c \in {"queue1", "queue2"} -> "queue" [] c \in Reporters -> "report"
                [] c = "rerun" -> "rerun" [] OTHER -> "record",
     key |-> "k", payload |-> IF c \in {"report2", "compare2"} THEN 1 ELSE 0]]

-----------------------------------------------------------------------------
\* Rules: two in one set, one of them under a standard.
Threshold(st, severity, metric, op, limit, high) ==
    [home |-> "set", standard |-> st, severity |-> severity, metric |-> metric, operator |-> op,
     limit |-> limit, upper |-> high]

MCRules == {"ceiling", "range"}
MCDefinition == [r \in MCRules |-> IF r = "ceiling" THEN Threshold("norm", "blocking", "p", "le", 2, None)
                                                  ELSE Threshold(None, "warning", "q", "between", 1, 2)]
MCLinks      == [s \in {"set"} |-> {"norm"}]
MCRequested  == [c \in {"once", "twice"} |-> IF c = "once" THEN <<"set">> ELSE <<"set", "set">>]
MCMeasures   == {[approvable |-> TRUE, metrics |-> ("p" :> m @@ "q" :> n)] : m, n \in {2, 3, None}}

-----------------------------------------------------------------------------
\* A file with a column that increases and one that does not, and a row whose unit is unknown.
Record(x, y, unit) == [cells |-> [a |-> x, b |-> y], unit |-> unit, quality |-> "good"]
MCFile     == <<Record(1, 1, "m"), Record(2, 2, None), Record(2, 3, "ft")>>
MCScale    == [u \in {"m", "km"} |-> IF u = "m" THEN 1 ELSE 10]
Mapped(kind, column, unit) == [kind |-> kind, column |-> column, unit |-> unit]
MCMappings == {Mapped("profile", "a", None), Mapped("profile", "b", "km"),
               Mapped("measurements", "a", None), Mapped("measurements", "a", "m")}
MCImporters == {"i1", "i2", "i3"}
MCKey       == [i \in MCImporters |-> IF i = "i3" THEN "k3" ELSE "k"]

-----------------------------------------------------------------------------
\* Packages: a draft with every field, and one with those that are required.
Full(c, special, kids) ==
    [own |-> special @@ [field \in Scalars(c) |-> IF Fields[c][field].need = "default" THEN Fields[c][field].default ELSE 30],
     kids |-> kids]
Bare(c, special, kids) ==
    [own |-> special @@ [field \in {n \in Scalars(c) : Fields[c][n].need = "required"} |-> 30], kids |-> kids]
Two(c, field) == <<Full(c, (field :> 20), <<>>), Full(c, (field :> 40), <<>>)>>

CurveDoc == Full("curve", [efficiencies |-> 10], <<>>)
ModelDoc(id) == Full("pump_model", [id |-> id], [curve |-> <<CurveDoc>>])
PumpDoc(id, model) == Full("pump", [id |-> id, model_id |-> model], <<>>)
StationDoc(id, at, pumps) ==
    Full("station", [id |-> id, chainage |-> at, suction_pressure_min |-> 20], [groups |-> <<Full("group", <<>>, [pumps |-> pumps])>>])
TankDoc == Full("tank", <<>>, [strapping |-> <<Full("strapping", <<>>, [points |-> <<Full("gauge", [height |-> 0, volume |-> 0], <<>>), Full("gauge", [height |-> 90], <<>>)>>])>>,
                            levels |-> <<Full("levels", [minimum |-> 10, high_high |-> 60], <<>>)>>])
ProfileDoc == Full("profile", <<>>, [points |-> Two("profile_point", "chainage")])
ManifestDoc == Full("manifest", <<>>, <<>>)

FullDocument == Full("input", <<>>, [
    manifest |-> <<ManifestDoc>>,
    equipment |-> <<Full("equipment", <<>>, [pump_models |-> <<ModelDoc(1), ModelDoc(2), ModelDoc(3)>>])>>,
    network |-> <<Full("network", [destination_tank |-> None], [
        segments |-> <<Full("segment", [sequence |-> 2], [fittings |-> <<Full("fitting", <<>>, <<>>)>>]), Full("segment", [sequence |-> 1], <<>>)>>,
        profile |-> <<ProfileDoc>>,
        stations |-> <<StationDoc(2, 40, <<PumpDoc(1, 2)>>), StationDoc(1, 20, <<PumpDoc(1, 1), PumpDoc(2, 2)>>)>>,
        injections |-> <<Full("injection", <<>>, <<>>)>>, origin_tank |-> <<TankDoc>>])>>,
    fluid |-> <<Full("fluid", <<>>, [density_table |-> <<Full("table", <<>>, [points |-> Two("table_point", "temperature")])>>])>>,
    scenario |-> <<Full("scenario", <<>>, [
        pump_overrides |-> <<Full("pump_override", <<>>, <<>>)>>, station_overrides |-> <<Full("station_override", <<>>, <<>>)>>,
        segment_overrides |-> <<Full("segment_override", <<>>, <<>>)>>, solver |-> <<Full("solver", [min_velocity |-> 20], <<>>)>>])>>,
    rules |-> <<Full("rules", <<>>, <<>>)>>,
    provenance |-> <<Full("provenance", <<>>, <<>>)>>])

BareDocument == Bare("input", <<>>, [
    manifest |-> <<ManifestDoc>>,
    network |-> <<Bare("network", <<>>, [segments |-> <<Bare("segment", <<>>, <<>>)>>, profile |-> <<ProfileDoc>>])>>,
    fluid |-> <<Bare("fluid", [density |-> 30], <<>>)>>, scenario |-> <<Bare("scenario", <<>>, <<>>)>>])

\* Every edit of one field of one node: taken away, null, of another type, out of range, almost
\* the same, another; and of one list.
Lists == {"points", "fittings", "pump_models", "pumps", "groups", "segments", "stations", "injections",
          "pump_overrides", "station_overrides", "segment_overrides"}
RECURSIVE Edits(_, _)
Edits(c, doc) ==
    {[doc EXCEPT !.own = (field :> v) @@ @] : field \in Scalars(c), v \in {None, Wrong, 0, 31, 50}}
    \cup {[doc EXCEPT !.own = [g \in DOMAIN @ \ {field} |-> @[g]]] : field \in DOMAIN doc.own}
    \cup {[own |-> (k :> v) @@ doc.own, kids |-> [g \in DOMAIN doc.kids \ {k} |-> doc.kids[g]]] : k \in Nested(c), v \in {None, Wrong}}
    \cup {[doc EXCEPT !.kids = (k :> <<>>) @@ @] : k \in Nested(c) \cap Lists}
    \cup {[doc EXCEPT !.kids = [g \in DOMAIN @ \ {k} |-> @[g]]] : k \in DOMAIN doc.kids}
    \cup UNION {UNION {{[doc EXCEPT !.kids[k][i] = e] : e \in Edits(ClassOf(c, k), doc.kids[k][i])} : i \in {1} \cap DOMAIN doc.kids[k]}
            : k \in DOMAIN doc.kids}
MCRewritten(doc) == IF doc \in {FullDocument, BareDocument} THEN Edits("input", doc) ELSE {}
MCDocuments == {FullDocument, BareDocument}

-----------------------------------------------------------------------------
\* Networks: a tank, a station of two pumps, an offtake and a tank on three edges; or lines
\* that come back to their first node or to their station; and every edit of one row of the first.
Id(code) == <<1, code>>
Item(kind, code, version, status, owned) ==
    [kind |-> kind, code |-> code, version |-> version, status |-> status, owned |-> owned]
MCItems ==
    "pump" :> Item("pump", 1, 1, "approved", TRUE) @@ "booster" :> Item("pump", 2, 1, "approved", TRUE)
    @@ "booster2" :> Item("pump", 2, 2, "approved", TRUE) @@ "draft" :> Item("pump", 3, 1, "draft", TRUE)
    @@ "valve" :> Item("valve", 4, 1, "approved", TRUE) @@ "steel" :> Item("material", 5, 1, "approved", TRUE)
    @@ "alien" :> Item("material", 6, 1, "approved", FALSE) @@ "oldsteel" :> Item("material", 7, 1, "archived", TRUE)
    @@ "oil" :> Item("fluid", 8, 1, "approved", TRUE) @@ "newoil" :> Item("fluid", 8, 2, "draft", TRUE)

Node(code, kind, at, q) ==
    [id |-> Id(code), code |-> code, kind |-> kind, elevation |-> at, status |-> "available", arrangement |-> "series",
     flow |-> q, tank |-> IF kind = "tank" THEN code ELSE None]
Edge(code, from, to, sequence, material) ==
    [id |-> Id(code), code |-> code, from |-> Id(from), to |-> Id(to), sequence |-> sequence, length |-> 4, maop |-> 9,
     material |-> material, status |-> "available", profile |-> << <<0, from>>, <<2, 5>>, <<4, to>> >>,
     fittings |-> <<[id |-> 0, at |-> IF sequence = 2 THEN 3 ELSE None, k |-> 2]>>]
Placed(code, item, node, edge, role) ==
    [id |-> Id(code), code |-> code, item |-> item, node |-> node, edge |-> edge, role |-> role, status |-> "available",
     at |-> IF edge = None THEN None ELSE 1, opening |-> 1, running |-> None, speed |-> None]

Drawn == [
    nodes  |-> <<Node(1, "tank", 1, None), Node(2, "station", 2, None), Node(3, "offtake", 3, 2), Node(4, "tank", 4, None)>>,
    edges  |-> <<Edge(11, 1, 2, 1, "steel"), Edge(12, 2, 3, 2, None), Edge(13, 3, 4, 3, "steel")>>,
    assets |-> <<Placed(21, "pump", Id(2), None, "main"), Placed(22, "booster2", Id(2), None, "auxiliary"),
                 Placed(23, "valve", None, Id(12), "isolation")>>,
    fluid  |-> "oil"]
Returning == [Drawn EXCEPT !.edges = <<Edge(11, 1, 2, 1, None), Edge(12, 2, 3, 2, None), Edge(13, 3, 2, 3, None), Edge(14, 2, 4, 4, None)>>,
                           !.assets = SubSeq(@, 1, 2)]
Looping == [Drawn EXCEPT !.edges = <<Edge(11, 1, 2, 1, None), Edge(12, 2, 1, 2, None), Edge(13, 1, 3, 3, None), Edge(14, 3, 4, 4, None)>>,
                         !.assets = SubSeq(@, 1, 2)]

NodeEdits(net) ==
    {[net EXCEPT !.nodes[i].kind = k] : i \in 1..4, k \in {"source", "station", "junction", "terminal", "injection"}}
    \cup {[net EXCEPT !.nodes[i].tank = t] : i \in {1, 4}, t \in {None, 9}}
    \cup {[net EXCEPT !.nodes[2].arrangement = a] : a \in {"parallel", "other"}}
    \cup {[net EXCEPT !.nodes[3].flow = q] : q \in {None, 0}}
    \cup {[net EXCEPT !.nodes = Append(@, Node(5, k, 0, None))] : k \in {"junction", "tank"}}
EdgeEdits(net) ==
    {[net EXCEPT !.edges[i].to = Id(n)] : i \in 1..3, n \in 1..4}
    \cup {[net EXCEPT !.edges[i].material = m] : i \in {1, 2}, m \in {"alien", "oldsteel", "valve"}}
    \cup {[net EXCEPT !.edges = SubSeq(@, m, 3)] : m \in {2, 3, 4}}
    \cup {[net EXCEPT !.edges[3].sequence = 4], [net EXCEPT !.edges[1].status = "maintenance"]}
AssetEdits(net) ==
    {[net EXCEPT !.assets[i].item = x] : i \in 1..2, x \in {"pump", "booster", "booster2", "draft"}}
    \cup {[net EXCEPT !.assets[i].role = x] : i \in 1..2, x \in {"main", "standby", "auxiliary"}}
    \cup {[net EXCEPT !.assets[1].status = x] : x \in {"unavailable", "maintenance"}}
    \cup {[net EXCEPT !.assets = SubSeq(@, m, 3)] : m \in {2, 3}}
    \cup {[net EXCEPT !.assets[2].running = FALSE, !.assets[1].speed = 2], [net EXCEPT !.fluid = None], [net EXCEPT !.fluid = "newoil"]}

\* An edge joins two nodes, and a valve lies on an edge that exists.
Stored(net) ==
    /\ \A e \in Range(net.edges) : e.from # e.to
    /\ \A x \in Range(net.assets) : x.edge = None \/ x.edge \in Ids(net.edges)
MCNetworks ==
    {net \in {Drawn, Looping, Returning, [Drawn EXCEPT !.nodes = <<>>, !.edges = <<>>, !.assets = <<>>]}
        \cup NodeEdits(Drawn) \cup EdgeEdits(Drawn) \cup AssetEdits(Drawn)
        \cup {[net EXCEPT !.nodes[2].arrangement = "parallel"] : net \in AssetEdits(Drawn)}
        \cup {[net EXCEPT !.nodes[4].kind = "terminal", !.nodes[1].kind = "source"] : net \in AssetEdits(Drawn)} : Stored(net)}

\* Paths: the whole line, its parts, out of order, an edge twice; other tanks; a selection.
Trip(from, to, path, pumps) ==
    [source |-> Id(from), destination |-> Id(to), sourceTank |-> from, destinationTank |-> to, path |-> path, pumps |-> pumps,
     levels |-> <<6, 2>>, previous |-> (22 :> [running |-> TRUE, status |-> "available", speed |-> 1])]
MCContexts(net) ==
    LET ids == [i \in DOMAIN net.edges |-> net.edges[i].id]
    IN  IF Len(ids) < 3 THEN {Trip(1, 4, <<Id(11)>>, {})} ELSE
        {Trip(1, 4, path, pumps) : path \in {ids, Reverse(ids), SubSeq(ids, 2, 3), SubSeq(ids, 3, Len(ids)), ids \o ids},
                                   pumps \in {{}, {Id(21)}, {Id(22)}}}
        \cup {Trip(m, n, SubSeq(ids, m, n - 1), {}) : m, n \in {1, 2, 4}}
        \cup {[Trip(1, 4, ids, {}) EXCEPT !.sourceTank = 9]}

-----------------------------------------------------------------------------
\* A body with a field that no class of the engine has, and one that is refused.
MCCanonical == "plain" :> "plain" @@ "verbose" :> "plain" @@ "rough" :> "rough" @@ "bad" :> Refused
MCContents  == [name : {"pump"}, body : {"verbose", "bad"}, source : {None}]
MCRevisions == {"name" :> "booster", "body" :> "rough", "body" :> "bad", "source" :> "maker"}

-----------------------------------------------------------------------------
ComponentsInit ==
    /\ part \in Parts
    /\ TransferInit /\ SearchInit /\ StationInit /\ LineInit /\ ComparisonInit /\ QuestInit
    /\ SubmissionInit /\ GovernanceInit /\ ImportInit /\ PackageInit /\ NetworkInit /\ CatalogInit

Still(vs) == UNCHANGED part /\ UNCHANGED vs

TransferPart   == part = "transfer" /\ TransferNext
                  /\ Still(<<searchVars, operation, engineVars, questVars, submissionVars, governanceVars, importVars, packageVars, networkVars, catalogVars>>)
SearchPart     == part = "search" /\ SearchNext
                  /\ Still(<<transferVars, operation, engineVars, questVars, submissionVars, governanceVars, importVars, packageVars, networkVars, catalogVars>>)
StationPart    == part = "station" /\ StationNext
                  /\ Still(<<transferVars, searchVars, engineVars, questVars, submissionVars, governanceVars, importVars, packageVars, networkVars, catalogVars>>)
LinePart       == part = "line" /\ ComparisonNext
                  /\ Still(<<transferVars, searchVars, operation, questVars, submissionVars, governanceVars, importVars, packageVars, networkVars, catalogVars>>)
QuestPart      == part = "quest" /\ QuestNext
                  /\ Still(<<transferVars, searchVars, operation, engineVars, submissionVars, governanceVars, importVars, packageVars, networkVars, catalogVars>>)
CallerPart     == part = "calculations" /\ (EditDraft \/ \E c \in Callers : ClientNext(c))
                  /\ Still(<<transferVars, searchVars, operation, engineVars, questVars, governanceVars, importVars, packageVars, networkVars, catalogVars>>)
ReporterPart   == part = "reports" /\ (\E c \in Reporters : ClientNext(c))
                  /\ Still(<<transferVars, searchVars, operation, engineVars, questVars, governanceVars, importVars, packageVars, networkVars, catalogVars>>)
ComparerPart   == part = "comparisons" /\ (\E c \in Comparers : ClientNext(c))
                  /\ Still(<<transferVars, searchVars, operation, engineVars, questVars, governanceVars, importVars, packageVars, networkVars, catalogVars>>)
GovernancePart == part = "rules" /\ GovernanceNext
                  /\ Still(<<transferVars, searchVars, operation, engineVars, questVars, submissionVars, importVars, packageVars, networkVars, catalogVars>>)
ImportPart     == part = "imports" /\ ImportNext
                  /\ Still(<<transferVars, searchVars, operation, engineVars, questVars, submissionVars, governanceVars, packageVars, networkVars, catalogVars>>)
PackagePart    == part = "packages" /\ PackageNext
                  /\ Still(<<transferVars, searchVars, operation, engineVars, questVars, submissionVars, governanceVars, importVars, networkVars, catalogVars>>)
NetworkPart    == part = "networks" /\ NetworkNext
                  /\ Still(<<transferVars, searchVars, operation, engineVars, questVars, submissionVars, governanceVars, importVars, packageVars, catalogVars>>)
CatalogPart    == part = "catalog" /\ CatalogNext
                  /\ Still(<<transferVars, searchVars, operation, engineVars, questVars, submissionVars, governanceVars, importVars, packageVars, networkVars>>)

ComponentsNext ==
    \/ TransferPart \/ SearchPart \/ StationPart \/ LinePart \/ QuestPart
    \/ CallerPart \/ ReporterPart \/ ComparerPart \/ GovernancePart \/ ImportPart
    \/ PackagePart \/ NetworkPart \/ CatalogPart

componentVars == <<part, transferVars, searchVars, operation, engineVars, questVars, submissionVars,
                   governanceVars, importVars, packageVars, networkVars, catalogVars>>

\* An engine runs to its end once it is called; a request goes on until it commits, and a
\* lock is given to one of those that wait for it.
ComponentsFairness ==
    /\ WF_transferVars(part = "transfer" /\ TransferStep)
    /\ WF_searchVars(part = "search" /\ SearchStep)
    /\ WF_questVars(part = "quest" /\ QuestStep)
    /\ \A c \in Callers : WF_submissionVars(part = "calculations" /\ SubmissionStep(c))
    /\ \A c \in Reporters : WF_submissionVars(part = "reports" /\ SubmissionStep(c))
    /\ \A c \in Comparers : WF_submissionVars(part = "comparisons" /\ SubmissionStep(c))
    /\ \A i \in Importers : WF_importVars(part = "imports" /\ ImportStep(i))

ComponentsSafe == ComponentsInit /\ [][ComponentsNext]_componentVars
ComponentsSpec == ComponentsSafe /\ ComponentsFairness

-----------------------------------------------------------------------------
\* Types of every part: counters within their budgets, keys that are unique.
ComponentsTypeOK ==
    TransferTypeOK /\ SearchTypeOK /\ SubmissionTypeOK /\ GovernanceTypeOK /\ ImportTypeOK

\* Every loop of the engines ends, and no request waits for ever for a key or for rows.
ComponentsEnd == TransferEnds /\ SearchEnds /\ QuestEnds /\ RequestsAreAnswered /\ ImportsEnd
=============================================================================
