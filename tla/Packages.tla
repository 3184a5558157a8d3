------------------------------ MODULE Packages ------------------------------
(***************************************************************************)
(* The frozen input of a calculation: what as_dict writes of each object,  *)
(* what canonical_input_from_dict reads back and refuses, what the         *)
(* fingerprint covers, and the replay of what was recorded.                *)
(* A document and an object are trees: own holds the scalars, kids the     *)
(* sequences of what is nested (none, one or several).  A scalar is an     *)
(* integer, None, or Wrong when it has not the type that is expected; a    *)
(* list of numbers is one scalar, negative when the constructor of the     *)
(* curve refuses it.  A scalar in the place of what is nested is in own.    *)
(* Field names are those of the source without their units.                *)
(***************************************************************************)
EXTENDS Quantities, Sequences, SequencesExt, FiniteSets

CONSTANTS
    Wrong,
    Documents,        \* documents as a model version and a scenario give them
    Rewritten(_),  \* what one edit makes of a draft
    RuleManifest,  \* what freeze_rule_sets returns
    Whole,         \* the ratio 1.0
    Precision      \* numbers that share their quotient share their 15 first digits

-----------------------------------------------------------------------------
\* Tables with no name in common, as one.
Join(tables) == [n \in UNION {DOMAIN t : t \in tables} |-> (CHOOSE t \in tables : n \in DOMAIN t)[n]]

\* How a field is read: _required..., _optional..., or source.get(key, default).
Rule(need, default, type, class) == [need |-> need, default |-> default, type |-> type, class |-> class]
Required(names, type) == [n \in names |-> Rule("required", None, type, None)]
Nullable(names, type) == [n \in names |-> Rule("optional", None, type, None)]
Default(name, v, type) == [n \in {name} |-> Rule("default", v, type, None)]
StatusField == Default("status", 0, "other")

\* How what is nested is read: a list, an object that is required, or one that may be null.
Nest(name, need, default, class) == [n \in {name} |-> Rule(need, default, "nested", class)]
List(name, class)     == Nest(name, "default", <<>>, class)
FullList(name, class) == Nest(name, "required", <<>>, class)
One(name, class)      == FullList(name, class)
Perhaps(name, class)  == Nest(name, "optional", <<>>, class)
EmptyObject == [own |-> <<>>, kids |-> <<>>]

TableFields == [
    table       |-> Join({Default("source", 0, "other"), Nullable({"reference"}, "text"),
                          FullList("points", "table_point")}),
    table_point |-> Join({Required({"temperature", "value"}, "number"), Default("pressure", 10, "number"),
                          Nullable({"uncertainty"}, "number"), Nullable({"method"}, "text"),
                          Default("quality", 0, "other")})]

FluidFields == [fluid |->
    Join({Required({"id", "name"}, "text"), Default("category", 0, "other"),
          Default("reference_temperature", 10, "number"), Default("reference_pressure", 10, "number"),
          Nullable({"density", "kinematic_viscosity", "vapor_pressure", "thermal_expansion"}, "number"),
          Nullable({"coolprop_name", "data_source", "batch_reference"}, "text"), Perhaps("density_table", "table"),
          Perhaps("kinematic_viscosity_table", "table"), Perhaps("vapor_pressure_table", "table")})]

PumpModelFields == [
    curve      |-> Join({Required({"flows", "heads"}, "number"),
                         Nullable({"efficiencies", "powers", "npshr"}, "number"),
                         Nullable({"reference_speed"}, "number"), Default("interpolation", 0, "other")}),
    pump_model |-> Join({Required({"id", "name"}, "text"), One("curve", "curve"),
                         Nullable({"manufacturer", "data_source"}, "text"),
                         Nullable({"motor_rated_power", "minimum_continuous_flow"}, "number"),
                         Default("npsh_margin", 10, "number"), Default("min_speed_ratio", 10, "number"),
                         Default("max_speed_ratio", Whole, "number")})]

FittingFields == [fitting |->
    Join({Required({"id", "kind"}, "text"), Required({"k_coefficient"}, "number"), Default("quantity", 1, "other"),
          Nullable({"chainage"}, "number"), Nullable({"label"}, "text"), StatusField,
          Default("opening_ratio", Whole, "number")})]

SegmentFields == [segment |->
    Join({Required({"id"}, "text"), Default("sequence", 0, "other"),
          Required({"length", "inner_diameter", "roughness"}, "number"), Default("start_chainage", 0, "number"),
          Nullable({"outer_diameter", "wall_thickness", "maop", "minimum_pressure"}, "number"),
          Nullable({"material", "label"}, "text"), StatusField, List("fittings", "fitting")})]

TankFields == [
    gauge     |-> Required({"height", "volume"}, "number"),
    strapping |-> FullList("points", "gauge"),
    levels    |-> Join({Required({"minimum", "high_high"}, "number"), Nullable({"low", "normal", "high"}, "number")}),
    tank      |-> Join({Required({"id", "name"}, "text"), One("strapping", "strapping"), One("levels", "levels"),
                        Default("compatible_fluid_ids", 0, "other"), Default("tank_type", 0, "other"),
                        Default("elevation", 0, "number"), Default("current_level", 0, "number"),
                        Nullable({"fluid_id", "label"}, "text"), StatusField, Default("dead_volume", 0, "number")})]

PumpFields == [pump |->
    Join({Required({"id", "model_id"}, "text"), Default("role", 0, "other"), StatusField,
          Default("running", 1, "other"), Default("speed_ratio", Whole, "number"), Nullable({"label"}, "text")})]

StationFields == [
    group   |-> Join({Required({"id"}, "text"), Nullable({"label"}, "text"), List("pumps", "pump")}),
    station |-> Join({Required({"id", "name"}, "text"), Required({"chainage", "elevation"}, "number"),
                      List("groups", "group"), Default("arrangement", 0, "other"), StatusField,
                      Nullable({"label"}, "text"),
                      Nullable({"suction_pressure_min", "discharge_pressure_max", "suction_line_diameter"}, "number"),
                      Default("suction_line_k", 0, "number"), Default("bypass_k", 0, "number"),
                      Default("drive_efficiency", Whole, "number")})]

NetworkFields == [
    profile_point |-> Join({Required({"chainage", "elevation"}, "number"),
                            Nullable({"latitude", "longitude"}, "number")}),
    profile   |-> FullList("points", "profile_point"),
    injection |-> Join({Required({"id"}, "text"), Required({"chainage", "flow"}, "number"), Nullable({"label"}, "text"),
                        StatusField}),
    network   |-> Join({Required({"id", "name"}, "text"), Nullable({"label"}, "text"), FullList("segments", "segment"),
                        One("profile", "profile"), List("stations", "station"), List("injections", "injection"),
                        Perhaps("origin_tank", "tank"), Perhaps("destination_tank", "tank")})]

SolverFields == [solver |->
    Join({Default("friction_model", 0, "other"), Default("pressure_tolerance", 10, "number"),
          Default("flow_tolerance", 10, "number"), Default("mass_balance_tolerance", 10, "number"),
          Default("max_iterations", 9, "other"), Default("profile_step", 10, "number"),
          Default("store_iterations", 0, "other"), Default("use_quadratic_pump_fit", 0, "other"),
          Nullable({"max_flow", "min_velocity", "max_velocity"}, "number"), Default("detect_gravity_zones", 1, "other"),
          Default("apply_gravity_model", 0, "other")})]

ScenarioFields == [
    pump_override    |-> Join({Required({"pump_id"}, "text"), Nullable({"status", "running"}, "other"),
                               Nullable({"speed_ratio"}, "number")}),
    station_override |-> Join({Required({"station_id"}, "text"), Nullable({"status"}, "other")}),
    segment_override |-> Join({Required({"segment_id"}, "text"), Nullable({"status"}, "other"),
                               Nullable({"additional_k"}, "number")}),
    scenario |-> Join({Required({"id", "name"}, "text"), Nullable({"objective"}, "other"),
                       Nullable({"parent_id", "description"}, "text"),
                       Nullable({"temperature", "imposed_flow", "inlet_pressure", "outlet_pressure", "inlet_tank_level", "outlet_tank_level", "energy_price"}, "number"),
                       List("pump_overrides", "pump_override"), List("station_overrides", "station_override"),
                       List("segment_overrides", "segment_override"),
                       Nest("solver", "default", <<EmptyObject>>, "solver")})]

ProvenanceFields == [provenance |->
    Join({Nullable({"requested_by", "requested_at", "project_id", "model_version_id", "organization_id", "client_reference"}, "text"),
          Default("source_files", 0, "other")})]

InputFields == [
    equipment |-> List("pump_models", "pump_model"),
    manifest  |-> Required({"schema_version", "engine", "engine_version", "pipeline_id", "fluid_id", "scenario_id"}, "text"),
    rules     |-> Join({Default("rule_set_ids", 0, "other"), Default("manifest", 0, "other")}),
    input     |-> Join({One("manifest", "manifest"), One("network", "network"), One("fluid", "fluid"),
                        One("scenario", "scenario"), Nest("rules", "default", <<EmptyObject>>, "rules"),
                        Nest("provenance", "optional", <<EmptyObject>>, "provenance")})]

Fields == Join({TableFields, FluidFields, PumpModelFields, FittingFields, SegmentFields, TankFields, PumpFields,
                StationFields, NetworkFields, SolverFields, ScenarioFields, ProvenanceFields, InputFields})
ScalarNames(rules) == {n \in DOMAIN rules : rules[n].type # "nested"}
NestedNames(rules) == {n \in DOMAIN rules : rules[n].type = "nested"}
Scalars(c) == ScalarNames(Fields[c])
Nested(c)  == NestedNames(Fields[c])

-----------------------------------------------------------------------------
\* What as_dict writes.  The values it computes for the reader (total_length_m,
\* current_volume_m3, nominal_capacity_m3) are never read back and are left out.
PointWritten == {"temperature", "pressure", "value", "uncertainty", "method", "quality"}

TableWritten == {"source", "reference", "points"}

FluidWritten ==
    {"id", "name", "category", "reference_temperature", "reference_pressure", "density", "kinematic_viscosity",
     "vapor_pressure", "thermal_expansion", "coolprop_name", "density_table", "kinematic_viscosity_table",
     "vapor_pressure_table", "data_source", "batch_reference"}

CurveWritten == {"flows", "heads", "efficiencies", "powers", "npshr", "reference_speed", "interpolation"}

PumpModelWritten ==
    {"id", "name", "manufacturer", "curve", "motor_rated_power", "npsh_margin", "min_speed_ratio",
     "max_speed_ratio", "minimum_continuous_flow", "data_source"}

PumpWritten == {"id", "label", "model_id", "role", "status", "running", "speed_ratio"}

\* Mutation of FittingWritten: the opening of a valve is not written.
FittingWrittenOpen == {"id", "kind", "label", "k_coefficient", "quantity", "chainage", "status"}

FittingWritten == {"id", "kind", "label", "k_coefficient", "quantity", "chainage", "status", "opening_ratio"}

SegmentWritten ==
    {"id", "sequence", "label", "length", "inner_diameter", "outer_diameter", "wall_thickness", "roughness",
     "material", "maop", "minimum_pressure", "start_chainage", "status", "fittings"}

ProfileWritten == [profile_point |-> {"chainage", "elevation", "latitude", "longitude"}, profile |-> {"points"}]

StationWritten ==
    {"id", "name", "label", "chainage", "elevation", "arrangement", "status", "suction_pressure_min",
     "discharge_pressure_max", "suction_line_k", "suction_line_diameter", "bypass_k", "drive_efficiency", "groups"}

GroupWritten == {"id", "label", "pumps"}

StrappingWritten == [gauge |-> {"height", "volume"}, strapping |-> {"points"}]

LevelsWritten == {"minimum", "low", "normal", "high", "high_high"}

TankWritten ==
    {"id", "name", "label", "tank_type", "elevation", "current_level", "dead_volume", "fluid_id",
     "compatible_fluid_ids", "status", "levels", "strapping"}

InjectionWritten == {"id", "label", "chainage", "flow", "status"}

NetworkWritten ==
    {"id", "name", "label", "segments", "profile", "stations", "injections", "origin_tank", "destination_tank"}

SolverWritten ==
    {"friction_model", "pressure_tolerance", "flow_tolerance", "mass_balance_tolerance", "max_iterations",
     "profile_step", "store_iterations", "use_quadratic_pump_fit", "max_flow", "detect_gravity_zones",
     "apply_gravity_model", "min_velocity", "max_velocity"}

OverridesWritten == [
    pump_override    |-> {"pump_id", "status", "running", "speed_ratio"},
    station_override |-> {"station_id", "status"},
    segment_override |-> {"segment_id", "status", "additional_k"}]

ScenarioWritten ==
    {"id", "name", "parent_id", "description", "temperature", "imposed_flow", "inlet_pressure", "outlet_pressure",
     "inlet_tank_level", "outlet_tank_level", "pump_overrides", "station_overrides", "segment_overrides",
     "solver", "objective", "energy_price"}

ProvenanceWritten ==
    {"requested_by", "requested_at", "project_id", "model_version_id", "organization_id", "client_reference",
     "source_files"}

InputWritten == [
    manifest |-> {"schema_version", "engine", "engine_version", "pipeline_id", "fluid_id", "scenario_id"},
    rules    |-> {"rule_set_ids", "manifest"},
    input    |-> {"manifest", "fluid", "network", "scenario", "rules", "provenance"}]

WrittenFields == [
    table_point |-> PointWritten, table |-> TableWritten, fluid |-> FluidWritten, curve |-> CurveWritten,
    pump_model |-> PumpModelWritten, pump |-> PumpWritten, fitting |-> FittingWritten, segment |-> SegmentWritten,
    profile_point |-> ProfileWritten.profile_point, profile |-> ProfileWritten.profile,
    station |-> StationWritten, group |-> GroupWritten, gauge |-> StrappingWritten.gauge,
    strapping |-> StrappingWritten.strapping, levels |-> LevelsWritten, tank |-> TankWritten,
    injection |-> InjectionWritten, network |-> NetworkWritten, solver |-> SolverWritten,
    pump_override |-> OverridesWritten.pump_override, station_override |-> OverridesWritten.station_override,
    segment_override |-> OverridesWritten.segment_override, scenario |-> ScenarioWritten,
    provenance |-> ProvenanceWritten, manifest |-> InputWritten.manifest, rules |-> InputWritten.rules,
    input |-> InputWritten.input]

-----------------------------------------------------------------------------
\* What the constructors refuse.
Positive(v)       == v = None \/ v > 0
NonNegative(v)    == v = None \/ v >= 0
Ascending(s, field)   == \A i \in 1..(Len(s) - 1) : s[i].own[field] < s[i + 1].own[field]
Ratio(v)          == 0 < v /\ v <= Whole
NeverFalling(levels)   == LET known == SelectSeq(levels, LAMBDA v : v # None)
                     IN  \A i \in 1..(Len(known) - 1) : known[i] <= known[i + 1]

TableIsSound(o) == Len(o.kids.points) >= 2 /\ Ascending(o.kids.points, "temperature")

FluidIsSound(o) ==
    /\ o.kids.density_table # <<>> \/ o.own.density # None \/ o.own.coolprop_name # None
    /\ Positive(o.own.density) /\ Positive(o.own.kinematic_viscosity) /\ NonNegative(o.own.vapor_pressure)

CurveIsSound(o) ==
    /\ o.own.flows >= 0 /\ o.own.heads >= 0 /\ NonNegative(o.own.powers) /\ NonNegative(o.own.npshr)
    /\ o.own.efficiencies = None \/ Ratio(o.own.efficiencies)

PumpModelIsSound(o) ==
    /\ Positive(o.own.motor_rated_power) /\ o.own.npsh_margin >= 0
    /\ 0 < o.own.min_speed_ratio /\ o.own.min_speed_ratio <= o.own.max_speed_ratio

PumpIsSound(o) ==
    LET m == o.kids.model[1]
    IN  m.own.min_speed_ratio <= o.own.speed_ratio /\ o.own.speed_ratio <= m.own.max_speed_ratio

FittingIsSound(o) ==
    o.own.k_coefficient >= 0 /\ o.own.quantity >= 1 /\ 0 <= o.own.opening_ratio /\ o.own.opening_ratio <= Whole

SegmentIsSound(o) ==
    /\ o.own.length > 0 /\ o.own.inner_diameter > 0 /\ o.own.roughness >= 0
    /\ o.own.outer_diameter = None \/ o.own.outer_diameter >= o.own.inner_diameter
    /\ Positive(o.own.wall_thickness) /\ Positive(o.own.maop)

ProfileIsSound(o) == Len(o.kids.points) >= 2 /\ Ascending(o.kids.points, "chainage")

PumpsOfStation(o) == FlattenSeq([i \in DOMAIN o.kids.groups |-> o.kids.groups[i].kids.pumps])
StationIsSound(o) ==
    /\ Ratio(o.own.drive_efficiency) /\ o.own.suction_line_k >= 0 /\ Positive(o.own.suction_line_diameter)
    /\ \/ None \in {o.own.suction_pressure_min, o.own.discharge_pressure_max}
       \/ o.own.suction_pressure_min < o.own.discharge_pressure_max
    /\ LET pumps == PumpsOfStation(o)
       IN  \A i, j \in DOMAIN pumps : pumps[i].own.id = pumps[j].own.id => i = j

StrappingIsSound(o) ==
    /\ Len(o.kids.points) >= 2 /\ Ascending(o.kids.points, "height") /\ Ascending(o.kids.points, "volume")
    /\ o.kids.points[1].own.height >= 0 /\ o.kids.points[1].own.volume >= 0

LevelsAreSound(o) ==
    /\ 0 <= o.own.minimum /\ o.own.minimum < o.own.high_high
    /\ NeverFalling(<<o.own.minimum, o.own.low, o.own.normal, o.own.high, o.own.high_high>>)

TankIsSound(o) ==
    LET points == o.kids.strapping[1].kids.points
    IN  /\ o.kids.levels[1].own.high_high <= Last(points).own.height
        /\ Head(points).own.height <= o.own.current_level /\ o.own.current_level <= Last(points).own.height
        /\ o.own.dead_volume >= 0

SolverIsSound(o) ==
    /\ o.own.pressure_tolerance > 0 /\ o.own.mass_balance_tolerance > 0 /\ o.own.flow_tolerance > 0
    /\ Positive(o.own.max_flow) /\ o.own.max_iterations >= 1 /\ o.own.profile_step > 0
    /\ None \in {o.own.min_velocity, o.own.max_velocity} \/ o.own.min_velocity < o.own.max_velocity

\* The identifiers of the manifest are those of the objects.
InputIsSound(o) ==
    /\ o.kids.manifest[1].own.pipeline_id = o.kids.network[1].own.id
    /\ o.kids.manifest[1].own.fluid_id = o.kids.fluid[1].own.id
    /\ o.kids.manifest[1].own.scenario_id = o.kids.scenario[1].own.id

IsSound(c, o) ==
    /\ c = "table" => TableIsSound(o)
    /\ c = "fluid" => FluidIsSound(o)
    /\ c = "curve" => CurveIsSound(o)
    /\ c = "pump_model" => PumpModelIsSound(o)
    /\ c = "pump" => PumpIsSound(o)
    /\ c = "fitting" => FittingIsSound(o)
    /\ c = "segment" => SegmentIsSound(o)
    /\ c = "profile" => ProfileIsSound(o)
    /\ c = "station" => StationIsSound(o)
    /\ c = "strapping" => StrappingIsSound(o)
    /\ c = "levels" => LevelsAreSound(o)
    /\ c = "tank" => TankIsSound(o)
    /\ c = "network" => o.kids.segments # <<>>
    /\ c = "solver" => SolverIsSound(o)
    /\ c = "input" => InputIsSound(o)

-----------------------------------------------------------------------------
\* _required, _optional..., source.get(key, default): the scalar that is taken, or Refused.
Taken(rule, doc, name) ==
    IF name \notin DOMAIN doc.own THEN IF rule.need = "required" THEN Refused ELSE rule.default
    ELSE IF doc.own[name] = Wrong THEN Refused
    ELSE IF doc.own[name] = None THEN IF rule.need = "optional" THEN rule.default ELSE Refused
    ELSE IF rule.need = "required" /\ rule.type = "text" /\ doc.own[name] = 0 THEN Refused  \* the empty string
    ELSE doc.own[name]

OwnRead(c, doc) == [field \in Scalars(c) |-> Taken(Fields[c][field], doc, field)]

\* _mapping, _items: an object or a list, and neither null nor a scalar in its place.
IsGiven(rule, doc, k) ==
    \/ k \in DOMAIN doc.kids
    \/ k \notin DOMAIN doc.own /\ rule.need # "required"
    \/ k \in DOMAIN doc.own /\ doc.own[k] = None /\ rule.need = "optional"
NestedIn(rule, doc, k) == IF k \in DOMAIN doc.kids THEN doc.kids[k] ELSE rule.default

CanBeRead(c, doc) ==
    /\ \A field \in Scalars(c) : Taken(Fields[c][field], doc, field) # Refused
    /\ \A k \in Nested(c) : IsGiven(Fields[c][k], doc, k)
AllRead(kids) == \A k \in DOMAIN kids : \A i \in DOMAIN kids[k] : kids[k][i] # Refused

\* Pipeline.__post_init__ sorts what it is given; the sort is stable.
Precedes(s, key, i, j) == s[i].own[key] < s[j].own[key] \/ (s[i].own[key] = s[j].own[key] /\ i < j)
By(key, s) ==
    [n \in DOMAIN s |-> s[CHOOSE i \in DOMAIN s : Cardinality({j \in DOMAIN s : Precedes(s, key, j, i)}) = n - 1]]
Arranged(kids) ==
    [kids EXCEPT !.segments = By("sequence", @), !.stations = By("chainage", @), !.injections = By("chainage", @)]

\* The model of a pump is looked up in the equipment of the package, never in the catalog.
ModelsNamed(models, id) == {m \in models : m.own.id = id}
Object(c, own, kids, models) ==
    [own |-> own, kids |-> IF c = "pump" THEN [model |-> <<CHOOSE m \in ModelsNamed(models, own.model_id) : TRUE>>]
                           ELSE IF c = "network" THEN Arranged(kids) ELSE kids]

\* The model is found before the object is built, and the object is checked by its class.
IfSound(c, object) == IF IsSound(c, object) THEN object ELSE Refused
Constructed(c, own, kids, models) ==
    IF c = "pump" => ModelsNamed(models, own.model_id) # {}
    THEN IfSound(c, Object(c, own, kids, models)) ELSE Refused
Assembled(c, doc, kids, models) ==
    IF CanBeRead(c, doc) /\ AllRead(kids) THEN Constructed(c, OwnRead(c, doc), kids, models) ELSE Refused

\* What is nested is read one after the other.  The classes nest four deep: a gauge is in a
\* strapping table, in a tank, in a network, in an input.
Docs(c, doc, k) == NestedIn(Fields[c][k], doc, k)
Part(c, k)      == Fields[c][k].class
Decoded0(c, doc, models) == Assembled(c, doc, <<>>, models)
Decoded1(c, doc, models) == Assembled(c, doc,
    [k \in Nested(c) |-> [i \in DOMAIN Docs(c, doc, k) |-> Decoded0(Part(c, k), Docs(c, doc, k)[i], models)]], models)
Decoded2(c, doc, models) == Assembled(c, doc,
    [k \in Nested(c) |-> [i \in DOMAIN Docs(c, doc, k) |-> Decoded1(Part(c, k), Docs(c, doc, k)[i], models)]], models)
Decoded3(c, doc, models) == Assembled(c, doc,
    [k \in Nested(c) |-> [i \in DOMAIN Docs(c, doc, k) |-> Decoded2(Part(c, k), Docs(c, doc, k)[i], models)]], models)
Decoded(c, doc, models) == Assembled(c, doc,
    [k \in Nested(c) |-> [i \in DOMAIN Docs(c, doc, k) |-> Decoded3(Part(c, k), Docs(c, doc, k)[i], models)]], models)

\* pump_models_from_dict: two different models under one identifier are refused.
AreDistinct(models) == \A m, n \in models : m.own.id = n.own.id => m = n

\* canonical_input_from_dict: the equipment of the package, then what names it.
EquipmentRule == Rule("default", <<EmptyObject>>, "nested", "equipment")
EquipmentOf(doc) == NestedIn(EquipmentRule, doc, "equipment")[1]
ModelsRead(doc) ==
    LET rows == Docs("equipment", EquipmentOf(doc), "pump_models")
    IN  {Decoded1("pump_model", row, {}) : row \in Range(rows)}
ThawedWith(doc, models) ==
    IF Refused \notin models /\ AreDistinct(models) THEN Decoded("input", doc, models) ELSE Refused
Thawed(doc) ==
    IF IsGiven(EquipmentRule, doc, "equipment") /\ CanBeRead("equipment", EquipmentOf(doc))
    THEN ThawedWith(doc, ModelsRead(doc)) ELSE Refused

\* as_dict, of an object and of what is nested in it.
OwnWritten(c, o)  == [field \in Scalars(c) \cap WrittenFields[c] |-> o.own[field]]
NestWritten(c)    == Nested(c) \cap WrittenFields[c]
Encoded0(c, o) == [own |-> OwnWritten(c, o), kids |-> <<>>]
Encoded1(c, o) == [own |-> OwnWritten(c, o), kids |->
    [k \in NestWritten(c) |-> [i \in DOMAIN o.kids[k] |-> Encoded0(Part(c, k), o.kids[k][i])]]]
Encoded2(c, o) == [own |-> OwnWritten(c, o), kids |->
    [k \in NestWritten(c) |-> [i \in DOMAIN o.kids[k] |-> Encoded1(Part(c, k), o.kids[k][i])]]]
Encoded3(c, o) == [own |-> OwnWritten(c, o), kids |->
    [k \in NestWritten(c) |-> [i \in DOMAIN o.kids[k] |-> Encoded2(Part(c, k), o.kids[k][i])]]]
Encoded(c, o) == [own |-> OwnWritten(c, o), kids |->
    [k \in NestWritten(c) |-> [i \in DOMAIN o.kids[k] |-> Encoded3(Part(c, k), o.kids[k][i])]]]

\* equipment(): the models of the pumps of the network.  The list sorted by identifier, in which
\* each comes once, is the function of the identifiers.
PumpsOfNetwork(o) ==
    UNION {UNION {Range(g.kids.pumps) : g \in Range(s.kids.groups)} : s \in Range(o.kids.stations)}
ModelsUsed(o)     == {p.kids.model[1] : p \in PumpsOfNetwork(o)}
Equipment(o) ==
    [own |-> <<>>, kids |-> [pump_models |-> [id \in {m.own.id : m \in ModelsUsed(o)} |->
                                                 Encoded1("pump_model", CHOOSE m \in ModelsUsed(o) : m.own.id = id)]]]

\* as_dict of a canonical input.
WithEquipment(written, equipment) == [own |-> written.own, kids |-> Put(written.kids, "equipment", <<equipment>>)]
Frozen(o) == WithEquipment(Encoded("input", o), Equipment(o.kids.network[1]))

\* The equipment of a package and the model of a pump are not fields of their owners.
ClassOf(c, k) == IF k = "model" THEN "pump_model" ELSE IF k = "equipment" THEN k ELSE Part(c, k)

\* _normalise: numbers lose the digits after the fifteenth, what is not a number keeps all.
Digits(c, tree) == [field \in DOMAIN tree.own |-> IF Fields[c][field].type = "number" /\ tree.own[field] # None
                                                THEN tree.own[field] \div Precision ELSE tree.own[field]]
Normalised0(c, tree) == [own |-> Digits(c, tree), kids |-> <<>>]
Normalised1(c, tree) == [own |-> Digits(c, tree), kids |->
    [k \in DOMAIN tree.kids |-> [i \in DOMAIN tree.kids[k] |-> Normalised0(ClassOf(c, k), tree.kids[k][i])]]]
Normalised2(c, tree) == [own |-> Digits(c, tree), kids |->
    [k \in DOMAIN tree.kids |-> [i \in DOMAIN tree.kids[k] |-> Normalised1(ClassOf(c, k), tree.kids[k][i])]]]
Normalised3(c, tree) == [own |-> Digits(c, tree), kids |->
    [k \in DOMAIN tree.kids |-> [i \in DOMAIN tree.kids[k] |-> Normalised2(ClassOf(c, k), tree.kids[k][i])]]]
Normalised4(c, tree) == [own |-> Digits(c, tree), kids |->
    [k \in DOMAIN tree.kids |-> [i \in DOMAIN tree.kids[k] |-> Normalised3(ClassOf(c, k), tree.kids[k][i])]]]
Normalised5(c, tree) == [own |-> Digits(c, tree), kids |->
    [k \in DOMAIN tree.kids |-> [i \in DOMAIN tree.kids[k] |-> Normalised4(ClassOf(c, k), tree.kids[k][i])]]]
Normalised(c, tree) == [own |-> Digits(c, tree), kids |->
    [k \in DOMAIN tree.kids |-> [i \in DOMAIN tree.kids[k] |-> Normalised5(ClassOf(c, k), tree.kids[k][i])]]]

Without(tree, kid) == [tree EXCEPT !.kids = [k \in DOMAIN @ \ {kid} |-> @[k]]]

\* fingerprint: the hash of the payload, provenance excluded; it is injective.
PackageHash(package) == Normalised("input", Without(package, "provenance"))

\* An input is made of objects; what is sorted is a list, and by a number.
SortedBy == [segments |-> "sequence", stations |-> "chainage", injections |-> "chainage"]
IsListed(network) ==
    \A k \in DOMAIN SortedBy \cap DOMAIN network.kids :
        /\ network.kids[k] \in Seq(Range(network.kids[k]))
        /\ \A row \in Range(network.kids[k]) :
              SortedBy[k] \in DOMAIN row.own => row.own[SortedBy[k]] \in Int \cup {None, Wrong}
IsDocument(doc) ==
    /\ \A k \in DOMAIN doc.kids : DOMAIN doc.kids[k] = {1}
    /\ "network" \in DOMAIN doc.kids => IsListed(doc.kids.network[1])

ASSUME PackageAssumption ==
    /\ None # Wrong /\ None # Refused /\ Wrong # Refused
    /\ Whole \in Int /\ {None, Wrong, Refused} \cap Int = {} /\ RuleManifest \notin {None, Wrong, Refused}
    /\ \A doc \in Documents : IsDocument(doc) /\ \A edited \in Rewritten(doc) : IsDocument(edited)

-----------------------------------------------------------------------------
VARIABLES
    document,   \* what the model version and the scenario hold, or None
    packages,   \* the rows of calculation_runs: [payload, hash], and the input that was accepted
    replays     \* what execute_calculation has read from each row, or None

packageVars == <<document, packages, replays>>

PackageInit == document = None /\ packages = <<>> /\ replays = <<>>

AssembleDocument == document = None /\ document' \in Documents /\ UNCHANGED <<packages, replays>>

\* Bound: it is edited between the two calculations it is submitted for.
MaxPackages == 2

RewriteDocument ==
    /\ Len(packages) = 1 /\ document \in Documents
    /\ document' \in Rewritten(document)
    /\ UNCHANGED <<packages, replays>>

\* The rules of the document name the sets; their content is frozen by the service.
Ruled(doc, input) ==
    [own  |-> doc.own,
     kids |-> Put(doc.kids, "rules", <<[own |-> [rule_set_ids |-> input.kids.rules[1].own.rule_set_ids, manifest |-> RuleManifest],
                                        kids |-> <<>>]>>)]

Package(payload, input) == [payload |-> payload, hash |-> PackageHash(payload), accepted |-> input]
PackageOf(input) == Package(Frozen(input), input)

\* queue_calculation: the document is decoded, its rules are frozen, and it is decoded again.
Revalidated(doc, input) == IF input = Refused THEN Refused ELSE Thawed(Ruled(doc, input))

FreezeDocument ==
    /\ document # None /\ Len(packages) < MaxPackages
    /\ \E accepted \in {Revalidated(document, Thawed(document))} :
          accepted # Refused /\ packages' = Append(packages, PackageOf(accepted))
    /\ replays' = Append(replays, None)
    /\ UNCHANGED document

\* execute_calculation reads the row, and nothing else.
ReplayPackage(i) ==
    /\ replays[i] = None
    /\ replays' = [replays EXCEPT ![i] = Thawed(packages[i].payload)]
    /\ UNCHANGED <<document, packages>>

PackageNext == AssembleDocument \/ RewriteDocument \/ FreezeDocument \/ \E i \in DOMAIN replays : ReplayPackage(i)
PackageSpec == PackageInit /\ [][PackageNext]_packageVars

-----------------------------------------------------------------------------
\* The object that is computed is the one that was accepted, whatever became of the document and
\* the catalog; and two calculations share a fingerprint exactly when they compute the same
\* object, up to the last digits of its numbers and to its provenance: no field that the
\* engines read is left out of the package, nor of its hash.
PackagesAreFrozen ==
    /\ \A i \in DOMAIN packages :
          replays[i] # None => replays[i] = packages[i].accepted /\ PackageHash(Frozen(replays[i])) = packages[i].hash
    /\ \A i, j \in DOMAIN packages :
          packages[i].hash = packages[j].hash <=>
              Normalised("input", Without(packages[i].accepted, "provenance"))
                  = Normalised("input", Without(packages[j].accepted, "provenance"))
=============================================================================
