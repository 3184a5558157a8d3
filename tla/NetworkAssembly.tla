--------------------------- MODULE NetworkAssembly ---------------------------
(***************************************************************************)
(* services/network.py, services/topology.py and the hydraulic context of  *)
(* services/operations.py: a network of nodes, edges and assets is         *)
(* validated, assembled into the sections a calculation reads, exported    *)
(* and imported into an empty version, and followed by the path of a       *)
(* transfer.                                                               *)
(* model_components returns nodes and assets in the order of their codes,  *)
(* and edges in the order of their sequences: the rows are sequences.      *)
(* Identifiers of rows are pairs <<version, code>>; a code is an integer.  *)
(***************************************************************************)
EXTENDS Quantities, Sequences, SequencesExt, FiniteSets

CONSTANTS
    Networks,      \* networks of a version: [nodes, edges, assets, fluid]
    Items,         \* item -> [kind, code, version, status, owned]: the catalog
    TanksOnFile,   \* tanks that exist
    Contexts(_),   \* hydraulic contexts a transfer may name for a network
    NormalSpeed    \* the ratio 1.0

VARIABLES
    site,      \* the rows of the version, or None
    report,    \* the errors of validate_network, or None
    sections,  \* what canonical_sections_from_normalized returns, Refused or None
    copy,      \* the rows of the version the export was imported into, Refused or None
    copied,    \* the sections of that version
    journey    \* the context of a transfer and what it computes, or None

networkVars == <<site, report, sections, copy, copied, journey>>

Named(recs, id) == CHOOSE r \in Range(recs) : r.id = id
Coded(recs, code) == CHOOSE r \in Range(recs) : r.code = code
Ids(recs)     == {r.id : r \in Range(recs)}
KindOf(asset) == Items[asset.item].kind

\* The elements of a set as a sequence, in the order that precedes gives.
Sorted(S, precedes(_, _)) ==
    [k \in 1..Cardinality(S) |-> CHOOSE x \in S : Cardinality({y \in S : precedes(y, x)}) = k - 1]

CodeBefore(c, d) == c < d

TrueOf(problems) == {p \in DOMAIN problems : problems[p]}

-----------------------------------------------------------------------------
\* What the tables and the schemas keep of the rows: keys that are unique, nodes that exist,
\* a profile that covers its edge, one location for an asset, items of the catalog.
IsKeyed(rows) ==
    /\ rows \in Seq(Range(rows)) /\ None \notin Ids(rows) \cup {<<2, r.code>> : r \in Range(rows)}
    /\ \A r \in Range(rows) : r.code \in Int
    /\ \A i, j \in DOMAIN rows : rows[i].id = rows[j].id \/ rows[i].code = rows[j].code => i = j

CoversEdge(e) ==
    /\ e.profile \in Seq((Int \X (Int \cup {None}))) /\ Len(e.profile) >= 2
    /\ e.length \in Nat \ {0} /\ Head(e.profile)[1] = 0 /\ Last(e.profile)[1] = e.length
    /\ \A i \in 2..Len(e.profile) : e.profile[i - 1][1] < e.profile[i][1]

IsNode(n) == DOMAIN n = {"id", "code", "kind", "elevation", "status", "arrangement", "flow", "tank"}
IsEdge(net, e) ==
    /\ DOMAIN e = {"id", "code", "from", "to", "sequence", "length", "maop", "material", "status", "profile", "fittings"}
    /\ {e.from, e.to} \subseteq Ids(net.nodes) /\ e.from # e.to /\ e.material \in Maybe(DOMAIN Items)
    /\ CoversEdge(e)
IsAsset(net, a) ==
    /\ DOMAIN a = {"id", "code", "item", "node", "edge", "role", "status", "at", "opening", "running", "speed"}
    /\ a.item \in DOMAIN Items /\ a.node \in Maybe(Ids(net.nodes)) /\ a.edge \in Maybe(Ids(net.edges))
    /\ (a.node = None) # (a.edge = None)

IsStored(net) ==
    /\ IsKeyed(net.nodes) /\ \A n \in Range(net.nodes) : IsNode(n)
    /\ IsKeyed(net.edges) /\ \A e \in Range(net.edges) : IsEdge(net, e)
    /\ IsKeyed(net.assets) /\ \A a \in Range(net.assets) : IsAsset(net, a)

ASSUME NetworkAssumption ==
    /\ None \notin Int /\ None \notin DOMAIN Items /\ \A x \in DOMAIN Items : Items[x].code # None
    /\ \A net \in Networks : /\ IsStored(net)
                             /\ \A ctx \in Contexts(net) : ctx.path \in Seq(Range(ctx.path))

-----------------------------------------------------------------------------
\* Edges as the steps of an undirected walk.  The walk from the first node stays in every set
\* of nodes that holds it and that no edge leaves.
Linked(net) == {{e.from, e.to} : e \in Range(net.edges)}
IsClosed(net, part) == \A l \in Linked(net) : l \cap part # {} => l \subseteq part
WalkStaysIn(net, part) == Head(net.nodes).id \in part /\ IsClosed(net, part)

GraphProblems(net) == [
    NODE_COUNT    |-> Len(net.nodes) < 2,
    EDGE_COUNT    |-> net.edges = <<>>,
    EDGE_NODE     |-> ~ UNION Linked(net) \subseteq Ids(net.nodes),
    PROFILE_ELEVATION |-> \E e \in Range(net.edges) : None \in {Head(e.profile)[2], Last(e.profile)[2]},
    NODE_ISOLATED |-> ~ Ids(net.nodes) \subseteq UNION Linked(net),
    DISCONNECTED  |-> /\ net.nodes # <<>>
                         /\ \E part \in SUBSET Ids(net.nodes) : part # Ids(net.nodes) /\ WalkStaysIn(net, part)]

\* The edges in the order of their sequences form one chain.
ChainProblems(net) == [
    EDGE_SEQUENCE |-> \E i \in DOMAIN net.edges : net.edges[i].sequence # i,
    EDGE_CHAIN    |-> \E i \in 2..Len(net.edges) : net.edges[i - 1].to # net.edges[i].from]

Ends(net) == IF net.edges = <<>> THEN {} ELSE {Head(net.edges).from, Last(net.edges).to}

EndProblems(net) == [
    CHAIN_SOURCE   |-> net.edges # <<>> /\ Named(net.nodes, Head(net.edges).from).kind \notin {"source", "tank"},
    CHAIN_TERMINAL |-> net.edges # <<>> /\ Named(net.nodes, Last(net.edges).to).kind \notin {"terminal", "tank"}]

PumpsAt(net, node) == {a \in Range(net.assets) : a.node = node.id /\ KindOf(a) = "pump"}

EquipmentProblems(net) == [
    ASSET_UNAPPROVED |-> \E a \in Range(net.assets) : Items[a.item].status # "approved",
    STATION_EMPTY    |-> \E n \in Range(net.nodes) : n.kind = "station" /\ PumpsAt(net, n) = {},
    NODE_UNSUPPORTED |-> \E n \in Range(net.nodes) : n.kind = "tank" /\ n.id \notin Ends(net),
    TANK_REFERENCE   |-> \E n \in Range(net.nodes) : n.kind = "tank" /\ n.id \in Ends(net) /\ n.tank = None,
    NODE_FLOW        |-> \E n \in Range(net.nodes) : n.kind \in {"injection", "offtake"}
                                                          /\ (n.flow = None \/ n.flow <= 0)]

OwnedAs(kind, item) == item # None /\ Items[item].owned /\ Items[item].kind = kind
MaterialsOf(net) == {e.material : e \in Range(net.edges)} \ {None}

CatalogProblems(net) == [
    MATERIAL_CATALOG    |-> \E m \in MaterialsOf(net) : ~OwnedAs("material", m),
    MATERIAL_UNAPPROVED |-> \E m \in MaterialsOf(net) : OwnedAs("material", m) /\ Items[m].status # "approved",
    FLUID_REFERENCE     |-> ~(OwnedAs("fluid", net.fluid) /\ Items[net.fluid].status = "approved")]

\* validate_network.  Its warnings refuse nothing and are left out.
NetworkErrors(net) ==
    TrueOf(GraphProblems(net)) \cup TrueOf(ChainProblems(net)) \cup TrueOf(EndProblems(net))
        \cup TrueOf(EquipmentProblems(net)) \cup TrueOf(CatalogProblems(net))

-----------------------------------------------------------------------------
Shifted(at, start) == IF at = None THEN None ELSE start + at

AssetFitting(a, start) ==
    [id |-> a.code, k |-> Items[a.item].version, quantity |-> 1, at |-> Shifted(a.at, start), status |-> a.status,
     opening |-> a.opening]

FittingsOn(net, e, start) ==
    LET written == [i \in DOMAIN e.fittings |-> [e.fittings[i] EXCEPT !.at = Shifted(@, start)]]
        placed  == Sorted({a.code : a \in {a \in Range(net.assets) : a.edge = e.id}}, CodeBefore)
    IN  written \o [i \in DOMAIN placed |-> AssetFitting(Coded(net.assets, placed[i]), start)]

SegmentRow(net, e, start) ==
    [id |-> e.code, sequence |-> e.sequence, length |-> e.length, start |-> start, maop |-> e.maop, status |-> e.status,
     material |-> IF e.material = None THEN None ELSE Items[e.material].code, fittings |-> FittingsOn(net, e, start)]

\* Mutation of PointsAlong: every edge writes its first point.
PointsAlongTwice(e, i, start) == [k \in DOMAIN e.profile |-> <<start + e.profile[k][1], e.profile[k][2]>>]

\* The first point of an edge is the last one of the edge before it.
PointsAlong(e, i, start) ==
    LET kept == IF i = 1 THEN e.profile ELSE Tail(e.profile)
    IN  [k \in DOMAIN kept |-> <<start + kept[k][1], kept[k][2]>>]

\* current_chainage at the i-th edge, and at the end of the line.
StartOf(net, i) == SumOver([j \in 1..(i - 1) |-> net.edges[j].length])
LengthOf(net)   == StartOf(net, Len(net.edges) + 1)

\* setdefault keeps the chainage of the node an edge leaves; that of the node it reaches is written over.
ChainageOf(net, id) ==
    LET leaving  == {i \in DOMAIN net.edges : net.edges[i].from = id}
        reaching == {i \in DOMAIN net.edges : net.edges[i].to = id}
    IN  IF reaching # {} THEN StartOf(net, Max(reaching) + 1)
        ELSE IF leaving # {} THEN StartOf(net, Min(leaving)) ELSE 0

SegmentsOf(net) == [i \in DOMAIN net.edges |-> SegmentRow(net, net.edges[i], StartOf(net, i))]
ProfileOf(net)   == FlattenSeq([i \in DOMAIN net.edges |-> PointsAlong(net.edges[i], i, StartOf(net, i))])

-----------------------------------------------------------------------------
PumpRow(a) ==
    [id |-> a.code, model |-> Items[a.item].code, role |-> IF a.role = "auxiliary" THEN "booster" ELSE a.role,
     status |-> a.status, running |-> IF a.running = None THEN a.role # "standby" ELSE a.running,
     speed |-> IF a.speed = None THEN NormalSpeed ELSE a.speed]

\* Assets in the order of their codes.
PumpCodes(net, node) == Sorted({a.code : a \in PumpsAt(net, node)}, CodeBefore)
PumpRows(net, node)  == LET codes == PumpCodes(net, node)
                        IN  [i \in DOMAIN codes |-> PumpRow(Coded(net.assets, codes[i]))]
GroupsFor(node, pumps) == IF node.arrangement = "series" THEN <<pumps>> ELSE [i \in DOMAIN pumps |-> <<pumps[i]>>]

StationRow(net, node) ==
    [id |-> node.code, at |-> ChainageOf(net, node.id), elevation |-> node.elevation, arrangement |-> node.arrangement,
     status |-> node.status, groups |-> GroupsFor(node, PumpRows(net, node))]

InjectionRow(net, node) ==
    [id |-> node.code, at |-> ChainageOf(net, node.id), status |-> node.status,
     flow |-> IF node.kind = "injection" THEN node.flow ELSE -node.flow]

\* Nodes by their chainage, then by their code.
PlacedBefore(p, q) == p[1] < q[1] \/ (p[1] = q[1] /\ p[2] < q[2])
PlacesOf(net, kinds) == {<<ChainageOf(net, n.id), n.code>> : n \in {n \in Range(net.nodes) : n.kind \in kinds}}
AlongLine(net, kinds) == LET places == Sorted(PlacesOf(net, kinds), PlacedBefore)
                         IN  [i \in DOMAIN places |-> Coded(net.nodes, places[i][2])]

\* The models of the pumps, by the code they carry as identifier: the last one written stays.
ModelsFor(net, pumps) ==
    LET item(i) == Coded(net.assets, pumps[i]).item
        carrying(code) == {i \in DOMAIN pumps : Items[item(i)].code = code}
    IN  [code \in {Items[item(i)].code : i \in DOMAIN pumps} |-> item(Max(carrying(code)))]
ModelsOf(net, stations) == ModelsFor(net, FlattenSeq([i \in DOMAIN stations |-> PumpCodes(net, stations[i])]))

\* _boundary_tank_payload.
BoundaryTank(net, id) == LET node == Named(net.nodes, id) IN IF node.kind = "tank" THEN node.tank ELSE None

Compilable(net) ==
    /\ \A a \in Range(net.assets) : a.edge # None => KindOf(a) \in {"valve", "accessory"}
    /\ \A n \in Range(net.nodes) : n.kind = "station" => n.arrangement \in {"series", "parallel"}
    /\ {BoundaryTank(net, id) : id \in Ends(net)} \ {None} \subseteq TanksOnFile

SectionsAlong(net, stations, taps) ==
    [fluid |-> net.fluid, length |-> LengthOf(net), segments |-> SegmentsOf(net), profile |-> ProfileOf(net),
     stations |-> [i \in DOMAIN stations |-> StationRow(net, stations[i])],
     injections |-> [i \in DOMAIN taps |-> InjectionRow(net, taps[i])],
     models |-> ModelsOf(net, stations),
     origin |-> BoundaryTank(net, Head(net.edges).from), destination |-> BoundaryTank(net, Last(net.edges).to)]

SectionsOn(net) ==
    SectionsAlong(net, AlongLine(net, {"station"}), AlongLine(net, {"injection", "offtake"}))

\* canonical_sections_from_normalized validates the network again before it assembles it.
SectionsOf(net) == IF NetworkErrors(net) = {} /\ Compilable(net) THEN SectionsOn(net) ELSE Refused

-----------------------------------------------------------------------------
\* export_topology: links between rows, and to the catalog, become codes.
CodeOf(recs, id) == IF id = None THEN None ELSE Named(recs, id).code
ItemCode(item)   == IF item = None THEN None ELSE Items[item].code
Apart(row, fields) == [field \in DOMAIN row \ fields |-> row[field]]

Exported(net) == [
    nodes  |-> [i \in DOMAIN net.nodes |-> Apart(net.nodes[i], {"id"})],
    edges  |-> [i \in DOMAIN net.edges |->
                   [Apart(net.edges[i], {"id"}) EXCEPT !.from = CodeOf(net.nodes, @), !.to = CodeOf(net.nodes, @),
                                                       !.material = ItemCode(@)]],
    assets |-> [i \in DOMAIN net.assets |->
                   [Apart(net.assets[i], {"id"}) EXCEPT !.node = CodeOf(net.nodes, @), !.edge = CodeOf(net.edges, @),
                                                        !.item = ItemCode(@)]]]

\* _catalog_id: the last version that carries the code.
ItemFor(code) ==
    LET items == {x \in DOMAIN Items : Items[x].code = code}
    IN  IF items = {} THEN None ELSE CHOOSE x \in items : \A y \in items : Items[y].version <= Items[x].version

NewRow(row) == Put(row, "id", <<2, row.code>>)
NewId(recs, code) == IF code = None THEN None ELSE Named(recs, <<2, code>>).id

\* _validate_material and _validate_asset_location of the rows that are created.
LocationIsRefused(net, a) ==
    \/ ~Items[a.item].owned \/ KindOf(a) \in {"fluid", "material"}
    \/ a.node # None /\ KindOf(a) = "pump" /\ Named(net.nodes, a.node).kind # "station"
    \/ a.node # None /\ KindOf(a) \in {"valve", "accessory"}
    \/ a.edge # None /\ KindOf(a) = "pump"
    \/ KindOf(a) = "pump" /\ a.role \notin {"main", "standby", "auxiliary"}
MaterialIsRefused(e) == e.material # None /\ ~OwnedAs("material", e.material)

ImportedNodes(doc) == [i \in DOMAIN doc.nodes |-> NewRow(doc.nodes[i])]
ImportedEdges(doc, nodes) ==
    [i \in DOMAIN doc.edges |->
        [NewRow(doc.edges[i]) EXCEPT !.from = NewId(nodes, @), !.to = NewId(nodes, @), !.material = ItemFor(@)]]

\* Mutation of ImportedAssets: the payload of an equipment does not come back.
ImportedAssetsBare(doc, nodes, edges) ==
    [i \in DOMAIN doc.assets |->
        [NewRow(doc.assets[i]) EXCEPT !.node = NewId(nodes, @), !.edge = NewId(edges, @), !.item = ItemFor(@),
                                      !.running = None, !.speed = None, !.at = None]]

ImportedAssets(doc, nodes, edges) ==
    [i \in DOMAIN doc.assets |->
        [NewRow(doc.assets[i]) EXCEPT !.node = NewId(nodes, @), !.edge = NewId(edges, @), !.item = ItemFor(@)]]

\* The transaction of an import that is refused leaves the version empty.
Admitted(net) ==
    IF \/ \E e \in Range(net.edges) : MaterialIsRefused(e)
       \/ \E a \in Range(net.assets) : LocationIsRefused(net, a)
    THEN Refused ELSE net

WithAssets(doc, nodes, edges, fluid) ==
    Admitted([nodes |-> nodes, edges |-> edges, assets |-> ImportedAssets(doc, nodes, edges), fluid |-> fluid])
WithEdges(doc, nodes, fluid) == WithAssets(doc, nodes, ImportedEdges(doc, nodes), fluid)

\* import_topology into an empty version whose payload names the same fluid.
Imported(doc, fluid) == WithEdges(doc, ImportedNodes(doc), fluid)

-----------------------------------------------------------------------------
\* _assert_tank_node, and the walk of _validate_hydraulic_context.
JoinsTank(net, id, tank) == Named(net.nodes, id).kind = "tank" /\ Named(net.nodes, id).tank = tank

\* The edges of the path, and the nodes that they have passed once k of them are followed.
Leg(net, ctx, k) == Named(net.edges, ctx.path[k])
PassedBy(net, ctx, k) == {ctx.source} \cup {Leg(net, ctx, j).to : j \in 1..k}
ReachedBy(net, ctx, k) == IF k = 0 THEN ctx.source ELSE Leg(net, ctx, k).to

PathIsContinuous(net, ctx) ==
    /\ Range(ctx.path) \subseteq Ids(net.edges)
    /\ \A k \in DOMAIN ctx.path : /\ Leg(net, ctx, k).from = ReachedBy(net, ctx, k - 1)
                                  /\ Leg(net, ctx, k).to \notin PassedBy(net, ctx, k - 1)
    /\ ReachedBy(net, ctx, Len(ctx.path)) = ctx.destination

\* _resolve_path_pumps.
PumpsOnPath(net, ctx) ==
    {a \in Range(net.assets) :
        a.role \in {"main", "standby"} /\ (a.node \in PassedBy(net, ctx, Len(ctx.path)) \/ a.edge \in Range(ctx.path))}
SelectionIsSound(net, ctx, candidates) ==
    \A id \in ctx.pumps : id \in {a.id : a \in candidates} /\ Named(net.assets, id).status # "unavailable"
PathPumps(net, ctx, candidates) == IF ctx.pumps = {} THEN candidates ELSE {Named(net.assets, id) : id \in ctx.pumps}

ContextIsSound(net, ctx) ==
    /\ {ctx.source, ctx.destination} \subseteq Ids(net.nodes) /\ ctx.source # ctx.destination
    /\ JoinsTank(net, ctx.source, ctx.sourceTank) /\ JoinsTank(net, ctx.destination, ctx.destinationTank)
    /\ Cardinality(Range(ctx.path)) = Len(ctx.path)
    /\ PathIsContinuous(net, ctx)
    /\ SelectionIsSound(net, ctx, PumpsOnPath(net, ctx))

\* build_payload: every pump of the line is overridden, the selected ones run.
LinePumps(line) ==
    {p.id : p \in UNION {UNION {Range(g) : g \in Range(s.groups)} : s \in Range(line.stations)}}
OverridesFor(pumps, running, previous) ==
    [p \in pumps |-> [running |-> p \in running, status |-> IF p \in DOMAIN previous THEN previous[p].status ELSE None,
                      speed |-> IF p \in DOMAIN previous THEN previous[p].speed ELSE None]]
Overridden(previous, new) ==
    [p \in DOMAIN new \cup DOMAIN previous |-> IF p \in DOMAIN new THEN new[p] ELSE previous[p]]
PayloadFor(ctx, pumps, running) ==
    [flow |-> None, inletPressure |-> None, outletPressure |-> None, inletLevel |-> ctx.levels[1],
     outletLevel |-> ctx.levels[2], overrides |-> Overridden(ctx.previous, OverridesFor(pumps, running \cap pumps, ctx.previous))]

JourneyAlong(net, line, ctx) ==
    PayloadFor(ctx, LinePumps(line), {a.code : a \in PathPumps(net, ctx, PumpsOnPath(net, ctx))})

\* The path is checked before the sections are assembled.
JourneyOf(net, line, ctx) ==
    IF ContextIsSound(net, ctx) /\ line # Refused THEN JourneyAlong(net, line, ctx) ELSE Refused

-----------------------------------------------------------------------------
NetworkInit ==
    site = None /\ report = None /\ sections = None /\ copy = None /\ copied = None /\ journey = None

DrawNetwork == site = None /\ site' \in Networks /\ UNCHANGED <<report, sections, copy, copied, journey>>

ValidateNetwork ==
    /\ site # None /\ report = None
    /\ report' = NetworkErrors(site)
    /\ UNCHANGED <<site, sections, copy, copied, journey>>

AssembleSections ==
    /\ report # None /\ sections = None
    /\ sections' = SectionsOf(site)
    /\ UNCHANGED <<site, report, copy, copied, journey>>

ExchangeTopology ==
    /\ sections # None /\ copy = None
    /\ copy' = Imported(Exported(site), site.fluid)
    /\ UNCHANGED <<site, report, sections, copied, journey>>

AssembleCopy ==
    /\ copy \notin {None, Refused} /\ copied = None
    /\ copied' = SectionsOf(copy)
    /\ UNCHANGED <<site, report, sections, copy, journey>>

PlanJourney ==
    /\ sections # None /\ copy = None /\ journey = None
    /\ \E ctx \in Contexts(site) : journey' = [ctx |-> ctx, payload |-> JourneyOf(site, sections, ctx)]
    /\ UNCHANGED <<site, report, sections, copy, copied>>

NetworkNext ==
    DrawNetwork \/ ValidateNetwork \/ AssembleSections \/ ExchangeTopology \/ AssembleCopy \/ PlanJourney
NetworkSpec == NetworkInit /\ [][NetworkNext]_networkVars

-----------------------------------------------------------------------------
\* Two assets with two versions of one item: both carry the code of the item as identifier.
VersionsCollide(net) ==
    \E a, b \in Range(net.assets) : a.item # b.item /\ Items[a.item].code = Items[b.item].code
PassedTwice(net) == Cardinality({e.from : e \in Range(net.edges)} \cup Ends(net)) # Len(net.edges) + 1

\* A later version of an item that is placed carries its code.
NewerExists(net) ==
    \E x \in {a.item : a \in Range(net.assets)} \cup MaterialsOf(net) : ItemFor(Items[x].code) # x

\* What Pipeline.validate_topology asks of a line.
IsOneLine(line) ==
    /\ \A i \in DOMAIN line.segments : line.segments[i].start
           = IF i = 1 THEN 0 ELSE line.segments[i - 1].start + line.segments[i - 1].length
    /\ \A i \in 2..Len(line.profile) : line.profile[i - 1][1] < line.profile[i][1]
    /\ Head(line.profile)[1] = 0 /\ Last(line.profile)[1] = line.length
    /\ \A s \in Range(line.stations) \cup Range(line.injections) : 0 <= s.at /\ s.at <= line.length
    /\ \A s \in Range(line.stations) : s.groups # <<>> /\ <<>> \notin Range(s.groups)

PumpPlaces(line, id) ==
    UNION {UNION {{<<s, g, k>> : k \in {k \in DOMAIN line.stations[s].groups[g] : line.stations[s].groups[g][k].id = id}}
        : g \in DOMAIN line.stations[s].groups} : s \in DOMAIN line.stations}

\* Everything is where the edges that join its node meet.
PlacedOnLine(net, line) ==
    \A i \in DOMAIN net.edges : \A s \in Range(line.stations) \cup Range(line.injections) :
        /\ s.id = Named(net.nodes, net.edges[i].from).code => s.at = line.segments[i].start
        /\ s.id = Named(net.nodes, net.edges[i].to).code   => s.at = line.segments[i].start + line.segments[i].length

\* The pumps of the stations, each once and with the version of the catalog that was placed.
PumpsAreAssembled(net, line) ==
    \A n \in {n \in Range(net.nodes) : n.kind = "station"} : \A a \in PumpsAt(net, n) :
        /\ Cardinality(PumpPlaces(line, a.code)) = 1
        /\ VersionsCollide(net) \/ line.models[Items[a.item].code] = a.item

\* What the scenario says of the availability and of the speed of a pump.
StateBefore(trip, pump) ==
    IF pump \in DOMAIN trip.ctx.previous
    THEN <<trip.ctx.previous[pump].status, trip.ctx.previous[pump].speed>> ELSE <<None, None>>

\* The path of a transfer is the line that is computed, it runs the pumps it named, and it makes
\* none of them available, nor changes its speed.
JourneyIsTheLine(net, line, trip) ==
    /\ trip.ctx.path = [i \in DOMAIN net.edges |-> net.edges[i].id]
    /\ line.origin = trip.ctx.sourceTank /\ line.destination = trip.ctx.destinationTank
    /\ \A pump \in LinePumps(line) \cup DOMAIN trip.ctx.previous :
           StateBefore(trip, pump) = <<trip.payload.overrides[pump].status, trip.payload.overrides[pump].speed>>
    /\ \A a \in Range(net.assets) : a.code \in LinePumps(line) =>
           (trip.payload.overrides[a.code].running
                <=> (a.role \in {"main", "standby"} /\ (trip.ctx.pumps = {} \/ a.id \in trip.ctx.pumps)))

\* A network that validate_network accepts is one line that the engine accepts: the profile
\* covers it, stations, injections and pumps are where they were drawn, with their own catalog
\* version, and a transfer whose path is accepted computes that path, unless the chain passes a
\* node twice.  Two versions of one item on a line share the model that is read last: they are the
\* exception of PumpsAreAssembled.  Of the fittings of a segment, and of the status and the speed
\* of a pump in its station, it says nothing.
NetworksAreComputedAsDrawn ==
    sections \notin {None, Refused} =>
        /\ IsOneLine(sections)
        /\ PassedTwice(site) \/ PlacedOnLine(site, sections)
        /\ PumpsAreAssembled(site, sections)
        /\ journey = None \/ PassedTwice(site) \/ journey.payload = Refused
               \/ JourneyIsTheLine(site, sections, journey)

\* A network that is exported and imported into an empty version gives the same sections, or
\* is refused as they are, when each of its items is the last version that carries its code.
TopologyComesBack == copied # None /\ ~NewerExists(site) => copied = sections
=============================================================================
