------------------------------ MODULE PumpSearch ------------------------------
(***************************************************************************)
(* hydro_optimization/optimizer.py and pyomo_selection.py, with the        *)
(* evaluator of services/operations.py (run_optimization): which pumps to  *)
(* run, and at what speed.                                                 *)
(*                                                                         *)
(* The configurations are visited in a fixed order.  Some are refused      *)
(* before the hydraulic engine is called, the others cost one evaluation   *)
(* of a bounded budget; those that are kept are ranked.                    *)
(***************************************************************************)
EXTENDS Quantities, Sequences, FiniteSets

CONSTANTS
    Quests,       \* what may be asked of the optimizer
    Evaluations,  \* what the engine may answer for one configuration
    IdOrder(_)    \* the place of a configuration's identifier among the identifiers, as strings

ASSUME QuestAssumption ==
    /\ None \notin Quests /\ None \notin Int
    /\ \A r \in Quests :
          /\ r.pumps \in Nat /\ r.speeds \in Nat /\ r.onLine \in Nat
          /\ r.price \in Int \cup {None} /\ r.maxEvaluations \in Int \cup {None}
    /\ \A e \in Evaluations : e.flow \in Int /\ e.power \in Int \cup {None}

\* The statuses of an answer; "unsound" is a request that is refused, "invalid" one whose
\* space is too large.
Conclusions == {"optimal", "infeasible", "stopped_with_solution", "stopped_without_solution"}

ASSUME VerdictAssumption == None \notin Conclusions \cup {"invalid", "unsound"}

(***************************************************************************)
(* A configuration gives each pump the index of its speed, 0 when stopped. *)
(***************************************************************************)
On(c, i)  == c[i] > 0
Active(c) == {i \in DOMAIN c : On(c, i)}

Configurations(r) == {c \in [1..r.pumps -> 0..r.speeds] : r.allowNone \/ Active(c) # {}}

\* Names of pumps and printed speeds are ordered as the strings they are; two speeds that
\* print alike give one identifier to two configurations.
ASSUME IdAssumption == \A r \in Quests : \A c \in [1..r.pumps -> 0..r.speeds] : IdOrder(c) \in Nat

\* The order of the two nested products: by pumps in service, then by speeds.
Before(c, d) ==
    IF Active(c) # Active(d)
    THEN \E i \in DOMAIN c : ~On(c, i) /\ On(d, i) /\ \A j \in 1..(i - 1) : On(c, j) <=> On(d, j)
    ELSE \E i \in DOMAIN c : c[i] < d[i] /\ \A j \in 1..(i - 1) : c[j] = d[j]

InOrder(low, high) == low = None \/ high = None \/ low <= high

\* OptimizationConstraints.
ConstraintsAreSound(r) ==
    /\ \A bound \in {r.minFlow, r.maxFlow, r.minPressure, r.maxPressure, r.maxActive} \ {None} : bound >= 0
    /\ InOrder(r.minFlow, r.maxFlow) /\ InOrder(r.minPressure, r.maxPressure)
    /\ r.required \cap r.forbidden = {}

\* run_optimization, which looks for the pumps on the line, and OptimizationRequest.
QuestIsSound(r) ==
    /\ r.pumps > 0 /\ r.pumps <= r.onLine
    /\ ConstraintsAreSound(r)
    /\ r.speeds > 0 /\ r.maxConfigurations > 0
    /\ r.maxEvaluations # None => r.maxEvaluations > 0
    /\ r.required \cup r.forbidden \subseteq 1..r.pumps

\* The scenario an evaluation computes: the pumps of the search lose the overrides the
\* scenario gave them, the others keep theirs.
Overrides(r, c) ==
    [i \in 1..r.onLine |->
        IF i \in DOMAIN c THEN [running |-> On(c, i), speed |-> IF On(c, i) THEN c[i] ELSE None, status |-> None]
        ELSE IF i \in DOMAIN r.previous THEN r.previous[i] ELSE None]

\* _configuration_reasons is empty.
Allowed(r, c) ==
    /\ r.required \subseteq Active(c)
    /\ r.forbidden \cap Active(c) = {}
    /\ r.maxActive # None => Cardinality(Active(c)) <= r.maxActive

\* _evaluation_reasons is empty.  A bound of pressure that was not computed refuses.
Admissible(r, c, e) ==
    /\ e.feasible /\ e.converged
    /\ r.minFlow # None => e.flow >= r.minFlow
    /\ r.maxFlow # None => e.flow <= r.maxFlow
    /\ r.minPressure # None => e.lowest # None /\ e.lowest >= r.minPressure
    /\ r.maxPressure # None => e.highest # None /\ e.highest <= r.maxPressure
    /\ r.allowViolations \/ ~e.violations
    /\ Active(c) # {} \/ e.flow = 0

\* The evaluator of run_optimization: an unknown power counts as no energy, and the
\* cost is known as soon as a price is.
Energy(e)  == IF e.power = None THEN 0 ELSE e.power
Cost(r, e) == IF r.price = None THEN None ELSE Energy(e) * r.price

ObjectiveKnown(r, e) == r.objective = "min_cost" => Cost(r, e) # None

Objective(r, c, e) ==
    CASE r.objective = "min_energy" -> Energy(e)
      [] r.objective = "min_cost"   -> Cost(r, e)
      [] r.objective = "max_flow"   -> -e.flow
      [] r.objective \notin {"min_energy", "min_cost", "max_flow"} -> Cardinality(Active(c))  \* pumps, starts

VARIABLES
    quest,      \* the request, or None
    pending,    \* configurations not visited yet
    kept,       \* configuration -> its objective
    refused,    \* configuration -> "preflight", "evaluated", "failed" or "budget"
    computed,   \* overrides of the last scenario that was evaluated
    evaluated,  \* evaluated_count
    ranking,    \* the ranked configurations, None before the end
    verdict     \* OptimizationStatus, "invalid", "unsound" or None

questVars == <<quest, pending, kept, refused, computed, evaluated, ranking, verdict>>

Empty == [c \in {} |-> 0]

QuestInit ==
    /\ quest = None /\ pending = {} /\ kept = Empty /\ refused = Empty
    /\ computed = None /\ evaluated = 0 /\ ranking = None /\ verdict = None

BeginQuest(r) ==
    /\ quest = None /\ quest' = r
    /\ IF QuestIsSound(r)
       THEN /\ pending' = Configurations(r)
            /\ verdict' = IF Cardinality(Configurations(r)) > r.maxConfigurations THEN "invalid" ELSE None
       ELSE pending' = {} /\ verdict' = "unsound"
    /\ UNCHANGED <<kept, refused, computed, evaluated, ranking>>

Visiting == quest # None /\ verdict = None

\* The configuration the loop has reached.
Next1 == CHOOSE c \in pending : \A d \in pending \ {c} : Before(c, d)

Refuse(c, why) ==
    /\ refused' = Put(refused, c, why)
    /\ pending' = pending \ {c}
    /\ UNCHANGED <<quest, kept, ranking, verdict>>

RefusePreflight ==
    /\ Visiting /\ pending # {} /\ ~Allowed(quest, Next1)
    /\ Refuse(Next1, "preflight") /\ UNCHANGED <<computed, evaluated>>

\* Mutation of BudgetSpent: one evaluation too many.
BudgetSpentLate == quest.maxEvaluations # None /\ evaluated > quest.maxEvaluations

BudgetSpent == quest.maxEvaluations # None /\ evaluated >= quest.maxEvaluations

\* All that remains is refused, the configurations preflight would refuse included.
StopAtBudget ==
    /\ Visiting /\ pending # {} /\ Allowed(quest, Next1) /\ BudgetSpent
    /\ refused' = [c \in pending \cup DOMAIN refused |-> IF c \in pending THEN "budget" ELSE refused[c]]
    /\ pending' = {}
    /\ UNCHANGED <<quest, kept, computed, evaluated, ranking, verdict>>

Evaluates == Visiting /\ pending # {} /\ Allowed(quest, Next1) /\ ~BudgetSpent

\* The engine is called once for the configuration.
Evaluate1 == evaluated' = evaluated + 1 /\ computed' = Overrides(quest, Next1)

EvaluationFails ==
    /\ Evaluates /\ Evaluate1
    /\ Refuse(Next1, "failed")

EvaluateConfiguration(e) ==
    /\ Evaluates /\ Evaluate1
    /\ IF Admissible(quest, Next1, e) /\ ObjectiveKnown(quest, e)
       THEN /\ kept' = Put(kept, Next1, Objective(quest, Next1, e))
            /\ pending' = pending \ {Next1}
            /\ UNCHANGED <<quest, refused, ranking, verdict>>
       ELSE Refuse(Next1, "evaluated")

Complete == \A c \in DOMAIN refused : refused[c] # "budget"

\* (value, id), by a stable sort of the configurations in the order of their visits.
Better(c, d) ==
    \/ kept[c] < kept[d]
    \/ kept[c] = kept[d] /\ IdOrder(c) < IdOrder(d)
    \/ kept[c] = kept[d] /\ IdOrder(c) = IdOrder(d) /\ Before(c, d)

\* Mutation of Ranked: the order of the visits, not of the values.
RankedByVisit ==
    [i \in 1..Cardinality(DOMAIN kept) |->
        CHOOSE c \in DOMAIN kept : Cardinality({d \in DOMAIN kept : Before(d, c)}) = i - 1]

Ranked == [i \in 1..Cardinality(DOMAIN kept) |->
              CHOOSE c \in DOMAIN kept : Cardinality({d \in DOMAIN kept : Better(d, c)}) = i - 1]

\* PyomoSelectionOptimizer puts the choice of its program first: any of the best.
Selections ==
    IF quest.solver = "pyomo"
    THEN {c \in DOMAIN kept : \A d \in DOMAIN kept : kept[c] <= kept[d]}
    ELSE {Ranked[1]}

\* The others follow in their order.
Promoted(c) ==
    LET ranked == Ranked
        k      == CHOOSE i \in DOMAIN ranked : ranked[i] = c
    IN  [i \in DOMAIN ranked |-> IF i = 1 THEN c ELSE IF i <= k THEN ranked[i - 1] ELSE ranked[i]]

Found == DOMAIN kept # {}

Status ==
    IF Complete THEN IF Found THEN "optimal" ELSE "infeasible"
    ELSE IF Found THEN "stopped_with_solution" ELSE "stopped_without_solution"

Conclude ==
    /\ Visiting /\ pending = {}
    /\ IF Found THEN \E c \in Selections : ranking' = Promoted(c) ELSE ranking' = <<>>
    /\ verdict' = Status
    /\ UNCHANGED <<quest, pending, kept, refused, computed, evaluated>>

QuestStep ==
    \/ RefusePreflight \/ StopAtBudget \/ EvaluationFails \/ Conclude
    \/ \E e \in Evaluations : EvaluateConfiguration(e)

QuestNext == (\E r \in Quests : BeginQuest(r)) \/ QuestStep

QuestSpec == QuestInit /\ [][QuestNext]_questVars

-----------------------------------------------------------------------------
\* The configuration that was computed last is one that was counted, and each of its pumps
\* was computed as it says; the line has no other pump that the search changed.
ComputedAsCounted ==
    computed # None =>
        \E c \in DOMAIN kept \cup {d \in DOMAIN refused : refused[d] \in {"evaluated", "failed"}} :
            /\ Active(c) = {i \in 1..quest.pumps : computed[i].running}
            /\ \A i \in 1..quest.onLine \ Active(c) : computed[i] # None /\ computed[i].running => i \in DOMAIN quest.previous
            /\ \A i \in Active(c) : computed[i].speed = c[i]

\* Every configuration of the space has one fate and is named in the result; no more
\* calls of the engine than the budget allows, and each for what it counts.
EveryCandidateAccounted ==
    quest # None /\ verdict # "unsound" =>
        /\ ComputedAsCounted
        /\ pending \cup DOMAIN kept \cup DOMAIN refused = [1..quest.pumps -> 0..quest.speeds]
                \ (IF quest.allowNone THEN {} ELSE {[i \in 1..quest.pumps |-> 0]})
        /\ DOMAIN kept \cap DOMAIN refused = {}
        /\ evaluated = Cardinality(DOMAIN kept)
             + Cardinality({c \in DOMAIN refused : refused[c] \in {"evaluated", "failed"}})
        /\ quest.maxEvaluations # None => evaluated <= quest.maxEvaluations

\* "optimal" is a proof: every allowed configuration was evaluated, and the first has the
\* least objective of those that were kept.  A search that was stopped says so, and only
\* when an allowed configuration was left.
OptimalIsProved ==
    verdict \in Conclusions =>
        LET left == {c \in DOMAIN refused : refused[c] = "budget" /\ Allowed(quest, c)} IN
        /\ verdict \in {"optimal", "infeasible"} <=> left = {}
        /\ ranking # <<>> <=> verdict \in {"optimal", "stopped_with_solution"}
        /\ \A i \in DOMAIN ranking, j \in DOMAIN ranking : i <= j => kept[ranking[i]] <= kept[ranking[j]]
        /\ {ranking[i] : i \in DOMAIN ranking} = DOMAIN kept /\ Len(ranking) = Cardinality(DOMAIN kept)

\* Every search ends.
QuestEnds == quest # None ~> verdict # None
=============================================================================
