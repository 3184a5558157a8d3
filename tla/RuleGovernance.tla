---------------------------- MODULE RuleGovernance ----------------------------
(***************************************************************************)
(* services/governance.py and the end of services/core.py: standards and   *)
(* rule sets are written, approved and frozen into the input of a          *)
(* calculation; its result is measured against the frozen rules.           *)
(*                                                                         *)
(* A request of an officer is one transaction.  It tests rows it reads     *)
(* without a lock, computes the hash of a set from the rows it can see,    *)
(* writes at its flush the columns it changed, and commits.  What others   *)
(* committed in between it does not see: two approvals of one set may both *)
(* end.  No request deletes a rule, nor edits one.                         *)
(***************************************************************************)
EXTENDS Quantities, Sequences, FiniteSets

CONSTANTS
    Officers,   \* sessions of the requests
    Standards,
    RuleSets,
    Links,      \* rule set -> the standards it was created with
    Rules,
    Definition, \* rule -> [home, standard, severity, metric, operator, limit, upper]
    Runs,       \* calculations
    Requested,  \* calculation -> the sequence of sets its payload names
    Measures,   \* the results an engine may give: [approvable, metrics]
    MaxSessions \* requests each officer makes

\* The status of a set or of a rule; the tables allow more, which no request writes.
Drafted    == {"draft", "approved"}
Hashes     == SUBSET (Rules \X Drafted)
SetRecords == [status : Drafted, hash : Hashes]

ASSUME GovernanceAssumption ==
    /\ \A s \in RuleSets : Links[s] \subseteq Standards
    /\ \A r \in Rules : Definition[r].home \in RuleSets
    /\ \A c \in Runs : Requested[c] \in Seq(RuleSets)
    /\ MaxSessions \in Nat

ASSUME NoneAssumption ==
    /\ None \notin Drafted
    /\ \A seen \in SUBSET Rules : seen # None
    /\ \A record \in SetRecords : record # None

VARIABLES
    standards, \* status of each standard
    sets,      \* rule set -> [status, hash], or None before its creation
    rules,     \* rule -> its status, or None before its creation
    approvals, \* rule set -> the rules counted by the audit event of its approval, or None
    desk,      \* officer -> the request under way, or None
    sessions,  \* officer -> how many requests it has begun
    runs       \* calculation -> [stage, manifest, evaluations, verdict]

governanceVars == <<standards, sets, rules, approvals, desk, sessions, runs>>

RulesOf(s) == {r \in Rules : Definition[r].home = s /\ rules[r] # None}

\* refresh_rule_set_hash: the rules a transaction sees, with their status, and its own
\* change.
Fingerprint(s, change) ==
    {<<r, rules[r]>> : r \in RulesOf(s) \ DOMAIN change} \cup {<<r, change[r]>> : r \in DOMAIN change}

Closed == {"withdrawn", "archived"}

GovernanceInit ==
    /\ standards = [x \in Standards |-> "draft"]
    /\ sets = [s \in RuleSets |-> None]
    /\ rules = [r \in Rules |-> None]
    /\ approvals = [s \in RuleSets |-> None]
    /\ desk = [o \in Officers |-> None]
    /\ sessions = [o \in Officers |-> 0]
    /\ runs = [c \in Runs |-> [stage |-> "new", manifest |-> <<>>, evaluations |-> None, verdict |-> None]]

-----------------------------------------------------------------------------
\* What the requests test before they write.

NoChange == [r \in {} |-> None]

Request(op, object, change, status) ==
    [op |-> op, object |-> object, change |-> change, status |-> status, hash |-> None, seen |-> {},
     was |-> IF op \in {"rule", "approve"} THEN sets[object].hash ELSE None]

\* update_standard: a draft may be closed at once, an active edition only be withdrawn or
\* archived.  approve_standard wants a draft.
StandardRequests ==
    {Request("standard", x, NoChange, st) : x \in {y \in Standards : standards[y] \notin Closed}, st \in Closed}
    \cup {Request("standard", x, NoChange, "active") : x \in {y \in Standards : standards[y] = "draft"}}

\* create_rule_set: the standards must be active.
CreationRequests ==
    {Request("create", s, NoChange, "draft") :
        s \in {t \in RuleSets : sets[t] = None /\ \A x \in Links[t] : standards[x] = "active"}}

IsDraft(s) == sets[s] # None /\ sets[s].status = "draft"

\* create_rule: the standard of the rule is one of its set.  approve_rule: both are drafts.
RuleRequests ==
    {Request("rule", Definition[r].home, [x \in {r} |-> "draft"], None) :
        r \in {q \in Rules : /\ rules[q] = None /\ IsDraft(Definition[q].home)
                             /\ Definition[q].standard \in Links[Definition[q].home] \cup {None}}}
    \cup {Request("rule", Definition[r].home, [x \in {r} |-> "approved"], None) :
             r \in {q \in Rules : rules[q] = "draft" /\ IsDraft(Definition[q].home)}}

\* approve_rule_set: it has rules, an expert approved them all, the editions are active.
MayApprove(s) ==
    /\ IsDraft(s) /\ RulesOf(s) # {}
    /\ \A r \in RulesOf(s) : rules[r] = "approved"
    /\ \A x \in Links[s] : standards[x] = "active"

ApprovalRequests ==
    {[Request("approve", s, NoChange, "approved") EXCEPT !.seen = RulesOf(s)] : s \in {t \in RuleSets : MayApprove(t)}}

Begin(o) ==
    /\ desk[o] = None /\ sessions[o] < MaxSessions
    /\ \E q \in StandardRequests \cup CreationRequests \cup RuleRequests \cup ApprovalRequests :
           desk' = [desk EXCEPT ![o] = q]
    /\ sessions' = [sessions EXCEPT ![o] = @ + 1]
    /\ UNCHANGED <<standards, sets, rules, approvals, runs>>

\* refresh_rule_set_hash: the row of the set is neither flushed nor locked before the rules are read.
ComputeHash(o) ==
    /\ desk[o] # None /\ desk[o].hash = None /\ desk[o].op # "standard"
    /\ desk' = [desk EXCEPT ![o].hash = Fingerprint(desk[o].object, desk[o].change)]
    /\ UNCHANGED <<standards, sets, rules, approvals, sessions, runs>>

\* The hash is a column like another: one that comes out as it was read is not written.
Hashed(o) == IF desk[o].hash = desk[o].was THEN sets[desk[o].object].hash ELSE desk[o].hash

Leave(o) == desk' = [desk EXCEPT ![o] = None] /\ UNCHANGED <<sessions, runs>>

CommitStandard(o) ==
    /\ desk[o] # None /\ desk[o].op = "standard"
    /\ standards' = [standards EXCEPT ![desk[o].object] = desk[o].status]
    /\ Leave(o)
    /\ UNCHANGED <<sets, rules, approvals>>

CommitCreation(o) ==
    /\ desk[o] # None /\ desk[o].op = "create" /\ desk[o].hash # None
    /\ sets[desk[o].object] = None
    /\ sets' = [sets EXCEPT ![desk[o].object] = [status |-> "draft", hash |-> desk[o].hash]]
    /\ Leave(o)
    /\ UNCHANGED <<standards, rules, approvals>>

\* The hash is written whatever the set has become.  A code that exists is refused.
CommitRule(o) ==
    /\ desk[o] # None /\ desk[o].op = "rule" /\ desk[o].hash # None
    /\ \A r \in DOMAIN desk[o].change : desk[o].change[r] = "draft" => rules[r] = None
    /\ rules' = [r \in Rules |-> IF r \in DOMAIN desk[o].change THEN desk[o].change[r] ELSE rules[r]]
    /\ sets' = [sets EXCEPT ![desk[o].object].hash = Hashed(o)]
    /\ Leave(o)
    /\ UNCHANGED <<standards, approvals>>

CommitApproval(o) ==
    /\ desk[o] # None /\ desk[o].op = "approve" /\ desk[o].hash # None
    /\ sets' = [sets EXCEPT ![desk[o].object] = [status |-> "approved", hash |-> Hashed(o)]]
    /\ approvals' = [approvals EXCEPT ![desk[o].object] = desk[o].seen]
    /\ Leave(o)
    /\ UNCHANGED <<standards, rules>>

\* A refused insertion, or a failure: nothing is written.
RollBack(o) ==
    /\ desk[o] # None
    /\ Leave(o)
    /\ UNCHANGED <<standards, sets, rules, approvals>>

-----------------------------------------------------------------------------
\* The calculations.

\* freeze_rule_sets keeps the approved rules.
FrozenRules(c) == [k \in DOMAIN Requested[c] |-> {r \in RulesOf(Requested[c][k]) : rules[r] = "approved"}]

\* validate_rule_sets_for_calculation, then freeze_rule_sets, in one submission: nothing
\* reopens a set in between.
Submit(c) ==
    /\ runs[c].stage = "new"
    /\ \A k \in DOMAIN Requested[c] :
           sets[Requested[c][k]] # None /\ sets[Requested[c][k]].status = "approved"
    /\ runs' = [runs EXCEPT ![c].stage = "queued", ![c].manifest = FrozenRules(c)]
    /\ UNCHANGED <<standards, sets, rules, approvals, desk, sessions>>

\* _evaluate_threshold.
Complies(d, v) ==
    CASE d.operator = "le" -> v <= d.limit
      [] d.operator = "lt" -> v < d.limit
      [] d.operator = "ge" -> v >= d.limit
      [] d.operator = "gt" -> v > d.limit
      [] d.operator = "eq" -> v = d.limit
      [] OTHER             -> d.limit <= v /\ v <= d.upper

\* evaluate_calculation_rules, for one rule: a metric may be absent from the result.
Evaluation(r, metrics) ==
    LET d == Definition[r] IN
    [rule |-> r, status |-> IF metrics[d.metric] = None THEN "error"
                            ELSE IF Complies(d, metrics[d.metric]) THEN "compliant" ELSE "non_compliant"]

EvaluationsOf(c, metrics) ==
    {Evaluation(r, metrics) : r \in UNION {runs[c].manifest[k] : k \in DOMAIN runs[c].manifest}}

\* A set named twice: its rules would be inserted twice, which uq_rule_evaluation refuses.
Doubled(c) == \E k, n \in DOMAIN runs[c].manifest : k # n /\ runs[c].manifest[k] \cap runs[c].manifest[n] # {}

\* Mutation of Summary: an error of a blocking rule only makes the verdict uncertain.
SummaryLenient(evaluations) ==
    LET blocking     == {e \in evaluations : Definition[e.rule].severity = "blocking" /\ e.status = "non_compliant"}
        reservations == {e \in evaluations : e.status = "non_compliant"} \ blocking
    IN  IF evaluations = {} THEN "not_evaluated"
        ELSE IF blocking # {} THEN "non_compliant"
        ELSE IF reservations # {} THEN "compliant_with_reservations" ELSE "compliant"

\* summarize_rule_evaluations.
Summary(evaluations) ==
    LET blocking     == {e \in evaluations : /\ Definition[e.rule].severity = "blocking"
                                             /\ e.status \in {"non_compliant", "error"}}
        reservations == {e \in evaluations : e.status = "non_compliant"} \ blocking
    IN  IF evaluations = {} THEN "not_evaluated"
        ELSE IF blocking # {} THEN "non_compliant"
        ELSE IF \E e \in evaluations : e.status = "error" THEN "indeterminate"
        ELSE IF reservations # {} THEN "compliant_with_reservations" ELSE "compliant"

Favourable == {"compliant", "compliant_with_reservations"}

\* Mutation of Recorded: the endpoint evaluates again.
RecordedAnew(c, metrics) == EvaluationsOf(c, metrics)

\* Rows that exist are returned as they are.
Recorded(c, metrics) ==
    IF runs[c].evaluations \notin {None, {}} THEN runs[c].evaluations ELSE EvaluationsOf(c, metrics)

\* execute_calculation, once the engine has answered.
Settle(c) ==
    /\ runs[c].stage = "queued" /\ ~Doubled(c)
    /\ \E m \in Measures :
           LET found == Recorded(c, m.metrics) IN
           runs' = [runs EXCEPT ![c].stage = "settled", ![c].evaluations = found,
                       ![c].verdict = [measures |-> m, status |-> Summary(found),
                                       eligible |-> m.approvable /\ Summary(found) \in Favourable]]
    /\ UNCHANGED <<standards, sets, rules, approvals, desk, sessions>>

\* The integrity error of the rows ends the calculation.
SettleNothing(c) ==
    /\ runs[c].stage = "queued" /\ Doubled(c)
    /\ runs' = [runs EXCEPT ![c].stage = "failed"]
    /\ UNCHANGED <<standards, sets, rules, approvals, desk, sessions>>

\* POST /calculations/{id}/evaluations.  The recorded payload has what the first evaluation
\* was given, and what it found: a metric that was absent may be there now.
EvaluateAgain(c) ==
    /\ runs[c].stage = "settled"
    /\ \E m \in {x \in Measures : \A k \in DOMAIN x.metrics :
                     runs[c].verdict.measures.metrics[k] \in {x.metrics[k], None}} :
           runs' = [runs EXCEPT ![c].evaluations = Recorded(c, m.metrics)]
    /\ UNCHANGED <<standards, sets, rules, approvals, desk, sessions>>

GovernanceNext ==
    \/ \E o \in Officers : \/ Begin(o) \/ ComputeHash(o) \/ CommitStandard(o) \/ CommitCreation(o)
                           \/ CommitRule(o) \/ CommitApproval(o) \/ RollBack(o)
    \/ \E c \in Runs : Submit(c) \/ Settle(c) \/ SettleNothing(c) \/ EvaluateAgain(c)

GovernanceSpec == GovernanceInit /\ [][GovernanceNext]_governanceVars

-----------------------------------------------------------------------------
\* Types; an approved set has rules, and a standard it was created with left the drafts for
\* good: an edition that is used cannot be rewritten.
GovernanceTypeOK ==
    /\ standards \in [Standards -> {"draft", "active"} \cup Closed]
    /\ rules \in [Rules -> {None, "draft", "approved"}]
    /\ \A s \in RuleSets : sets[s] # None =>
           /\ sets[s].status \in {"draft", "approved"}
           /\ (sets[s].status = "approved") <=> (approvals[s] # None)
           /\ \A x \in Links[s] : standards[x] # "draft"
    /\ sessions \in [Officers -> 0..MaxSessions]

\* A result is eligible for a decision only if each rule the experts had approved when the
\* sets were approved was measured and, when it is blocking, satisfied: whatever has been
\* created, approved or withdrawn since, and in whatever order it was committed.
DecisionIsJustified ==
    \A c \in Runs :
        runs[c].verdict # None /\ runs[c].verdict.eligible =>
            /\ Requested[c] # <<>>
            /\ \A k \in DOMAIN Requested[c] : \A r \in approvals[Requested[c][k]] :
                   LET v == runs[c].verdict.measures.metrics[Definition[r].metric] IN
                   v # None /\ (Definition[r].severity = "blocking" => Complies(Definition[r], v))

\* The requests for rules of a set that tested its status and have not ended.
Joining(s) == {o \in Officers : desk[o] # None /\ desk[o].op = "rule" /\ desk[o].object = s}

\* What was approved stays: an approved rule is never a draft again, the evaluations of a
\* calculation never change once there are some, and an approved set ("Un jeu approuvé ou
\* archivé est immuable") is joined by no rule but those asked for while it was a draft, and
\* not committed when it was approved.
EvaluationsAreFinal ==
    [][/\ \A r \in Rules : rules[r] = "approved" => rules'[r] = "approved"
       /\ \A c \in Runs : runs[c].evaluations \notin {None, {}} =>
              runs'[c].evaluations = runs[c].evaluations
       /\ \A s \in RuleSets : sets[s] # None /\ sets[s].status = "approved" =>
              /\ sets'[s] # None /\ sets'[s].status = "approved"
              /\ Joining(s)' \subseteq Joining(s)
              /\ Joining(s) = {} => RulesOf(s)' = RulesOf(s)]_governanceVars
=============================================================================
