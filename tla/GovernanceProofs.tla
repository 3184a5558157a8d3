-------------------------- MODULE GovernanceProofs --------------------------
(***************************************************************************)
(* Theorems of RuleGovernance, for any officers, rules and calculations,   *)
(* and whatever the engine measures, and of Catalog, for all curators,     *)
(* codes, contents and revisions, and every interleaving of their requests. *)
(***************************************************************************)
EXTENDS RuleGovernance, Catalog, FiniteSetTheorems, TLAPS

(***************************************************************************)
(* RuleGovernance: what an approved set of rules keeps.                    *)
(***************************************************************************)

ApprovedRules(s) == {r \in RulesOf(s) : rules[r] = "approved"}

IsApproved(s) == sets[s] # None /\ sets[s].status = "approved"

Busy(o, op) == desk[o] # None /\ desk[o].op = op

\* What a set that an expert approved had is there, approved.
SetsInv ==
    /\ sets \in [RuleSets -> {None} \cup SetRecords]
    /\ approvals \in [RuleSets -> {None} \cup SUBSET Rules]
    /\ \A s \in RuleSets : approvals[s] # None => IsApproved(s) /\ approvals[s] \subseteq ApprovedRules(s)
    /\ \A s \in RuleSets : IsApproved(s) => approvals[s] # None
    /\ \A s \in RuleSets : sets[s] # None => \A x \in Links[s] : standards[x] # "draft"

\* Changes of a request, and the hash it has computed.
WellFormed(q) ==
    /\ q = [op |-> q.op, object |-> q.object, change |-> q.change, status |-> q.status,
            hash |-> q.hash, seen |-> q.seen, was |-> q.was]
    /\ DOMAIN q.change \subseteq Rules /\ \A r \in DOMAIN q.change : q.change[r] \in Drafted
    /\ q.hash \in {None} \cup Hashes
    /\ q.op = "standard" => q.object \in Standards /\ q.status \in {"active"} \cup Closed
    /\ q.op \in {"create", "rule", "approve"} => q.object \in RuleSets
    /\ q.op = "rule" => \A r \in DOMAIN q.change : Definition[r].home = q.object
    /\ q.seen \in SUBSET Rules

\* What a request has tested and is still true.
StillTrue(q) ==
    /\ q.op = "create" => \A x \in Links[q.object] : standards[x] # "draft"
    /\ q.op \in {"rule", "approve"} => sets[q.object] # None
    /\ q.op = "approve" => q.seen \subseteq ApprovedRules(q.object)

DeskInv ==
    /\ DOMAIN desk = Officers
    /\ \A o \in Officers : desk[o] # None => WellFormed(desk[o]) /\ StillTrue(desk[o])

RunShape(x) == x = [stage |-> x.stage, manifest |-> x.manifest, evaluations |-> x.evaluations, verdict |-> x.verdict]

\* The manifest has what was approved, and what an approval under way has seen.
Covered(c) ==
    /\ DOMAIN runs[c].manifest = DOMAIN Requested[c]
    /\ \A k \in DOMAIN Requested[c] :
           /\ IsApproved(Requested[c][k])
           /\ approvals[Requested[c][k]] \subseteq runs[c].manifest[k]
           /\ \A o \in Officers : Busy(o, "approve") /\ desk[o].object = Requested[c][k] =>
                  desk[o].seen \subseteq runs[c].manifest[k]

RunsInv ==
    /\ DOMAIN runs = Runs
    /\ \A c \in Runs :
           /\ RunShape(runs[c])
           /\ runs[c].stage \in {"new", "queued"} => runs[c].evaluations = None /\ runs[c].verdict = None
           /\ runs[c].stage # "new" => Covered(c)
           /\ runs[c].verdict # None /\ runs[c].verdict.eligible =>
                  Summary(EvaluationsOf(c, runs[c].verdict.measures.metrics)) \in Favourable

GovernanceInv == GovernanceTypeOK /\ SetsInv /\ DeskInv /\ RunsInv

-----------------------------------------------------------------------------
\* A favourable verdict: there are evaluations, none is an error, no blocking rule is broken.
LEMMA FavourableVerdict ==
    ASSUME NEW E, Summary(E) \in Favourable
    PROVE  /\ E # {}
           /\ \A e \in E : e.status # "error"
           /\ \A e \in E : Definition[e.rule].severity = "blocking" => e.status # "non_compliant"
<1> DEFINE blocking == {e \in E : /\ Definition[e.rule].severity = "blocking"
                                  /\ e.status \in {"non_compliant", "error"}}
           reservations == {e \in E : e.status = "non_compliant"} \ blocking
<1>1. Summary(E) = IF E = {} THEN "not_evaluated"
                   ELSE IF blocking # {} THEN "non_compliant"
                   ELSE IF \E e \in E : e.status = "error" THEN "indeterminate"
                   ELSE IF reservations # {} THEN "compliant_with_reservations" ELSE "compliant"
  BY DEF Summary
<1>2. Summary(E) \notin {"not_evaluated", "non_compliant", "indeterminate"}
  BY DEF Favourable
<1> HIDE DEF reservations
<1>3. E # {} /\ blocking = {} /\ ~\E e \in E : e.status = "error"
  <2> HIDE DEF blocking
  <2> QED
    BY <1>1, <1>2
<1> QED
  BY <1>3

\* The evaluation of a rule tells what was measured.
LEMMA EvaluationTells ==
    ASSUME NEW r, NEW metrics
    PROVE  LET e == Evaluation(r, metrics)
               v == metrics[Definition[r].metric] IN
           /\ e.rule = r
           /\ e.status # "error" => v # None
           /\ e.status \notin {"error", "non_compliant"} => Complies(Definition[r], v)
  BY Zenon DEF Evaluation

LEMMA InvJustifies == GovernanceInv => DecisionIsJustified
<1> SUFFICES ASSUME GovernanceInv, NEW c \in Runs, runs[c].verdict # None, runs[c].verdict.eligible
             PROVE  /\ Requested[c] # <<>>
                    /\ \A k \in DOMAIN Requested[c] : \A r \in approvals[Requested[c][k]] :
                           LET v == runs[c].verdict.measures.metrics[Definition[r].metric] IN
                           v # None /\ (Definition[r].severity = "blocking" => Complies(Definition[r], v))
  BY DEF DecisionIsJustified
<1> DEFINE metrics == runs[c].verdict.measures.metrics
           E == EvaluationsOf(c, metrics)
<1>1. Covered(c) /\ Summary(E) \in Favourable
  BY DEF GovernanceInv, RunsInv
<1>2. /\ E # {}
      /\ \A e \in E : e.status # "error"
      /\ \A e \in E : Definition[e.rule].severity = "blocking" => e.status # "non_compliant"
  <2> HIDE DEF E
  <2> QED
    BY <1>1, FavourableVerdict
<1>3. DOMAIN Requested[c] # {}
  BY <1>1, <1>2 DEF EvaluationsOf, Covered
<1>4. ASSUME NEW k \in DOMAIN Requested[c], NEW r \in approvals[Requested[c][k]]
      PROVE  /\ metrics[Definition[r].metric] # None
             /\ Definition[r].severity = "blocking" => Complies(Definition[r], metrics[Definition[r].metric])
  <2> DEFINE e == Evaluation(r, metrics)
  <2>1. r \in UNION {runs[c].manifest[n] : n \in DOMAIN runs[c].manifest}
    BY <1>1 DEF Covered
  <2>2. e \in E
    BY <2>1 DEF EvaluationsOf
  <2>3. e.rule = r /\ (e.status # "error" => metrics[Definition[r].metric] # None)
        /\ (e.status \notin {"error", "non_compliant"} => Complies(Definition[r], metrics[Definition[r].metric]))
    BY EvaluationTells, Zenon
  <2> HIDE DEF e, E, metrics
  <2> QED
    BY <1>2, <2>2, <2>3
<1> QED
  BY <1>3, <1>4

-----------------------------------------------------------------------------
LEMMA InitHolds == GovernanceInit => GovernanceInv
<1> SUFFICES ASSUME GovernanceInit PROVE GovernanceInv
  OBVIOUS
<1>1. GovernanceTypeOK
  BY GovernanceAssumption DEF GovernanceInit, GovernanceTypeOK
<1>2. SetsInv
  BY DEF GovernanceInit, SetsInv, IsApproved
<1>3. DeskInv
  BY DEF GovernanceInit, DeskInv
<1>4. RunsInv
  BY DEF GovernanceInit, RunsInv, RunShape
<1> QED
  BY <1>1, <1>2, <1>3, <1>4 DEF GovernanceInv

\* What no step takes back.
Growth ==
    /\ \A x \in Standards : standards[x] # "draft" => standards'[x] # "draft"
    /\ \A s \in RuleSets : sets[s] # None => sets'[s] # None
    /\ \A s \in RuleSets : IsApproved(s) => IsApproved(s)'
    /\ \A s \in RuleSets : ApprovedRules(s) \subseteq ApprovedRules(s)'

\* Approvals under way are those of before, or of sets that are not approved.
ApprovalsFollow ==
    \A o \in Officers : Busy(o, "approve")' =>
        \/ Busy(o, "approve") /\ desk'[o].object = desk[o].object /\ desk'[o].seen = desk[o].seen
        \/ ~IsApproved(desk'[o].object)

\* What was approved is what an approval under way had seen.
ApprovalsGrow ==
    \A s \in RuleSets : \/ approvals'[s] = approvals[s]
                        \/ \E o \in Officers : Busy(o, "approve") /\ desk[o].object = s /\ approvals'[s] = desk[o].seen

LEMMA RequestKept ==
    ASSUME GovernanceInv, Growth, NEW o \in Officers, desk[o] # None, desk'[o] = desk[o]
    PROVE  WellFormed(desk[o])' /\ StillTrue(desk[o])'
<1>1. WellFormed(desk[o]) /\ StillTrue(desk[o])
  BY DEF GovernanceInv, DeskInv
<1>2. WellFormed(desk[o])'
  BY <1>1 DEF WellFormed
<1>3. desk[o].op \in {"create", "rule", "approve"} => desk[o].object \in RuleSets /\ Links[desk[o].object] \subseteq Standards
  BY <1>1, GovernanceAssumption DEF WellFormed
<1>4. StillTrue(desk[o])'
  BY <1>1, <1>3 DEF StillTrue, Growth
<1> QED
  BY <1>2, <1>4

LEMMA RequestedSets == \A c \in Runs : \A k \in DOMAIN Requested[c] : Requested[c][k] \in RuleSets
  BY GovernanceAssumption

LEMMA RunsKept ==
    ASSUME GovernanceInv, Growth, ApprovalsFollow, ApprovalsGrow, UNCHANGED runs
    PROVE  RunsInv'
<1>1. SUFFICES ASSUME NEW c \in Runs, Covered(c) PROVE Covered(c)'
  BY DEF GovernanceInv, RunsInv, RunShape, EvaluationsOf
<1>2. SUFFICES ASSUME NEW k \in DOMAIN Requested[c]
               PROVE  /\ IsApproved(Requested[c][k])'
                      /\ approvals'[Requested[c][k]] \subseteq runs[c].manifest[k]
                      /\ \A o \in Officers : Busy(o, "approve")' /\ desk'[o].object = Requested[c][k] =>
                             desk'[o].seen \subseteq runs[c].manifest[k]
  BY <1>1 DEF Covered
<1> DEFINE s == Requested[c][k]
<1>3. s \in RuleSets
  BY RequestedSets
<1>4. /\ IsApproved(s) /\ approvals[s] \subseteq runs[c].manifest[k]
      /\ \A o \in Officers : Busy(o, "approve") /\ desk[o].object = s => desk[o].seen \subseteq runs[c].manifest[k]
  BY <1>1 DEF Covered
<1> HIDE DEF s
<1>5. IsApproved(s)'
  BY <1>3, <1>4 DEF Growth, s
<1>6. approvals'[s] \subseteq runs[c].manifest[k]
  BY <1>3, <1>4 DEF ApprovalsGrow
<1>7. ASSUME NEW o \in Officers, Busy(o, "approve")', desk'[o].object = s
      PROVE  desk'[o].seen \subseteq runs[c].manifest[k]
  BY <1>4, <1>7 DEF ApprovalsFollow
<1> QED
  BY <1>5, <1>6, <1>7 DEF s

\* A step that changes the desk, and neither the rules nor what is approved.
LEMMA DeskStep ==
    ASSUME GovernanceInv, UNCHANGED <<standards, sets, rules, approvals, runs>>, ApprovalsFollow, DeskInv',
           sessions' \in [Officers -> 0..MaxSessions]
    PROVE  GovernanceInv'
<1>1. Growth /\ ApprovalsGrow
  BY DEF Growth, ApprovalsGrow, IsApproved, ApprovedRules, RulesOf
<1>2. RunsInv'
  BY <1>1, RunsKept
<1>3. SetsInv'
  BY DEF GovernanceInv, SetsInv, IsApproved, ApprovedRules, RulesOf
<1>4. GovernanceTypeOK'
  BY DEF GovernanceInv, GovernanceTypeOK
<1> QED
  BY <1>2, <1>3, <1>4 DEF GovernanceInv

LEMMA BeginKeeps == ASSUME GovernanceInv, NEW o \in Officers, Begin(o) PROVE GovernanceInv'
<1>1. PICK q \in StandardRequests \cup CreationRequests \cup RuleRequests \cup ApprovalRequests :
          desk' = [desk EXCEPT ![o] = q]
  BY DEF Begin
<1>2. UNCHANGED <<standards, sets, rules, approvals, runs>>
  BY DEF Begin
<1>3. sessions' \in [Officers -> 0..MaxSessions]
  BY GovernanceAssumption DEF Begin, GovernanceInv, GovernanceTypeOK
<1>4. WellFormed(q) /\ StillTrue(q) /\ (q.op = "approve" => ~IsApproved(q.object))
  <2>1. CASE q \in StandardRequests
    BY <2>1 DEF StandardRequests, Request, NoChange, WellFormed, StillTrue, Closed
  <2>2. CASE q \in CreationRequests
    <3>1. PICK s \in RuleSets : /\ \A x \in Links[s] : standards[x] = "active"
                               /\ q = Request("create", s, NoChange, "draft")
      BY <2>2 DEF CreationRequests
    <3> QED
      BY <3>1 DEF Request, NoChange, WellFormed, StillTrue
  <2>3. CASE q \in RuleRequests
    <3>1. PICK r \in Rules, st \in Drafted, st2 \in {None} :
              IsDraft(Definition[r].home) /\ q = Request("rule", Definition[r].home, [x \in {r} |-> st], st2)
      BY <2>3 DEF RuleRequests, Drafted
    <3>2. Definition[r].home \in RuleSets /\ sets[Definition[r].home] # None
      BY <3>1, GovernanceAssumption DEF IsDraft
    <3> QED
      BY <3>1, <3>2 DEF Request, WellFormed, StillTrue
  <2>4. CASE q \in ApprovalRequests
    <3>1. PICK s \in RuleSets :
              MayApprove(s) /\ q = [Request("approve", s, NoChange, "approved") EXCEPT !.seen = RulesOf(s)]
      BY <2>4 DEF ApprovalRequests
    <3>2. q = [op |-> "approve", object |-> s, change |-> NoChange, status |-> "approved", hash |-> None,
               seen |-> RulesOf(s), was |-> sets[s].hash]
      BY <3>1 DEF Request
    <3>3. RulesOf(s) \subseteq ApprovedRules(s) /\ IsDraft(s) /\ RulesOf(s) \in SUBSET Rules
      BY <3>1 DEF MayApprove, ApprovedRules, RulesOf
    <3> QED
      BY <3>2, <3>3 DEF NoChange, WellFormed, StillTrue, IsDraft, IsApproved
  <2> QED
    BY <2>1, <2>2, <2>3, <2>4
<1>5. Growth
  BY <1>2 DEF Growth, IsApproved, ApprovedRules, RulesOf
<1>6. \A n \in Officers : desk'[n] = IF n = o THEN q ELSE desk[n]
  BY <1>1 DEF GovernanceInv, DeskInv
<1>7. WellFormed(desk[o])' /\ StillTrue(desk[o])'
  BY <1>2, <1>4, <1>6 DEF WellFormed, StillTrue, ApprovedRules, RulesOf
<1>8. DeskInv'
  <2>1. DOMAIN desk' = Officers
    BY <1>1 DEF GovernanceInv, DeskInv
  <2>2. ASSUME NEW n \in Officers, desk'[n] # None PROVE WellFormed(desk[n])' /\ StillTrue(desk[n])'
    BY <1>5, <1>6, <1>7, <2>2, RequestKept
  <2> QED
    BY <2>1, <2>2 DEF DeskInv
<1>9. ApprovalsFollow
  BY <1>2, <1>4, <1>6 DEF ApprovalsFollow, Busy, IsApproved
<1> QED
  BY <1>2, <1>3, <1>8, <1>9, DeskStep

LEMMA HashIsTyped ==
    ASSUME GovernanceInv, NEW s, NEW change, DOMAIN change \subseteq Rules, \A r \in DOMAIN change : change[r] \in Drafted
    PROVE  Fingerprint(s, change) \in Hashes
<1>1. \A r \in RulesOf(s) : r \in Rules /\ rules[r] \in Drafted
  BY DEF RulesOf, GovernanceInv, GovernanceTypeOK, Drafted
<1> QED
  BY <1>1 DEF Fingerprint, Hashes

LEMMA ComputeHashKeeps == ASSUME GovernanceInv, NEW o \in Officers, ComputeHash(o) PROVE GovernanceInv'
<1> DEFINE h == Fingerprint(desk[o].object, desk[o].change)
<1>1. WellFormed(desk[o]) /\ StillTrue(desk[o]) /\ desk[o] # None
  BY DEF GovernanceInv, DeskInv, ComputeHash
<1>2. h \in Hashes
  BY <1>1, HashIsTyped DEF WellFormed
<1>3. UNCHANGED <<standards, sets, rules, approvals, runs>> /\ desk' = [desk EXCEPT ![o].hash = h]
  BY DEF ComputeHash
<1> HIDE DEF h
<1>4. \A n \in Officers \ {o} : desk'[n] = desk[n]
  BY <1>3 DEF GovernanceInv, DeskInv
<1>5. desk'[o] = [op |-> desk[o].op, object |-> desk[o].object, change |-> desk[o].change,
                  status |-> desk[o].status, hash |-> h, seen |-> desk[o].seen, was |-> desk[o].was]
  <2>1. desk'[o] = [desk[o] EXCEPT !.hash = h]
    BY <1>3 DEF GovernanceInv, DeskInv
  <2> QED
    BY <1>1, <2>1 DEF WellFormed
<1>6. Growth
  BY <1>3 DEF Growth, IsApproved, ApprovedRules, RulesOf
<1>7. WellFormed(desk[o])' /\ StillTrue(desk[o])'
  BY <1>1, <1>2, <1>3, <1>5 DEF WellFormed, StillTrue, ApprovedRules, RulesOf
<1>8. DeskInv'
  <2>1. DOMAIN desk' = Officers
    BY <1>3 DEF GovernanceInv, DeskInv
  <2>2. ASSUME NEW n \in Officers, desk'[n] # None PROVE WellFormed(desk[n])' /\ StillTrue(desk[n])'
    BY <1>4, <1>6, <1>7, <2>2, RequestKept
  <2> QED
    BY <2>1, <2>2 DEF DeskInv
<1>9. ApprovalsFollow
  BY <1>1, <1>4, <1>5 DEF ApprovalsFollow, Busy
<1>10. sessions' \in [Officers -> 0..MaxSessions]
  BY DEF ComputeHash, GovernanceInv, GovernanceTypeOK
<1> QED
  BY <1>3, <1>8, <1>9, <1>10, DeskStep

-----------------------------------------------------------------------------
\* A request that ends.
LEMMA LeaveKeeps ==
    ASSUME GovernanceInv, Growth, ApprovalsGrow, NEW o \in Officers, Leave(o)
    PROVE  DeskInv' /\ RunsInv' /\ sessions' \in [Officers -> 0..MaxSessions]
<1>1. /\ desk' = [desk EXCEPT ![o] = None] /\ UNCHANGED runs
      /\ sessions' \in [Officers -> 0..MaxSessions]
  BY DEF Leave, GovernanceInv, GovernanceTypeOK
<1>2. DOMAIN desk' = Officers /\ desk'[o] = None /\ \A n \in Officers \ {o} : desk'[n] = desk[n]
  BY <1>1 DEF GovernanceInv, DeskInv
<1>3. DeskInv'
  <2>1. ASSUME NEW n \in Officers, desk'[n] # None PROVE WellFormed(desk[n])' /\ StillTrue(desk[n])'
    BY <1>2, <2>1, RequestKept
  <2> QED
    BY <1>2, <2>1 DEF DeskInv
<1>4. ApprovalsFollow
  BY <1>2 DEF ApprovalsFollow, Busy
<1> QED
  BY <1>1, <1>3, <1>4, RunsKept

LEMMA RollBackKeeps == ASSUME GovernanceInv, NEW o \in Officers, RollBack(o) PROVE GovernanceInv'
<1>1. Growth /\ ApprovalsGrow
  BY DEF RollBack, Growth, ApprovalsGrow, IsApproved, ApprovedRules, RulesOf
<1>2. DeskInv' /\ RunsInv' /\ sessions' \in [Officers -> 0..MaxSessions]
  BY <1>1, LeaveKeeps DEF RollBack
<1> QED
  BY <1>2 DEF RollBack, GovernanceInv, GovernanceTypeOK, SetsInv, IsApproved, ApprovedRules, RulesOf

LEMMA CommitStandardKeeps == ASSUME GovernanceInv, NEW o \in Officers, CommitStandard(o) PROVE GovernanceInv'
<1>1. desk[o].object \in Standards /\ desk[o].status \in {"active"} \cup Closed
  BY DEF CommitStandard, GovernanceInv, DeskInv, WellFormed
<1>2. /\ standards' = [standards EXCEPT ![desk[o].object] = desk[o].status]
      /\ Leave(o) /\ UNCHANGED <<sets, rules, approvals>>
  BY DEF CommitStandard
<1>3. standards \in [Standards -> {"draft", "active"} \cup Closed]
  BY DEF GovernanceInv, GovernanceTypeOK
<1>4. /\ standards' \in [Standards -> {"draft", "active"} \cup Closed]
      /\ \A x \in Standards : standards[x] # "draft" => standards'[x] # "draft"
  BY <1>1, <1>2, <1>3 DEF Closed
<1>5. Growth /\ ApprovalsGrow
  BY <1>2, <1>4 DEF Growth, ApprovalsGrow, IsApproved, ApprovedRules, RulesOf
<1>6. DeskInv' /\ RunsInv' /\ sessions' \in [Officers -> 0..MaxSessions]
  BY <1>2, <1>5, LeaveKeeps
<1>7. SetsInv'
  BY <1>2, <1>4, GovernanceAssumption DEF GovernanceInv, SetsInv, IsApproved, ApprovedRules, RulesOf
<1>8. GovernanceTypeOK'
  BY <1>2, <1>4, <1>6, GovernanceAssumption DEF GovernanceInv, GovernanceTypeOK
<1> QED
  BY <1>6, <1>7, <1>8 DEF GovernanceInv

LEMMA CommitCreationKeeps == ASSUME GovernanceInv, NEW o \in Officers, CommitCreation(o) PROVE GovernanceInv'
<1> DEFINE s == desk[o].object
           h == desk[o].hash
<1>1. /\ s \in RuleSets /\ h \in Hashes /\ sets[s] = None
      /\ \A x \in Links[s] : standards[x] # "draft"
  BY DEF CommitCreation, GovernanceInv, DeskInv, WellFormed, StillTrue
<1>2. /\ sets' = [sets EXCEPT ![s] = [status |-> "draft", hash |-> h]]
      /\ Leave(o) /\ UNCHANGED <<standards, rules, approvals>>
  BY DEF CommitCreation
<1> HIDE DEF s, h
<1>3. [status |-> "draft", hash |-> h] \in SetRecords
  BY <1>1 DEF SetRecords, Drafted
<1>4. SetsInv
  BY DEF GovernanceInv
<1>5. /\ sets' \in [RuleSets -> {None} \cup SetRecords]
      /\ sets'[s] # None /\ sets'[s].status = "draft"
      /\ \A t \in RuleSets \ {s} : sets'[t] = sets[t]
  BY <1>1, <1>2, <1>3, <1>4, NoneAssumption DEF SetsInv
<1>6. approvals[s] = None
  BY <1>1, <1>4 DEF SetsInv, IsApproved
<1>7. Growth /\ ApprovalsGrow
  BY <1>1, <1>2, <1>5 DEF Growth, ApprovalsGrow, IsApproved, ApprovedRules, RulesOf
<1>8. DeskInv' /\ RunsInv' /\ sessions' \in [Officers -> 0..MaxSessions]
  BY <1>2, <1>7, LeaveKeeps
<1>9. SetsInv'
  <2>1. \A t \in RuleSets : approvals'[t] # None => IsApproved(t)' /\ approvals'[t] \subseteq ApprovedRules(t)'
    BY <1>2, <1>4, <1>5, <1>6 DEF SetsInv, IsApproved, ApprovedRules, RulesOf
  <2>2. \A t \in RuleSets : IsApproved(t)' => approvals'[t] # None
    BY <1>2, <1>4, <1>5 DEF SetsInv, IsApproved
  <2>3. \A t \in RuleSets : sets'[t] # None => \A x \in Links[t] : standards'[x] # "draft"
    BY <1>1, <1>2, <1>4, <1>5 DEF SetsInv
  <2>4. approvals' \in [RuleSets -> {None} \cup SUBSET Rules]
    BY <1>2, <1>4 DEF SetsInv
  <2> QED
    BY <1>5, <2>1, <2>2, <2>3, <2>4 DEF SetsInv
<1>10. GovernanceTypeOK'
  <2>1. \A t \in RuleSets : sets'[t] # None => sets'[t].status \in {"draft", "approved"}
    BY <1>5 DEF SetRecords, Drafted
  <2> QED
    BY <1>2, <1>8, <1>9, <2>1 DEF GovernanceInv, GovernanceTypeOK, SetsInv, IsApproved
<1> QED
  BY <1>8, <1>9, <1>10 DEF GovernanceInv

LEMMA HashedIsTyped ==
    ASSUME GovernanceInv, NEW o \in Officers, desk[o] # None, desk[o].hash # None,
           desk[o].op \in {"rule", "approve"}
    PROVE  Hashed(o) \in Hashes
<1>1. WellFormed(desk[o]) /\ StillTrue(desk[o])
  BY DEF GovernanceInv, DeskInv
<1>2. desk[o].hash \in Hashes /\ desk[o].object \in RuleSets /\ sets[desk[o].object] # None
  BY <1>1 DEF WellFormed, StillTrue
<1>3. sets[desk[o].object] \in SetRecords
  BY <1>2 DEF GovernanceInv, SetsInv
<1> QED
  BY <1>2, <1>3 DEF Hashed, SetRecords

LEMMA CommitRuleKeeps == ASSUME GovernanceInv, NEW o \in Officers, CommitRule(o) PROVE GovernanceInv'
<1> DEFINE s == desk[o].object
           h == Hashed(o)
           change == desk[o].change
<1>1. /\ s \in RuleSets /\ h \in Hashes /\ sets[s] # None
      /\ DOMAIN change \subseteq Rules /\ \A r \in DOMAIN change : change[r] \in Drafted
      /\ \A r \in DOMAIN change : change[r] = "draft" => rules[r] = None
  BY HashedIsTyped DEF CommitRule, GovernanceInv, DeskInv, WellFormed, StillTrue
<1>2. /\ rules' = [r \in Rules |-> IF r \in DOMAIN change THEN change[r] ELSE rules[r]]
      /\ sets' = [sets EXCEPT ![s].hash = h]
      /\ Leave(o) /\ UNCHANGED <<standards, approvals>>
  BY DEF CommitRule
<1> HIDE DEF s, h, change
<1>3. SetsInv
  BY DEF GovernanceInv
<1>4. sets[s] \in SetRecords
  BY <1>1, <1>3 DEF SetsInv
<1>5. /\ sets'[s] \in SetRecords /\ sets'[s].status = sets[s].status
      /\ \A t \in RuleSets \ {s} : sets'[t] = sets[t]
      /\ DOMAIN sets' = RuleSets /\ sets' = [t \in RuleSets |-> sets'[t]]
  <2>1. sets'[s] = [sets[s] EXCEPT !.hash = h]
    BY <1>1, <1>2, <1>3 DEF SetsInv
  <2>2. sets'[s] \in SetRecords /\ sets'[s].status = sets[s].status
    BY <1>1, <1>4, <2>1 DEF SetRecords
  <2> QED
    BY <1>1, <1>2, <1>3, <2>2 DEF SetsInv
<1>6. \A t \in RuleSets : /\ (sets'[t] # None) = (sets[t] # None)
                         /\ IsApproved(t)' = IsApproved(t)
  BY <1>1, <1>5, NoneAssumption DEF IsApproved
<1>7. /\ \A r \in Rules : rules[r] # None => rules'[r] # None
      /\ \A r \in Rules : rules[r] = "approved" => rules'[r] = "approved"
      /\ rules' \in [Rules -> {None, "draft", "approved"}]
  <2>1. ASSUME NEW r \in Rules PROVE /\ rules[r] # None => rules'[r] # None
                                     /\ rules[r] = "approved" => rules'[r] = "approved"
                                     /\ rules'[r] \in {None, "draft", "approved"}
    <3>1. CASE r \in DOMAIN change
      BY <1>1, <1>2, <3>1, NoneAssumption DEF Drafted
    <3>2. CASE r \notin DOMAIN change
      BY <1>2, <3>2 DEF GovernanceInv, GovernanceTypeOK
    <3> QED
      BY <3>1, <3>2
  <2> QED
    BY <1>2, <2>1
<1>8. \A t \in RuleSets : ApprovedRules(t) \subseteq ApprovedRules(t)'
  BY <1>7 DEF ApprovedRules, RulesOf
<1>9. Growth /\ ApprovalsGrow
  <2>1. ApprovalsGrow
    BY <1>2 DEF ApprovalsGrow
  <2>2. \A t \in RuleSets : (sets[t] # None => sets'[t] # None) /\ (IsApproved(t) => IsApproved(t)')
    BY <1>6 DEF IsApproved
  <2> QED
    BY <1>2, <1>8, <2>1, <2>2 DEF Growth
<1>10. DeskInv' /\ RunsInv' /\ sessions' \in [Officers -> 0..MaxSessions]
  BY <1>2, <1>9, LeaveKeeps
<1>11. SetsInv'
  <2>1. \A t \in RuleSets : sets'[t] \in {None} \cup SetRecords
    BY <1>3, <1>5 DEF SetsInv
  <2>2. sets' \in [RuleSets -> {None} \cup SetRecords]
    BY <1>5, <2>1
  <2> QED
    <3>1. approvals' \in [RuleSets -> {None} \cup SUBSET Rules]
      BY <1>2, <1>3 DEF SetsInv
    <3>2. ASSUME NEW t \in RuleSets
          PROVE  /\ approvals'[t] # None => IsApproved(t)' /\ approvals'[t] \subseteq ApprovedRules(t)'
                 /\ IsApproved(t)' => approvals'[t] # None
                 /\ sets'[t] # None => \A x \in Links[t] : standards'[x] # "draft"
      BY <1>2, <1>3, <1>6, <1>8 DEF SetsInv, IsApproved
    <3> QED
      BY <2>2, <3>1, <3>2 DEF SetsInv
<1>12. GovernanceTypeOK'
  <2>1. \A t \in RuleSets : sets'[t] # None => sets'[t].status \in {"draft", "approved"}
    BY <1>11 DEF SetsInv, SetRecords, Drafted
  <2> QED
    BY <1>2, <1>7, <1>10, <1>11, <2>1 DEF GovernanceInv, GovernanceTypeOK, SetsInv, IsApproved
<1> QED
  BY <1>10, <1>11, <1>12 DEF GovernanceInv

LEMMA CommitApprovalKeeps == ASSUME GovernanceInv, NEW o \in Officers, CommitApproval(o) PROVE GovernanceInv'
<1> DEFINE s == desk[o].object
           h == Hashed(o)
<1>1. /\ s \in RuleSets /\ h \in Hashes /\ sets[s] # None
      /\ desk[o].seen \in SUBSET Rules /\ desk[o].seen \subseteq ApprovedRules(s) /\ Busy(o, "approve")
  BY HashedIsTyped DEF CommitApproval, GovernanceInv, DeskInv, WellFormed, StillTrue, Busy
<1>2. /\ sets' = [sets EXCEPT ![s] = [status |-> "approved", hash |-> h]]
      /\ approvals' = [approvals EXCEPT ![s] = desk[o].seen]
      /\ Leave(o) /\ UNCHANGED <<standards, rules>>
  BY DEF CommitApproval
<1> HIDE DEF h
<1>3. [status |-> "approved", hash |-> h] \in SetRecords
  BY <1>1 DEF SetRecords, Drafted
<1>4. SetsInv
  BY DEF GovernanceInv
<1>5. /\ sets' \in [RuleSets -> {None} \cup SetRecords]
      /\ sets'[s] # None /\ sets'[s].status = "approved"
      /\ \A t \in RuleSets \ {s} : sets'[t] = sets[t]
  BY <1>1, <1>2, <1>3, <1>4, NoneAssumption DEF SetsInv
<1>6. /\ approvals' \in [RuleSets -> {None} \cup SUBSET Rules]
      /\ approvals'[s] = desk[o].seen /\ approvals'[s] # None
      /\ \A t \in RuleSets \ {s} : approvals'[t] = approvals[t]
  BY <1>1, <1>2, <1>4, NoneAssumption DEF SetsInv
<1>7. Growth
  BY <1>1, <1>2, <1>5 DEF Growth, IsApproved, ApprovedRules, RulesOf
<1>8. ApprovalsGrow
  BY <1>1, <1>6 DEF ApprovalsGrow
<1>9. DeskInv' /\ RunsInv' /\ sessions' \in [Officers -> 0..MaxSessions]
  BY <1>2, <1>7, <1>8, LeaveKeeps
<1>10. SetsInv'
  <2>1. ASSUME NEW t \in RuleSets
        PROVE  /\ approvals'[t] # None => IsApproved(t)' /\ approvals'[t] \subseteq ApprovedRules(t)'
               /\ IsApproved(t)' => approvals'[t] # None
               /\ sets'[t] # None => \A x \in Links[t] : standards'[x] # "draft"
    <3>1. CASE t = s
      BY <1>1, <1>2, <1>4, <1>5, <1>6, <3>1 DEF SetsInv, IsApproved, ApprovedRules, RulesOf
    <3>2. CASE t # s
      BY <1>2, <1>4, <1>5, <1>6, <3>2 DEF SetsInv, IsApproved, ApprovedRules, RulesOf
    <3> QED
      BY <3>1, <3>2
  <2> QED
    BY <1>5, <1>6, <2>1 DEF SetsInv
<1>11. GovernanceTypeOK'
  <2>1. \A t \in RuleSets : sets'[t] # None => sets'[t].status \in {"draft", "approved"}
    BY <1>5 DEF SetRecords, Drafted
  <2> QED
    BY <1>2, <1>9, <1>10, <2>1 DEF GovernanceInv, GovernanceTypeOK, SetsInv, IsApproved
<1> QED
  BY <1>9, <1>10, <1>11 DEF GovernanceInv

-----------------------------------------------------------------------------
\* A step of a calculation leaves the rules and the desk alone.
LEMMA RunStep ==
    ASSUME GovernanceInv, UNCHANGED <<standards, sets, rules, approvals, desk, sessions>>,
           DOMAIN runs' = Runs, NEW c \in Runs, \A d \in Runs \ {c} : runs'[d] = runs[d],
           RunShape(runs[c])',
           runs'[c].stage \in {"new", "queued"} => runs'[c].evaluations = None /\ runs'[c].verdict = None,
           runs'[c].stage # "new" => Covered(c)',
           runs'[c].verdict # None /\ runs'[c].verdict.eligible =>
               Summary(EvaluationsOf(c, runs[c].verdict.measures.metrics))' \in Favourable
    PROVE  GovernanceInv'
<1>1. ASSUME NEW d \in Runs
      PROVE  /\ RunShape(runs[d])'
             /\ runs'[d].stage \in {"new", "queued"} => runs'[d].evaluations = None /\ runs'[d].verdict = None
             /\ runs'[d].stage # "new" => Covered(d)'
             /\ runs'[d].verdict # None /\ runs'[d].verdict.eligible =>
                    Summary(EvaluationsOf(d, runs[d].verdict.measures.metrics))' \in Favourable
  <2>1. CASE d = c
    BY <2>1
  <2>2. CASE d # c
    <3>1. runs'[d] = runs[d]
      BY <2>2
    <3>2. Covered(d) => Covered(d)'
      BY <3>1 DEF Covered, IsApproved, Busy
    <3>3. EvaluationsOf(d, runs[d].verdict.measures.metrics)' = EvaluationsOf(d, runs[d].verdict.measures.metrics)
      BY <3>1, Zenon DEF EvaluationsOf
    <3>4. Summary(EvaluationsOf(d, runs[d].verdict.measures.metrics))' = Summary(EvaluationsOf(d, runs[d].verdict.measures.metrics))
      BY <3>3, Zenon DEF Summary
    <3> QED
      BY <3>1, <3>2, <3>4 DEF GovernanceInv, RunsInv, RunShape
  <2> QED
    BY <2>1, <2>2
<1>2. RunsInv'
  BY <1>1 DEF RunsInv
<1>3. DeskInv'
  BY DEF GovernanceInv, DeskInv, WellFormed, StillTrue, ApprovedRules, RulesOf
<1> QED
  BY <1>2, <1>3 DEF GovernanceInv, GovernanceTypeOK, SetsInv, IsApproved, ApprovedRules, RulesOf

LEMMA SubmitKeeps == ASSUME GovernanceInv, NEW c \in Runs, Submit(c) PROVE GovernanceInv'
<1>1. /\ UNCHANGED <<standards, sets, rules, approvals, desk, sessions>>
      /\ runs' = [runs EXCEPT ![c].stage = "queued", ![c].manifest = FrozenRules(c)]
      /\ runs[c].stage = "new" /\ \A k \in DOMAIN Requested[c] : IsApproved(Requested[c][k])
  BY DEF Submit, IsApproved
<1>2. RunShape(runs[c]) /\ runs[c].evaluations = None /\ runs[c].verdict = None /\ DOMAIN runs = Runs
  BY <1>1 DEF GovernanceInv, RunsInv
<1> DEFINE frozen == FrozenRules(c)
<1>3. /\ DOMAIN runs' = Runs /\ \A d \in Runs \ {c} : runs'[d] = runs[d]
      /\ runs'[c] = [stage |-> "queued", manifest |-> frozen, evaluations |-> None, verdict |-> None]
  <2> HIDE DEF frozen
  <2>1. runs'[c] = [[runs[c] EXCEPT !.stage = "queued"] EXCEPT !.manifest = frozen]
    BY <1>1, <1>2 DEF frozen
  <2>2. runs'[c] = [stage |-> "queued", manifest |-> frozen, evaluations |-> None, verdict |-> None]
    BY <1>2, <2>1 DEF RunShape
  <2> QED
    BY <1>1, <1>2, <2>2
<1>4. /\ DOMAIN frozen = DOMAIN Requested[c]
      /\ \A k \in DOMAIN Requested[c] : frozen[k] = ApprovedRules(Requested[c][k])
  BY DEF FrozenRules, ApprovedRules
<1> HIDE DEF frozen
<1>5. Covered(c)'
  <2>1. ASSUME NEW k \in DOMAIN Requested[c]
        PROVE  /\ IsApproved(Requested[c][k])'
               /\ approvals'[Requested[c][k]] \subseteq frozen[k]
               /\ \A o \in Officers : Busy(o, "approve")' /\ desk'[o].object = Requested[c][k] =>
                      desk'[o].seen \subseteq frozen[k]
    <3>1. Requested[c][k] \in RuleSets /\ IsApproved(Requested[c][k])
      BY <1>1, RequestedSets
    <3>2. approvals[Requested[c][k]] \subseteq frozen[k]
      BY <1>4, <3>1 DEF GovernanceInv, SetsInv
    <3>3. ASSUME NEW o \in Officers, Busy(o, "approve"), desk[o].object = Requested[c][k]
          PROVE  desk[o].seen \subseteq frozen[k]
      BY <1>4, <3>3 DEF GovernanceInv, DeskInv, StillTrue, Busy
    <3> QED
      BY <1>1, <3>1, <3>2, <3>3 DEF IsApproved, Busy
  <2> QED
    BY <1>3, <1>4, <2>1 DEF Covered
<1>6. RunShape(runs[c])'
  BY <1>3 DEF RunShape
<1> QED
  BY <1>1, <1>3, <1>5, <1>6, RunStep

LEMMA CoverageStays ==
    ASSUME NEW c \in Runs, Covered(c), UNCHANGED <<sets, approvals, desk>>, runs'[c].manifest = runs[c].manifest
    PROVE  Covered(c)'
  BY DEF Covered, IsApproved, Busy

LEMMA EvaluationsStay ==
    ASSUME NEW c \in Runs, runs'[c].manifest = runs[c].manifest, NEW m,
           Summary(EvaluationsOf(c, m)) \in Favourable, m = runs'[c].verdict.measures.metrics
    PROVE  Summary(EvaluationsOf(c, runs[c].verdict.measures.metrics))' \in Favourable
<1>1. EvaluationsOf(c, runs[c].verdict.measures.metrics)' = EvaluationsOf(c, m)
  BY Zenon DEF EvaluationsOf
<1>2. Summary(EvaluationsOf(c, runs[c].verdict.measures.metrics))' = Summary(EvaluationsOf(c, m))
  BY <1>1, Zenon DEF Summary
<1> QED
  BY <1>2

LEMMA SettleKeeps == ASSUME GovernanceInv, NEW c \in Runs, Settle(c) PROVE GovernanceInv'
<1>1. PICK m \in Measures :
          runs' = [runs EXCEPT ![c].stage = "settled", ![c].evaluations = Recorded(c, m.metrics),
                      ![c].verdict = [measures |-> m, status |-> Summary(Recorded(c, m.metrics)),
                                      eligible |-> m.approvable /\ Summary(Recorded(c, m.metrics)) \in Favourable]]
  BY DEF Settle
<1>2. runs[c].stage = "queued" /\ UNCHANGED <<standards, sets, rules, approvals, desk, sessions>>
  BY DEF Settle
<1>3. RunShape(runs[c]) /\ Covered(c) /\ runs[c].evaluations = None /\ DOMAIN runs = Runs
  BY <1>2 DEF GovernanceInv, RunsInv
<1> DEFINE found   == Recorded(c, m.metrics)
           verdict == [measures |-> m, status |-> Summary(found),
                       eligible |-> m.approvable /\ Summary(found) \in Favourable]
<1>4. found = EvaluationsOf(c, m.metrics)
  BY <1>3 DEF Recorded
<1>5. verdict.measures = m /\ (verdict.eligible => Summary(found) \in Favourable)
  OBVIOUS
<1>6. runs' = [runs EXCEPT ![c].stage = "settled", ![c].evaluations = found, ![c].verdict = verdict]
  BY <1>1
<1> HIDE DEF found, verdict
<1>7. /\ DOMAIN runs' = Runs /\ \A d \in Runs \ {c} : runs'[d] = runs[d]
      /\ runs'[c] = [stage |-> "settled", manifest |-> runs[c].manifest, evaluations |-> found, verdict |-> verdict]
  <2>1. runs'[c] = [[[runs[c] EXCEPT !.stage = "settled"] EXCEPT !.evaluations = found] EXCEPT !.verdict = verdict]
    BY <1>3, <1>6
  <2>2. runs'[c] = [stage |-> "settled", manifest |-> runs[c].manifest, evaluations |-> found, verdict |-> verdict]
    BY <1>3, <2>1 DEF RunShape
  <2> QED
    BY <1>3, <1>6, <2>2
<1>8. Covered(c)'
  BY <1>2, <1>3, <1>7, CoverageStays
<1>9. ASSUME runs'[c].verdict.eligible
      PROVE  Summary(EvaluationsOf(c, runs[c].verdict.measures.metrics))' \in Favourable
  <2>1. runs'[c].verdict.measures.metrics = m.metrics /\ runs'[c].manifest = runs[c].manifest
    BY <1>5, <1>7
  <2>2. Summary(EvaluationsOf(c, m.metrics)) \in Favourable
    BY <1>4, <1>5, <1>7, <1>9
  <2> QED
    BY <2>1, <2>2, EvaluationsStay
<1>10. RunShape(runs[c])'
  BY <1>7 DEF RunShape
<1> QED
  BY <1>2, <1>7, <1>8, <1>9, <1>10, RunStep

LEMMA SettleNothingKeeps == ASSUME GovernanceInv, NEW c \in Runs, SettleNothing(c) PROVE GovernanceInv'
<1>1. /\ runs[c].stage = "queued" /\ UNCHANGED <<standards, sets, rules, approvals, desk, sessions>>
      /\ runs' = [runs EXCEPT ![c].stage = "failed"]
  BY DEF SettleNothing
<1>2. /\ RunShape(runs[c]) /\ Covered(c) /\ runs[c].evaluations = None /\ runs[c].verdict = None
      /\ DOMAIN runs = Runs
  BY <1>1 DEF GovernanceInv, RunsInv
<1>3. /\ DOMAIN runs' = Runs /\ \A d \in Runs \ {c} : runs'[d] = runs[d]
      /\ runs'[c] = [stage |-> "failed", manifest |-> runs[c].manifest, evaluations |-> None, verdict |-> None]
  BY <1>1, <1>2 DEF RunShape
<1>4. Covered(c)' /\ RunShape(runs[c])'
  BY <1>1, <1>2, <1>3, CoverageStays DEF RunShape
<1> QED
  BY <1>1, <1>3, <1>4, RunStep

LEMMA EvaluateAgainKeeps == ASSUME GovernanceInv, NEW c \in Runs, EvaluateAgain(c) PROVE GovernanceInv'
<1>1. PICK found : runs' = [runs EXCEPT ![c].evaluations = found]
  BY DEF EvaluateAgain
<1>2. runs[c].stage = "settled" /\ UNCHANGED <<standards, sets, rules, approvals, desk, sessions>>
  BY DEF EvaluateAgain
<1>3. RunShape(runs[c]) /\ Covered(c) /\ DOMAIN runs = Runs
  BY <1>2 DEF GovernanceInv, RunsInv
<1>4. /\ DOMAIN runs' = Runs /\ \A d \in Runs \ {c} : runs'[d] = runs[d]
      /\ runs'[c] = [stage |-> "settled", manifest |-> runs[c].manifest, evaluations |-> found,
                     verdict |-> runs[c].verdict]
  BY <1>1, <1>2, <1>3 DEF RunShape
<1>5. Covered(c)' /\ RunShape(runs[c])'
  BY <1>2, <1>3, <1>4, CoverageStays DEF RunShape
<1>6. ASSUME runs'[c].verdict # None, runs'[c].verdict.eligible
      PROVE  Summary(EvaluationsOf(c, runs[c].verdict.measures.metrics))' \in Favourable
  <2>1. Summary(EvaluationsOf(c, runs[c].verdict.measures.metrics)) \in Favourable
    BY <1>4, <1>6 DEF GovernanceInv, RunsInv
  <2> QED
    BY <1>4, <2>1, EvaluationsStay
<1> QED
  BY <1>2, <1>4, <1>5, <1>6, RunStep

LEMMA StepKeeps == GovernanceInv /\ [GovernanceNext]_governanceVars => GovernanceInv'
<1> SUFFICES ASSUME GovernanceInv, [GovernanceNext]_governanceVars PROVE GovernanceInv'
  OBVIOUS
<1>1. ASSUME NEW o \in Officers,
             \/ Begin(o) \/ ComputeHash(o) \/ CommitStandard(o) \/ CommitCreation(o)
             \/ CommitRule(o) \/ CommitApproval(o) \/ RollBack(o)
      PROVE  GovernanceInv'
  BY <1>1, BeginKeeps, ComputeHashKeeps, CommitStandardKeeps, CommitCreationKeeps, CommitRuleKeeps,
     CommitApprovalKeeps, RollBackKeeps
<1>2. ASSUME NEW c \in Runs, Submit(c) \/ Settle(c) \/ SettleNothing(c) \/ EvaluateAgain(c)
      PROVE  GovernanceInv'
  BY <1>2, SubmitKeeps, SettleKeeps, SettleNothingKeeps, EvaluateAgainKeeps
<1>3. CASE UNCHANGED governanceVars
  <2>1. UNCHANGED <<standards, sets, rules, approvals, desk, sessions, runs>>
    BY <1>3 DEF governanceVars
  <2>2. Growth /\ ApprovalsFollow /\ ApprovalsGrow
    BY <2>1 DEF Growth, ApprovalsFollow, ApprovalsGrow, IsApproved, ApprovedRules, RulesOf, Busy
  <2>3. DeskInv'
    BY <2>1 DEF GovernanceInv, DeskInv, WellFormed, StillTrue, ApprovedRules, RulesOf
  <2> QED
    BY <2>1, <2>2, <2>3, DeskStep DEF GovernanceInv, GovernanceTypeOK
<1> QED
  BY <1>1, <1>2, <1>3 DEF GovernanceNext

LEMMA InvHolds == GovernanceSpec => []GovernanceInv
  BY InitHolds, StepKeeps, PTL DEF GovernanceSpec

\* Types; an approved set has its audit event, and no standard of a set is a draft again.
THEOREM GovernanceTypes == GovernanceSpec => []GovernanceTypeOK
<1>1. GovernanceInv => GovernanceTypeOK
  BY DEF GovernanceInv
<1> QED
  BY <1>1, InvHolds, PTL

\* A result is eligible only if each rule that was approved with the sets was measured and,
\* when it is blocking, satisfied, however requests and calculations overlap.
THEOREM JustifiedDecisions == GovernanceSpec => []DecisionIsJustified
  BY InvHolds, InvJustifies, PTL

\* No step takes an approval of a rule back, or changes evaluations that exist.
LEMMA StepIsFinal ==
    ASSUME GovernanceInv, [GovernanceNext]_governanceVars
    PROVE  /\ \A r \in Rules : rules[r] = "approved" => rules'[r] = "approved"
           /\ \A c \in Runs : runs[c].evaluations \notin {None, {}} => runs'[c].evaluations = runs[c].evaluations
<1>1. ASSUME NEW o \in Officers, CommitRule(o)
      PROVE  UNCHANGED runs /\ \A r \in Rules : rules[r] = "approved" => rules'[r] = "approved"
  <2>1. /\ \A r \in DOMAIN desk[o].change : desk[o].change[r] \in Drafted
        /\ \A r \in DOMAIN desk[o].change : desk[o].change[r] = "draft" => rules[r] = None
    BY <1>1 DEF CommitRule, GovernanceInv, DeskInv, WellFormed
  <2>2. rules' = [r \in Rules |-> IF r \in DOMAIN desk[o].change THEN desk[o].change[r] ELSE rules[r]]
    BY <1>1 DEF CommitRule
  <2>3. UNCHANGED runs
    BY <1>1 DEF CommitRule, Leave
  <2> QED
    BY <2>1, <2>2, <2>3, NoneAssumption DEF Drafted
<1>2. ASSUME NEW o \in Officers,
             \/ Begin(o) \/ ComputeHash(o) \/ CommitStandard(o) \/ CommitCreation(o)
             \/ CommitApproval(o) \/ RollBack(o)
      PROVE  UNCHANGED <<rules, runs>>
  BY <1>2 DEF Begin, ComputeHash, CommitStandard, CommitCreation, CommitApproval, RollBack, Leave
<1>3. ASSUME NEW c \in Runs, Submit(c) \/ Settle(c) \/ SettleNothing(c) \/ EvaluateAgain(c)
      PROVE  /\ UNCHANGED rules
             /\ \A d \in Runs : runs[d].evaluations \notin {None, {}} => runs'[d].evaluations = runs[d].evaluations
  <2>1. DOMAIN runs = Runs /\ RunShape(runs[c])
    BY DEF GovernanceInv, RunsInv
  <2>2. UNCHANGED rules /\ \A d \in Runs \ {c} : runs'[d] = runs[d]
    BY <1>3, <2>1 DEF Submit, Settle, SettleNothing, EvaluateAgain
  <2>3. ASSUME runs[c].evaluations \notin {None, {}} PROVE runs'[c].evaluations = runs[c].evaluations
    <3>1. CASE Submit(c) \/ Settle(c) \/ SettleNothing(c)
      <4>1. runs[c].stage \in {"new", "queued"}
        BY <3>1 DEF Submit, Settle, SettleNothing
      <4> QED
        BY <2>3, <4>1 DEF GovernanceInv, RunsInv
    <3>2. CASE EvaluateAgain(c)
      <4>1. PICK m : runs' = [runs EXCEPT ![c].evaluations = Recorded(c, m)]
        BY <3>2 DEF EvaluateAgain
      <4>2. Recorded(c, m) = runs[c].evaluations
        BY <2>3 DEF Recorded
      <4> QED
        BY <2>1, <4>1, <4>2 DEF RunShape
    <3> QED
      BY <1>3, <3>1, <3>2
  <2> QED
    BY <2>2, <2>3
<1>4. CASE UNCHANGED governanceVars
  BY <1>4 DEF governanceVars
<1> QED
  BY <1>1, <1>2, <1>3, <1>4 DEF GovernanceNext

\* An approved set is joined by the rules whose requests saw a draft, and by no other.
LEMMA StepJoinsNothing ==
    ASSUME GovernanceInv, [GovernanceNext]_governanceVars, NEW s \in RuleSets, IsApproved(s)
    PROVE  /\ IsApproved(s)'
           /\ Joining(s)' \subseteq Joining(s)
           /\ Joining(s) = {} => RulesOf(s)' = RulesOf(s)
<1>1. DOMAIN desk = Officers /\ \A o \in Officers : desk[o] # None => WellFormed(desk[o])
  BY DEF GovernanceInv, DeskInv
<1>2. sets[s] \in SetRecords /\ sets[s].status = "approved" /\ sets[s] # None /\ DOMAIN sets = RuleSets
  BY DEF GovernanceInv, SetsInv, IsApproved
<1>3. ASSUME NEW o \in Officers, Begin(o) PROVE Joining(s)' \subseteq Joining(s)
  <2>1. PICK q \in StandardRequests \cup CreationRequests \cup RuleRequests \cup ApprovalRequests :
            desk' = [desk EXCEPT ![o] = q]
    BY <1>3 DEF Begin
  <2>2. q.op = "rule" => q.object # s
    <3>1. CASE q \in StandardRequests
      BY <3>1 DEF StandardRequests, Request
    <3>2. CASE q \in CreationRequests
      BY <3>2 DEF CreationRequests, Request
    <3>3. CASE q \in RuleRequests
      <4>1. PICK r \in Rules, st \in Drafted :
                IsDraft(Definition[r].home) /\ q = Request("rule", Definition[r].home, [x \in {r} |-> st], None)
        BY <3>3 DEF RuleRequests, Drafted
      <4>2. q.object = Definition[r].home
        BY <4>1 DEF Request
      <4> QED
        BY <1>2, <4>1, <4>2 DEF IsDraft
    <3>4. CASE q \in ApprovalRequests
      BY <3>4 DEF ApprovalRequests, Request
    <3> QED
      BY <3>1, <3>2, <3>3, <3>4
  <2>3. \A n \in Officers : desk'[n] = IF n = o THEN q ELSE desk[n]
    BY <1>1, <2>1
  <2> QED
    BY <2>2, <2>3 DEF Joining
<1>4. ASSUME NEW o \in Officers, ComputeHash(o) PROVE Joining(s)' \subseteq Joining(s)
  <2>1. \A n \in Officers \ {o} : desk'[n] = desk[n]
    BY <1>1, <1>4 DEF ComputeHash
  <2>2. desk'[o].op = desk[o].op /\ desk'[o].object = desk[o].object /\ desk[o] # None
    <3>1. desk' = [desk EXCEPT ![o].hash = Fingerprint(desk[o].object, desk[o].change)] /\ desk[o] # None
      BY <1>4 DEF ComputeHash
    <3>2. WellFormed(desk[o])
      BY <1>1, <3>1
    <3> HIDE DEF Fingerprint
    <3> QED
      BY <1>1, <3>1, <3>2 DEF WellFormed
  <2> QED
    BY <2>1, <2>2 DEF Joining
<1>5. ASSUME NEW o \in Officers, Leave(o) PROVE Joining(s)' \subseteq Joining(s)
  <2>1. desk'[o] = None /\ \A n \in Officers \ {o} : desk'[n] = desk[n]
    BY <1>1, <1>5 DEF Leave
  <2> QED
    BY <2>1 DEF Joining
<1>6. ASSUME NEW o \in Officers, CommitRule(o)
      PROVE  /\ IsApproved(s)' /\ Joining(s)' \subseteq Joining(s)
             /\ Joining(s) = {} => RulesOf(s)' = RulesOf(s)
  <2>1. /\ desk[o] # None /\ desk[o].op = "rule" /\ Leave(o)
        /\ rules' = [r \in Rules |-> IF r \in DOMAIN desk[o].change THEN desk[o].change[r] ELSE rules[r]]
        /\ sets' = [sets EXCEPT ![desk[o].object].hash = Hashed(o)]
    BY <1>6 DEF CommitRule
  <2>2. \A r \in DOMAIN desk[o].change : Definition[r].home = desk[o].object
    BY <1>1, <2>1 DEF WellFormed
  <2>3. Joining(s)' \subseteq Joining(s)
    BY <1>5, <2>1
  <2>4. Joining(s) = {} => RulesOf(s)' = RulesOf(s)
    <3>1. SUFFICES ASSUME Joining(s) = {} PROVE RulesOf(s)' = RulesOf(s)
      OBVIOUS
    <3>2. desk[o].object # s
      BY <2>1, <3>1 DEF Joining
    <3>3. \A r \in Rules : Definition[r].home = s => rules'[r] = rules[r]
      BY <2>1, <2>2, <3>2
    <3> QED
      BY <3>3 DEF RulesOf
  <2>5. GovernanceInv'
    BY <1>6, CommitRuleKeeps
  <2>6. IsApproved(s)'
    <3>1. sets'[s] = [sets[s] EXCEPT !.hash = Hashed(o)] \/ sets'[s] = sets[s]
      BY <1>2, <2>1
    <3>2. sets[s] = [status |-> "approved", hash |-> sets[s].hash]
      BY <1>2 DEF SetRecords
    <3>3. sets'[s].status = "approved"
      BY <1>2, <3>1, <3>2
    <3>4. sets'[s] # None
      <4>1. sets'[s] \in SetRecords \cup {None}
        BY <2>5 DEF GovernanceInv, SetsInv
      <4>2. [status |-> "approved", hash |-> Hashed(o)] \in SetRecords
        BY <1>1, <2>1, HashedIsTyped, <1>6 DEF SetRecords, Drafted, CommitRule
      <4>3. sets'[s] = [status |-> "approved", hash |-> Hashed(o)] \/ sets'[s] = sets[s]
        BY <3>1, <3>2
      <4> QED
        BY <1>2, <4>2, <4>3, NoneAssumption
    <3> QED
      BY <3>3, <3>4 DEF IsApproved
  <2> QED
    BY <2>3, <2>4, <2>6
<1>7. ASSUME NEW o \in Officers,
             \/ Begin(o) \/ ComputeHash(o) \/ CommitStandard(o) \/ CommitCreation(o)
             \/ CommitApproval(o) \/ RollBack(o)
      PROVE  /\ IsApproved(s)' /\ Joining(s)' \subseteq Joining(s)
             /\ Joining(s) = {} => RulesOf(s)' = RulesOf(s)
  <2>1. UNCHANGED rules
    BY <1>7 DEF Begin, ComputeHash, CommitStandard, CommitCreation, CommitApproval, RollBack
  <2>2. Joining(s)' \subseteq Joining(s)
    BY <1>3, <1>4, <1>5, <1>7 DEF CommitStandard, CommitCreation, CommitApproval, RollBack
  <2>3. IsApproved(s)'
    <3>1. CASE UNCHANGED sets
      BY <3>1 DEF IsApproved
    <3>2. CASE CommitCreation(o)
      <4>1. desk[o].object # s
        BY <1>2, <3>2 DEF CommitCreation
      <4>2. sets'[s] = sets[s]
        BY <1>2, <3>2, <4>1 DEF CommitCreation
      <4> QED
        BY <4>2 DEF IsApproved
    <3>3. CASE CommitApproval(o)
      <4>1. sets' = [sets EXCEPT ![desk[o].object] = [status |-> "approved", hash |-> Hashed(o)]]
        BY <3>3 DEF CommitApproval
      <4>2. [status |-> "approved", hash |-> Hashed(o)] \in SetRecords
        BY <3>3, HashedIsTyped DEF SetRecords, Drafted, CommitApproval
      <4>3. [status |-> "approved", hash |-> Hashed(o)] # None
        BY <4>2, NoneAssumption
      <4>4. sets'[s] = sets[s] \/ sets'[s] = [status |-> "approved", hash |-> Hashed(o)]
        BY <1>2, <4>1
      <4> QED
        BY <1>2, <4>3, <4>4 DEF IsApproved
    <3> QED
      BY <1>7, <3>1, <3>2, <3>3 DEF Begin, ComputeHash, CommitStandard, RollBack
  <2> QED
    BY <2>1, <2>2, <2>3 DEF RulesOf
<1>8. ASSUME UNCHANGED <<sets, rules, desk>>
      PROVE  /\ IsApproved(s)' /\ Joining(s)' \subseteq Joining(s)
             /\ Joining(s) = {} => RulesOf(s)' = RulesOf(s)
  BY <1>8 DEF IsApproved, Joining, RulesOf
<1>9. ASSUME NEW c \in Runs, Submit(c) \/ Settle(c) \/ SettleNothing(c) \/ EvaluateAgain(c)
      PROVE  UNCHANGED <<sets, rules, desk>>
  BY <1>9 DEF Submit, Settle, SettleNothing, EvaluateAgain
<1>10. CASE UNCHANGED governanceVars
  BY <1>8, <1>10 DEF governanceVars
<1> QED
  BY <1>6, <1>7, <1>8, <1>9, <1>10 DEF GovernanceNext

\* What was approved, and what was evaluated, is final, and an approved set is joined by no rule
\* that was not under way.
THEOREM FinalEvaluations == GovernanceSpec => EvaluationsAreFinal
<1>1. GovernanceInv /\ [GovernanceNext]_governanceVars =>
          \A s \in RuleSets : sets[s] # None /\ sets[s].status = "approved" =>
              /\ sets'[s] # None /\ sets'[s].status = "approved"
              /\ Joining(s)' \subseteq Joining(s)
              /\ Joining(s) = {} => RulesOf(s)' = RulesOf(s)
  BY StepJoinsNothing DEF IsApproved
<1> QED
  BY <1>1, InvHolds, StepIsFinal, PTL DEF GovernanceSpec, EvaluationsAreFinal

-----------------------------------------------------------------------------
(***************************************************************************)
(* Catalog: the versions are numbered without a gap, and one that was       *)
(* approved rests once the updates that read it as a draft have ended.     *)
(***************************************************************************)

Columns == {"code", "version", "parent", "status", "name", "payload", "source", "hash"}
States  == {"draft", "approved", "archived"}

RowShape(item, row) == DOMAIN row = Columns /\ row.code = item[1] /\ row.status \in States

ShelfShape ==
    /\ IsFiniteSet(DOMAIN shelf) /\ DOMAIN shelf \subseteq Codes \X Nat
    /\ \A item \in DOMAIN shelf : RowShape(item, shelf[item])

Numbered == \A code \in Codes : VersionsFollow(code)

Rows(code) == {item \in DOMAIN shelf : item[1] = code}

\* What a request has read: a row as it once was, and a number of versions that has not
\* decreased since.
CallHolds(call) ==
    /\ DOMAIN call = {"kind", "item", "changes", "seen", "latest"}
    /\ call.item \in DOMAIN shelf /\ RowShape(call.item, call.seen)
    /\ call.seen.parent = shelf[call.item].parent
    /\ call.kind = "update" => call.changes \in Changes /\ UpdateIsAllowed(call.seen, call.changes)
    /\ call.kind = "approve" => call.seen.status = "draft"
    /\ call.latest # None => call.latest \in Nat /\ call.latest <= Cardinality(Rows(call.item[1]))

BenchHolds == DOMAIN bench = Curators /\ \A c \in Curators : bench[c] # None => CallHolds(bench[c])

\* Approved and archived versions exist, and are drafts no more.
SettledHolds ==
    /\ DOMAIN approvalHashes \cup retired \subseteq DOMAIN shelf
    /\ \A item \in DOMAIN approvalHashes \cup retired : shelf[item].status # "draft"

CatalogInv == ShelfShape /\ Numbered /\ BenchHolds /\ SettledHolds

(***************************************************************************)
(* The numbers of the versions.                                            *)
(***************************************************************************)
LEMMA NumberedRows ==
    ASSUME ShelfShape, NEW code \in Codes, VersionsFollow(code)
    PROVE  /\ IsFiniteSet(Rows(code)) /\ Cardinality(Rows(code)) \in Nat
           /\ \A v \in Nat : <<code, v>> \in DOMAIN shelf <=> v \in 1..Cardinality(Rows(code))
<1>1. IsFiniteSet(Rows(code)) /\ Cardinality(Rows(code)) \in Nat
  BY FS_Subset, FS_CardinalityType DEF ShelfShape, Rows
<1>2. {item[2] : item \in Rows(code)} = 1..Cardinality(Rows(code))
  BY DEF VersionsFollow, Rows
<1>3. ASSUME NEW v \in Nat, <<code, v>> \in DOMAIN shelf PROVE v \in 1..Cardinality(Rows(code))
  <2>1. <<code, v>> \in Rows(code) /\ <<code, v>>[2] = v
    BY <1>3 DEF Rows
  <2> QED
    BY <1>2, <2>1
<1>4. ASSUME NEW v \in Nat, v \in 1..Cardinality(Rows(code)) PROVE <<code, v>> \in DOMAIN shelf
  <2>1. PICK item \in Rows(code) : item[2] = v
    BY <1>2, <1>4
  <2>2. item \in DOMAIN shelf /\ item \in Codes \X Nat /\ item[1] = code
    BY DEF Rows, ShelfShape
  <2>3. item = <<code, v>>
    BY <2>1, <2>2
  <2> QED
    BY <2>2, <2>3
<1> QED
  BY <1>1, <1>3, <1>4

\* A new version has the number that follows.
LEMMA NextVersion ==
    ASSUME ShelfShape, Numbered, NEW code \in Codes, NEW n \in Nat,
           n = Cardinality(Rows(code)) + 1, NEW row, RowShape(<<code, n>>, row),
           row.parent # None => row.parent[1] = code /\ row.parent[2] < n,
           shelf' = Put(shelf, <<code, n>>, row)
    PROVE  /\ ShelfShape' /\ Numbered'
           /\ <<code, n>> \notin DOMAIN shelf /\ DOMAIN shelf' = DOMAIN shelf \cup {<<code, n>>}
           /\ shelf'[<<code, n>>] = row
           /\ \A item \in DOMAIN shelf : shelf'[item] = shelf[item]
           /\ \A k \in Codes : /\ Cardinality(Rows(k)) <= Cardinality(Rows(k))'
                              /\ Cardinality(Rows(k)) \in Nat /\ Cardinality(Rows(k))' \in Nat
<1>1. <<code, n>> \notin DOMAIN shelf
  BY NumberedRows DEF Numbered
<1>2. /\ DOMAIN shelf' = DOMAIN shelf \cup {<<code, n>>} /\ shelf'[<<code, n>>] = row
      /\ \A item \in DOMAIN shelf : shelf'[item] = shelf[item]
  BY <1>1 DEF Put
<1>3. ShelfShape'
  BY <1>2, FS_AddElement DEF ShelfShape, RowShape
<1>4. ASSUME NEW k \in Codes, k # code
      PROVE  /\ VersionsFollow(k)' /\ Cardinality(Rows(k)) <= Cardinality(Rows(k))'
             /\ Cardinality(Rows(k)) \in Nat /\ Cardinality(Rows(k))' \in Nat
  <2>1. Rows(k)' = Rows(k)
    <3>1. Rows(k)' = {item \in DOMAIN shelf \cup {<<code, n>>} : item[1] = k}
      BY <1>2, Zenon DEF Rows
    <3>2. <<code, n>>[1] # k
      BY <1>4
    <3> QED
      BY <3>1, <3>2 DEF Rows
  <2>2. /\ {item[2] : item \in Rows(k)} = 1..Cardinality(Rows(k))
        /\ \A item \in Rows(k) : shelf[item].parent # None =>
               shelf[item].parent[1] = k /\ shelf[item].parent[2] < item[2]
    BY DEF Numbered, VersionsFollow, Rows
  <2>3. \A item \in Rows(k) : shelf'[item] = shelf[item]
    BY <1>2 DEF Rows
  <2>4. VersionsFollow(k)'
    BY <2>1, <2>2, <2>3 DEF VersionsFollow, Rows
  <2>5. Cardinality(Rows(k)) \in Nat
    BY NumberedRows DEF Numbered
  <2> QED
    BY <2>1, <2>4, <2>5
<1>5. /\ VersionsFollow(code)' /\ Cardinality(Rows(code)) <= Cardinality(Rows(code))'
      /\ Cardinality(Rows(code)) \in Nat /\ Cardinality(Rows(code))' \in Nat
  <2>1. Rows(code)' = Rows(code) \cup {<<code, n>>}
    <3>1. Rows(code)' = {item \in DOMAIN shelf \cup {<<code, n>>} : item[1] = code}
      BY <1>2, Zenon DEF Rows
    <3>2. <<code, n>>[1] = code
      OBVIOUS
    <3> QED
      BY <3>1, <3>2 DEF Rows
  <2>2. IsFiniteSet(Rows(code)) /\ Cardinality(Rows(code)) \in Nat
    BY NumberedRows DEF Numbered
  <2>3. Cardinality(Rows(code))' = n
    BY <1>1, <2>1, <2>2, FS_AddElement DEF Rows
  <2>4. /\ {item[2] : item \in Rows(code)} = 1..Cardinality(Rows(code))
        /\ \A item \in Rows(code) : shelf[item].parent # None =>
               shelf[item].parent[1] = code /\ shelf[item].parent[2] < item[2]
    BY DEF Numbered, VersionsFollow, Rows
  <2>5. {item[2] : item \in Rows(code)'} = {item[2] : item \in Rows(code)} \cup {n}
    BY <2>1
  <2>6. {item[2] : item \in Rows(code)'} = 1..n
    <3>1. 1..n = 1..Cardinality(Rows(code)) \cup {n}
      BY <2>2
    <3> QED
      BY <2>4, <2>5, <3>1
  <2>7. \A item \in Rows(code)' : shelf'[item].parent # None =>
            shelf'[item].parent[1] = code /\ shelf'[item].parent[2] < item[2]
    BY <1>2, <2>1, <2>4 DEF Rows
  <2> QED
    <3>1. VersionsFollow(code)'
      BY <2>3, <2>6, <2>7, Zenon DEF VersionsFollow, Rows
    <3> QED
      BY <2>2, <2>3, <3>1
<1> QED
  BY <1>1, <1>2, <1>3, <1>4, <1>5 DEF Numbered

(***************************************************************************)
(* The rows that requests write.                                           *)
(***************************************************************************)

\* An update sets the status to archived or leaves it, and never names the lineage.
LEMMA UpdatedRow ==
    ASSUME NEW item, NEW row, RowShape(item, row), NEW changes \in Changes,
           UpdateIsAllowed(row, changes)
    PROVE  /\ RowShape(item, Updated(row, changes))
           /\ Updated(row, changes).parent = row.parent /\ Updated(row, changes).version = row.version
           /\ Updated(row, changes).status \in {row.status, "archived"}
           /\ row.status # "draft" =>
                 \A column \in Columns \ {"status"} : Updated(row, changes)[column] = row[column]
<1>1. CASE row.status = "approved"
  BY <1>1 DEF Updated, RowShape, Columns, States
<1>2. CASE row.status # "approved"
  <2> DEFINE label == Chosen(changes, "name", row.name)
             body  == Chosen(changes, "body", row.payload.body)
             draft == [row EXCEPT !.name = label, !.payload = CanonicalPayload(row.code, label, body),
                           !.source = Chosen(changes, "source", @), !.status = Chosen(changes, "status", @)]
  <2>1. row.status = "draft" /\ Updated(row, changes) = [draft EXCEPT !.hash = Content(draft)]
    BY <1>2, Zenon DEF UpdateIsAllowed, Updated, Redrafted, Fingerprinted
  <2>2. Chosen(changes, "status", "draft") \in {"draft", "archived"}
    <3>1. CASE changes \in Revisions \cup {Archived, [status |-> "draft"]}
      BY <3>1, RevisionAssumption DEF Archived, Chosen
    <3>2. ASSUME NEW revision \in Revisions, changes = Put(revision, "status", "archived")
          PROVE  Chosen(changes, "status", "draft") = "archived"
      BY <3>2 DEF Put, Chosen
    <3> QED
      BY <3>1, <3>2 DEF Changes
  <2>3. /\ DOMAIN draft = Columns /\ draft.code = row.code /\ draft.parent = row.parent
        /\ draft.version = row.version /\ draft.status \in {"draft", "archived"}
    BY <2>1, <2>2 DEF RowShape, Columns
  <2> HIDE DEF draft, label, body
  <2>4. /\ DOMAIN Updated(row, changes) = Columns
        /\ \A column \in Columns \ {"hash"} : Updated(row, changes)[column] = draft[column]
    BY <2>1, <2>3 DEF Columns
  <2> QED
    BY <2>1, <2>3, <2>4 DEF RowShape, Columns, States
<1> QED
  BY <1>1, <1>2

LEMMA ApprovedRow ==
    ASSUME NEW item, NEW row, RowShape(item, row), NEW wanted,
           wanted = [row EXCEPT !.status = "approved"]
    PROVE  /\ RowShape(item, wanted) /\ wanted.status = "approved"
           /\ \A column \in Columns \ {"status"} : wanted[column] = row[column]
BY DEF RowShape, Columns, States

\* A row that is written.
LEMMA WrittenRow ==
    ASSUME ShelfShape, Numbered, NEW item \in DOMAIN shelf, NEW seen, RowShape(item, seen),
           NEW wanted, RowShape(item, wanted), wanted.parent = seen.parent, Write(item, seen, wanted)
    PROVE  /\ ShelfShape' /\ Numbered' /\ DOMAIN shelf' = DOMAIN shelf
           /\ \A k \in Codes : Rows(k)' = Rows(k)
           /\ \A k \in DOMAIN shelf \ {item} : shelf'[k] = shelf[k]
           /\ \A k \in DOMAIN shelf : shelf'[k].parent = shelf[k].parent
           /\ DOMAIN shelf'[item] = Columns
           /\ \A column \in Columns : shelf'[item][column] =
                IF wanted[column] = seen[column] THEN shelf[item][column] ELSE wanted[column]
<1>1. DOMAIN shelf[item] = Columns
  BY DEF ShelfShape, RowShape
<1>2. /\ DOMAIN shelf' = DOMAIN shelf
      /\ \A k \in DOMAIN shelf \ {item} : shelf'[k] = shelf[k]
      /\ shelf'[item] = Flushed(shelf[item], seen, wanted)
  BY DEF Write
<1>3. /\ DOMAIN shelf'[item] = Columns
      /\ \A column \in Columns : shelf'[item][column] =
           IF wanted[column] = seen[column] THEN shelf[item][column] ELSE wanted[column]
  BY <1>1, <1>2 DEF Flushed
<1>4. \A k \in DOMAIN shelf : shelf'[k].parent = shelf[k].parent
  BY <1>2, <1>3 DEF Columns
<1>5. ShelfShape'
  <2>1. RowShape(item, shelf'[item])
    BY <1>3 DEF RowShape, Columns, ShelfShape
  <2> QED
    BY <1>2, <2>1 DEF ShelfShape, RowShape
<1>6. \A k \in Codes : Rows(k)' = Rows(k)
  BY <1>2 DEF Rows
<1>7. Numbered'
  <2> SUFFICES ASSUME NEW k \in Codes PROVE VersionsFollow(k)'
    BY DEF Numbered
  <2>1. /\ {row[2] : row \in Rows(k)} = 1..Cardinality(Rows(k))
        /\ \A row \in Rows(k) : shelf[row].parent # None =>
               shelf[row].parent[1] = k /\ shelf[row].parent[2] < row[2]
    BY DEF Numbered, VersionsFollow, Rows
  <2>2. \A row \in Rows(k) : shelf'[row].parent = shelf[row].parent
    BY <1>4 DEF Rows
  <2> QED
    BY <1>6, <2>1, <2>2 DEF VersionsFollow, Rows
<1> QED
  BY <1>2, <1>3, <1>4, <1>5, <1>6, <1>7

(***************************************************************************)
(* The requests.                                                           *)
(***************************************************************************)

\* Rows only gain versions, so that what the other requests have read stays true of them.
LEMMA BenchKept ==
    ASSUME ShelfShape, BenchHolds, DOMAIN shelf \subseteq DOMAIN shelf',
           \A item \in DOMAIN shelf : shelf'[item].parent = shelf[item].parent,
           \A k \in Codes : /\ Cardinality(Rows(k)) \in Nat /\ Cardinality(Rows(k))' \in Nat
                            /\ Cardinality(Rows(k)) <= Cardinality(Rows(k))',
           DOMAIN bench' = Curators, \A c \in Curators : bench'[c] \in {None, bench[c]}
    PROVE  BenchHolds'
<1> SUFFICES ASSUME NEW c \in Curators, bench'[c] # None PROVE CallHolds(bench[c])'
  BY DEF BenchHolds
<1>1. bench'[c] = bench[c] /\ CallHolds(bench[c])
  BY DEF BenchHolds
<1>2. bench[c].item[1] \in Codes
  BY <1>1 DEF CallHolds, ShelfShape
<1> QED
  BY <1>1, <1>2 DEF CallHolds

LEMMA CardinalitiesAreNat ==
    ASSUME ShelfShape, Numbered, NEW k \in Codes
    PROVE  Cardinality(Rows(k)) \in Nat
BY NumberedRows DEF Numbered

LEMMA CatalogStarts == CatalogInit => CatalogInv
<1> SUFFICES ASSUME CatalogInit PROVE CatalogInv
  OBVIOUS
<1>1. DOMAIN shelf = {} /\ DOMAIN approvalHashes = {} /\ retired = {}
  BY DEF CatalogInit
<1>2. ShelfShape /\ SettledHolds
  BY <1>1, FS_EmptySet DEF ShelfShape, SettledHolds
<1>3. Numbered
  <2> SUFFICES ASSUME NEW code \in Codes PROVE VersionsFollow(code)
    BY DEF Numbered
  <2>1. Rows(code) = {} /\ Cardinality(Rows(code)) = 0
    BY <1>1, FS_EmptySet DEF Rows
  <2>2. {item[2] : item \in Rows(code)} = 1..Cardinality(Rows(code))
    BY <2>1
  <2> QED
    BY <2>1, <2>2, Zenon DEF VersionsFollow, Rows
<1>4. BenchHolds
  BY DEF CatalogInit, BenchHolds
<1> QED
  BY <1>1, <1>2, <1>3, <1>4 DEF CatalogInv

LEMMA NewItemRow ==
    ASSUME NEW code, NEW n, NEW parent, NEW label, NEW body, NEW origin, NEW row,
           row = NewItem(code, n, parent, label, body, origin)
    PROVE  /\ RowShape(<<code, n>>, row) /\ row.parent = parent /\ row.status = "draft"
<1> DEFINE draft == [code |-> code, version |-> n, parent |-> parent, status |-> "draft", name |-> label,
                     payload |-> CanonicalPayload(code, label, body), source |-> origin, hash |-> None]
<1>1. row = [draft EXCEPT !.hash = Content(draft)]
  BY DEF NewItem, Fingerprinted
<1>2. DOMAIN draft = Columns /\ draft.code = code /\ draft.parent = parent /\ draft.status = "draft"
  BY DEF Columns
<1> HIDE DEF draft
<1>3. DOMAIN row = Columns /\ \A column \in Columns \ {"hash"} : row[column] = draft[column]
  BY <1>1, <1>2 DEF Columns
<1> QED
  BY <1>2, <1>3 DEF RowShape, Columns, States

\* A row that is new, whatever request adds it.
LEMMA NewRowKeeps ==
    ASSUME CatalogInv, NEW code \in Codes, NEW n \in Nat, n = Cardinality(Rows(code)) + 1,
           NEW parent, parent # None => parent[1] = code /\ parent[2] < n,
           NEW label, NEW body, NEW origin,
           shelf' = Put(shelf, <<code, n>>, NewItem(code, n, parent, label, body, origin)),
           UNCHANGED <<approvalHashes, retired>>,
           DOMAIN bench' = Curators, \A c \in Curators : bench'[c] \in {None, bench[c]}
    PROVE  CatalogInv'
<1> DEFINE row == NewItem(code, n, parent, label, body, origin)
<1>1. RowShape(<<code, n>>, row) /\ row.parent = parent /\ row.status = "draft"
  BY NewItemRow
<1> HIDE DEF row
<1>2. /\ ShelfShape' /\ Numbered'
      /\ <<code, n>> \notin DOMAIN shelf /\ DOMAIN shelf' = DOMAIN shelf \cup {<<code, n>>}
      /\ shelf'[<<code, n>>] = row
      /\ \A item \in DOMAIN shelf : shelf'[item] = shelf[item]
      /\ \A k \in Codes : /\ Cardinality(Rows(k)) <= Cardinality(Rows(k))'
                         /\ Cardinality(Rows(k)) \in Nat /\ Cardinality(Rows(k))' \in Nat
  <2>1. shelf' = Put(shelf, <<code, n>>, row)
    BY DEF row
  <2> QED
    BY <1>1, <2>1, NextVersion DEF CatalogInv
<1>3. BenchHolds'
  BY <1>2, BenchKept DEF CatalogInv
<1>4. SettledHolds'
  BY <1>2 DEF CatalogInv, SettledHolds
<1> QED
  BY <1>2, <1>3, <1>4 DEF CatalogInv

LEMMA CreateKeeps ==
    ASSUME CatalogInv, NEW c \in Curators, CreateItem(c)
    PROVE  CatalogInv'
<1>1. PICK code \in Codes, new \in Contents :
          /\ <<code, 1>> \notin DOMAIN shelf
          /\ shelf' = Put(shelf, <<code, 1>>, NewItem(code, 1, None, new.name, new.body, new.source))
  BY DEF CreateItem
<1>2. UNCHANGED <<bench, approvalHashes, retired>>
  BY DEF CreateItem
<1>3. Cardinality(Rows(code)) = 0
  <2>1. Cardinality(Rows(code)) \in Nat /\ 1 \notin 1..Cardinality(Rows(code))
    BY <1>1, NumberedRows DEF CatalogInv, Numbered
  <2> QED
    BY <2>1
<1>4. DOMAIN bench' = Curators /\ \A d \in Curators : bench'[d] \in {None, bench[d]}
  BY <1>2 DEF CatalogInv, BenchHolds
<1>5. 1 = Cardinality(Rows(code)) + 1
  BY <1>3
<1> QED
  BY <1>1, <1>2, <1>4, <1>5, NewRowKeeps

LEMMA DeriveKeeps ==
    ASSUME CatalogInv, NEW c \in Curators, DeriveItem(c)
    PROVE  CatalogInv'
<1> DEFINE call == bench[c]
           code == call.item[1]
           n    == call.latest + 1
<1>1. /\ CallHolds(call) /\ call.latest # None
      /\ call.item \in DOMAIN shelf /\ call.item \in Codes \X Nat
      /\ call.seen.code = code
  BY DEF DeriveItem, Commits, CatalogInv, BenchHolds, CallHolds, RowShape, ShelfShape
<1>2. /\ call.latest \in Nat /\ call.latest <= Cardinality(Rows(code))
      /\ code \in Codes /\ call.item[2] \in Nat /\ call.item = <<code, call.item[2]>>
  BY <1>1 DEF CallHolds
<1>3. /\ <<code, n>> \notin DOMAIN shelf
      /\ bench' = [bench EXCEPT ![c] = None] /\ UNCHANGED <<approvalHashes, retired>>
      /\ \E label, body, origin : shelf' = Put(shelf, <<code, n>>, NewItem(code, n, call.item, label, body, origin))
  BY <1>1 DEF DeriveItem, Committed
<1>4. /\ Cardinality(Rows(code)) \in Nat
      /\ \A v \in Nat : <<code, v>> \in DOMAIN shelf <=> v \in 1..Cardinality(Rows(code))
  BY <1>2, NumberedRows DEF CatalogInv, Numbered
<1>5. n \in Nat /\ n = Cardinality(Rows(code)) + 1
  BY <1>2, <1>3, <1>4
<1>6. call.item[1] = code /\ call.item[2] < n
  BY <1>1, <1>2, <1>4, <1>5
<1>7. DOMAIN bench' = Curators /\ \A d \in Curators : bench'[d] \in {None, bench[d]}
  BY <1>3 DEF CatalogInv, BenchHolds
<1>8. PICK label, body, origin : shelf' = Put(shelf, <<code, n>>, NewItem(code, n, call.item, label, body, origin))
  BY <1>3
<1> HIDE DEF n
<1> QED
  BY <1>2, <1>3, <1>5, <1>6, <1>7, <1>8, NewRowKeeps

\* What a write of a request leaves, for any row it wants.
Written(item, seen, wanted) ==
    /\ ShelfShape' /\ Numbered' /\ BenchHolds' /\ DOMAIN shelf' = DOMAIN shelf
    /\ item \in DOMAIN shelf
    /\ \A k \in DOMAIN shelf \ {item} : shelf'[k] = shelf[k]
    /\ DOMAIN shelf'[item] = Columns
    /\ \A column \in Columns : shelf'[item][column] =
         IF wanted[column] = seen[column] THEN shelf[item][column] ELSE wanted[column]

\* What a write keeps of all but the row that is written.
LEMMA WriteKeeps ==
    ASSUME CatalogInv, NEW c \in Curators, CallHolds(bench[c]),
           NEW wanted, RowShape(bench[c].item, wanted), wanted.parent = bench[c].seen.parent,
           Write(bench[c].item, bench[c].seen, wanted), bench' = [bench EXCEPT ![c] = None]
    PROVE  Written(bench[c].item, bench[c].seen, wanted)
<1> DEFINE item == bench[c].item
           seen == bench[c].seen
<1>1. item \in DOMAIN shelf /\ RowShape(item, seen)
  BY DEF CallHolds
<1>2. /\ ShelfShape' /\ Numbered' /\ DOMAIN shelf' = DOMAIN shelf
      /\ \A k \in Codes : Rows(k)' = Rows(k)
      /\ \A k \in DOMAIN shelf \ {item} : shelf'[k] = shelf[k]
      /\ \A k \in DOMAIN shelf : shelf'[k].parent = shelf[k].parent
      /\ DOMAIN shelf'[item] = Columns
      /\ \A column \in Columns : shelf'[item][column] =
           IF wanted[column] = seen[column] THEN shelf[item][column] ELSE wanted[column]
  <2> HIDE DEF item, seen
  <2> QED
    BY <1>1, WrittenRow DEF CatalogInv, item, seen
<1>3. BenchHolds'
  <2>1. \A k \in Codes : /\ Cardinality(Rows(k)) \in Nat /\ Cardinality(Rows(k))' \in Nat
                         /\ Cardinality(Rows(k)) <= Cardinality(Rows(k))'
    BY <1>2, CardinalitiesAreNat DEF CatalogInv
  <2>2. DOMAIN bench' = Curators /\ \A d \in Curators : bench'[d] \in {None, bench[d]}
    BY DEF CatalogInv, BenchHolds
  <2> QED
    BY <1>2, <2>1, <2>2, BenchKept DEF CatalogInv
<1> QED
  BY <1>1, <1>2, <1>3 DEF Written

LEMMA WriteIsKept ==
    ASSUME CatalogInv, NEW c \in Curators, CallHolds(bench[c]), bench' = [bench EXCEPT ![c] = None]
    PROVE  \A row : /\ RowShape(bench[c].item, row) /\ row.parent = bench[c].seen.parent
                    /\ Write(bench[c].item, bench[c].seen, row)
                    => Written(bench[c].item, bench[c].seen, row)
<1>1. SUFFICES ASSUME NEW row, RowShape(bench[c].item, row), row.parent = bench[c].seen.parent,
                      Write(bench[c].item, bench[c].seen, row)
               PROVE  Written(bench[c].item, bench[c].seen, row)
  OBVIOUS
<1> QED
  BY <1>1, WriteKeeps

LEMMA UpdateKeeps ==
    ASSUME CatalogInv, NEW c \in Curators, UpdateItem(c)
    PROVE  CatalogInv'
<1> DEFINE item   == bench[c].item
           seen   == bench[c].seen
           wanted == Updated(bench[c].seen, bench[c].changes)
<1>1. /\ CallHolds(bench[c]) /\ RowShape(item, seen) /\ bench[c].changes \in Changes
      /\ UpdateIsAllowed(seen, bench[c].changes)
  BY DEF UpdateItem, Commits, CatalogInv, BenchHolds, CallHolds
<1>2. /\ Write(item, seen, wanted) /\ bench' = [bench EXCEPT ![c] = None]
      /\ retired' = IF wanted.status = "archived" THEN retired \cup {item} ELSE retired
      /\ UNCHANGED approvalHashes
  BY DEF UpdateItem, Committed
<1>3. /\ RowShape(item, wanted) /\ wanted.parent = seen.parent
      /\ wanted.status \in {seen.status, "archived"}
  BY <1>1, UpdatedRow
<1> HIDE DEF item, seen, wanted
<1>4. /\ ShelfShape' /\ Numbered' /\ BenchHolds' /\ DOMAIN shelf' = DOMAIN shelf
      /\ item \in DOMAIN shelf
      /\ \A k \in DOMAIN shelf \ {item} : shelf'[k] = shelf[k]
      /\ DOMAIN shelf'[item] = Columns
      /\ \A column \in Columns : shelf'[item][column] =
           IF wanted[column] = seen[column] THEN shelf[item][column] ELSE wanted[column]
  <2>1. \A row : /\ RowShape(bench[c].item, row) /\ row.parent = bench[c].seen.parent
                 /\ Write(bench[c].item, bench[c].seen, row)
                 => Written(bench[c].item, bench[c].seen, row)
    BY <1>1, <1>2, WriteIsKept
  <2>2. Written(item, seen, wanted)
    BY <1>1, <1>2, <1>3, <2>1 DEF item, seen
  <2> QED
    BY <2>2 DEF Written
<1>5. SettledHolds'
  <2>1. shelf'[item].status = IF wanted.status = seen.status THEN shelf[item].status ELSE wanted.status
    BY <1>4 DEF Columns
  <2>2. wanted.status = "archived" => shelf'[item].status = "archived"
    BY <1>1, <1>3, <2>1 DEF UpdateIsAllowed
  <2>3. shelf[item].status # "draft" => shelf'[item].status # "draft"
    BY <1>3, <2>1
  <2> QED
    BY <1>2, <1>4, <2>2, <2>3 DEF CatalogInv, SettledHolds
<1> QED
  BY <1>4, <1>5 DEF CatalogInv

LEMMA ApproveKeeps ==
    ASSUME CatalogInv, NEW c \in Curators, ApproveItem(c)
    PROVE  CatalogInv'
<1> DEFINE item   == bench[c].item
           seen   == bench[c].seen
           wanted == [seen EXCEPT !.status = "approved"]
<1>1. CallHolds(bench[c]) /\ RowShape(item, seen) /\ seen.status = "draft"
  BY DEF ApproveItem, Commits, CatalogInv, BenchHolds, CallHolds
<1>2. /\ Write(item, seen, wanted) /\ bench' = [bench EXCEPT ![c] = None]
      /\ approvalHashes' = Put(approvalHashes, item, seen.hash) /\ UNCHANGED retired
  BY DEF ApproveItem, Committed
<1>3. /\ RowShape(item, wanted) /\ wanted.status = "approved"
      /\ \A column \in Columns \ {"status"} : wanted[column] = seen[column]
  BY <1>1, ApprovedRow
<1>p. wanted.parent = seen.parent
  BY <1>3 DEF Columns
<1> HIDE DEF item, seen, wanted
<1>4. /\ ShelfShape' /\ Numbered' /\ BenchHolds' /\ DOMAIN shelf' = DOMAIN shelf
      /\ item \in DOMAIN shelf
      /\ \A k \in DOMAIN shelf \ {item} : shelf'[k] = shelf[k]
      /\ DOMAIN shelf'[item] = Columns
      /\ \A column \in Columns : shelf'[item][column] =
           IF wanted[column] = seen[column] THEN shelf[item][column] ELSE wanted[column]
  <2>1. \A row : /\ RowShape(bench[c].item, row) /\ row.parent = bench[c].seen.parent
                 /\ Write(bench[c].item, bench[c].seen, row)
                 => Written(bench[c].item, bench[c].seen, row)
    BY <1>1, <1>2, WriteIsKept
  <2>2. Written(item, seen, wanted)
    BY <1>1, <1>2, <1>3, <1>p, <2>1 DEF item, seen
  <2> QED
    BY <2>2 DEF Written
<1>5. /\ DOMAIN approvalHashes' = DOMAIN approvalHashes \cup {item} /\ approvalHashes'[item] = seen.hash
      /\ \A k \in DOMAIN approvalHashes \ {item} : approvalHashes'[k] = approvalHashes[k]
  BY <1>2 DEF Put
<1>6. shelf'[item].status = "approved"
  BY <1>1, <1>3, <1>4 DEF Columns
<1>7. SettledHolds'
  BY <1>2, <1>4, <1>5, <1>6 DEF CatalogInv, SettledHolds
<1> QED
  BY <1>4, <1>7 DEF CatalogInv

\* A request that reads, or gives up.
LEMMA ReadKeeps ==
    ASSUME CatalogInv, NEW c \in Curators,
           ReadToUpdate(c) \/ ReadToApprove(c) \/ ReadToDerive(c) \/ ReadLatest(c) \/ Abandon(c)
    PROVE  CatalogInv'
<1>1. UNCHANGED <<shelf, approvalHashes, retired>>
  BY DEF ReadToUpdate, ReadToApprove, ReadToDerive, ReadLatest, Abandon, Asks
<1>2. ShelfShape' /\ Numbered' /\ SettledHolds'
  BY <1>1 DEF CatalogInv, ShelfShape, Numbered, SettledHolds, VersionsFollow, RowShape
<1>3. PICK call : bench' = [bench EXCEPT ![c] = call] /\ (call # None => CallHolds(call))
  <2>1. ASSUME NEW item \in DOMAIN shelf, NEW kind \in {"update", "approve", "derive"}, NEW changes,
               kind = "update" => changes \in Changes /\ UpdateIsAllowed(shelf[item], changes),
               kind = "approve" => shelf[item].status = "draft"
        PROVE  CallHolds(Opened(kind, item, changes))
    BY <2>1 DEF Opened, CallHolds, CatalogInv, ShelfShape
  <2>2. CASE ReadToUpdate(c) \/ ReadToApprove(c) \/ ReadToDerive(c)
    BY <2>1, <2>2 DEF ReadToUpdate, ReadToApprove, ReadToDerive, Asks
  <2>3. CASE ReadLatest(c)
    <3> DEFINE rows == {item \in DOMAIN shelf : item[1] = bench[c].item[1]}
               call == [bench[c] EXCEPT !.latest = Cardinality(rows)]
    <3>1. /\ CallHolds(bench[c]) /\ bench' = [bench EXCEPT ![c] = call]
          /\ bench[c].item \in Codes \X Nat
      BY <2>3 DEF ReadLatest, CatalogInv, BenchHolds, CallHolds, ShelfShape
    <3>2. rows = Rows(bench[c].item[1]) /\ Cardinality(rows) \in Nat
      BY <3>1, CardinalitiesAreNat DEF Rows, CatalogInv
    <3>3. /\ DOMAIN call = {"kind", "item", "changes", "seen", "latest"} /\ call.latest = Cardinality(rows)
          /\ call.kind = bench[c].kind /\ call.item = bench[c].item /\ call.changes = bench[c].changes
          /\ call.seen = bench[c].seen
      BY <3>1 DEF CallHolds
    <3> HIDE DEF call, rows
    <3>4. CallHolds(call)
      BY <3>1, <3>2, <3>3 DEF CallHolds
    <3> QED
      BY <3>1, <3>4
  <2>4. CASE Abandon(c)
    BY <2>4 DEF Abandon
  <2> QED
    BY <2>2, <2>3, <2>4
<1>4. BenchHolds'
  BY <1>1, <1>3 DEF CatalogInv, BenchHolds, CallHolds, Rows
<1> QED
  BY <1>2, <1>4 DEF CatalogInv

LEMMA CatalogInvKept ==
    ASSUME CatalogInv, [CatalogNext]_catalogVars
    PROVE  CatalogInv'
<1>1. CASE UNCHANGED catalogVars
  BY <1>1
     DEF catalogVars, CatalogInv, ShelfShape, Numbered, BenchHolds, SettledHolds, VersionsFollow,
         RowShape, CallHolds, Rows
<1> QED
  BY <1>1, CreateKeeps, DeriveKeeps, UpdateKeeps, ApproveKeeps, ReadKeeps DEF CatalogNext

\* However requests interleave, the versions of a code are numbered without a gap, and none that
\* was approved or archived is a draft again (services/catalog.py).
THEOREM NumberedVersions == CatalogSpec => []CatalogVersionsFollow
<1>1. CatalogInv => CatalogVersionsFollow
  BY DEF CatalogInv, Numbered, SettledHolds, CatalogVersionsFollow
<1> QED
  BY <1>1, CatalogStarts, CatalogInvKept, PTL DEF CatalogSpec

(***************************************************************************)
(* What rests.                                                             *)
(***************************************************************************)

Rests(item) == shelf[item].status # "draft" /\ ~ReadAsDraft(item)

KeepsContent(item) == Content(shelf'[item]) = Content(shelf[item]) /\ shelf'[item].hash = shelf[item].hash

\* Requests that end are no longer there.
LEMMA FewerReaders ==
    ASSUME NEW item, ~ReadAsDraft(item), \A c \in Curators : bench'[c] \in {None, bench[c]}
    PROVE  ~ReadAsDraft(item)'
BY DEF ReadAsDraft

\* A write changes the status alone.
LEMMA StatusIsWritten ==
    ASSUME ShelfShape, NEW item \in DOMAIN shelf, NEW seen, RowShape(item, seen),
           NEW wanted, \A column \in Columns \ {"status"} : wanted[column] = seen[column],
           Write(item, seen, wanted)
    PROVE  \A k \in DOMAIN shelf : KeepsContent(k)
<1>1. DOMAIN shelf[item] = Columns
  BY DEF ShelfShape, RowShape
<1>2. /\ \A k \in DOMAIN shelf \ {item} : shelf'[k] = shelf[k]
      /\ shelf'[item] = Flushed(shelf[item], seen, wanted)
  BY DEF Write
<1>3. \A column \in Columns \ {"status"} : shelf'[item][column] = shelf[item][column]
  BY <1>1, <1>2 DEF Flushed
<1>4. KeepsContent(item)
  BY <1>3 DEF KeepsContent, Content, Columns
<1> QED
  BY <1>2, <1>4 DEF KeepsContent, Content

LEMMA WritesLetRest ==
    ASSUME CatalogInv, NEW c \in Curators, UpdateItem(c) \/ ApproveItem(c),
           NEW item \in DOMAIN shelf, Rests(item)
    PROVE  ~ReadAsDraft(item)' /\ KeepsContent(item)
<1>1. CallHolds(bench[c]) /\ RowShape(bench[c].item, bench[c].seen) /\ bench[c].item \in DOMAIN shelf
  BY DEF UpdateItem, ApproveItem, Commits, CatalogInv, BenchHolds, CallHolds
<1>2. bench' = [bench EXCEPT ![c] = None] /\ DOMAIN bench = Curators
  BY DEF UpdateItem, ApproveItem, Committed, CatalogInv, BenchHolds
<1>3. ~ReadAsDraft(item)'
  BY <1>2, FewerReaders DEF Rests
<1>4. CASE UpdateItem(c)
  <2> DEFINE wanted == Updated(bench[c].seen, bench[c].changes)
  <2>1. /\ Write(bench[c].item, bench[c].seen, wanted) /\ bench[c] # None /\ bench[c].kind = "update"
        /\ bench[c].changes \in Changes /\ UpdateIsAllowed(bench[c].seen, bench[c].changes)
    BY <1>1, <1>4 DEF UpdateItem, Commits, CallHolds
  <2>2. CASE item = bench[c].item
    <3>1. bench[c].seen.status # "draft"
      BY <2>1, <2>2 DEF Rests, ReadAsDraft
    <3>2. \A column \in Columns \ {"status"} : wanted[column] = bench[c].seen[column]
      BY <1>1, <2>1, <3>1, UpdatedRow
    <3> HIDE DEF wanted
    <3> QED
      BY <1>1, <1>3, <2>1, <3>2, StatusIsWritten DEF CatalogInv
  <2>3. CASE item # bench[c].item
    <3>1. shelf'[item] = shelf[item]
      BY <2>1, <2>3 DEF Write
    <3> QED
      BY <1>3, <3>1 DEF KeepsContent, Content
  <2> QED
    BY <2>2, <2>3
<1>5. CASE ApproveItem(c)
  <2> DEFINE wanted == [bench[c].seen EXCEPT !.status = "approved"]
  <2>1. Write(bench[c].item, bench[c].seen, wanted)
    BY <1>5 DEF ApproveItem
  <2>2. \A column \in Columns \ {"status"} : wanted[column] = bench[c].seen[column]
    BY <1>1, ApprovedRow
  <2> HIDE DEF wanted
  <2> QED
    BY <1>1, <1>3, <2>1, <2>2, StatusIsWritten DEF CatalogInv
<1> QED
  BY <1>4, <1>5

LEMMA AdditionsLetRest ==
    ASSUME CatalogInv, NEW c \in Curators, CreateItem(c) \/ DeriveItem(c),
           NEW item \in DOMAIN shelf, Rests(item)
    PROVE  ~ReadAsDraft(item)' /\ KeepsContent(item)
<1>1. \A d \in Curators : bench'[d] \in {None, bench[d]}
  BY DEF CreateItem, DeriveItem, Committed, CatalogInv, BenchHolds
<1>2. \E key, row : key \notin DOMAIN shelf /\ shelf' = Put(shelf, key, row)
  BY DEF CreateItem, DeriveItem
<1>3. shelf'[item] = shelf[item]
  BY <1>2 DEF Put
<1> QED
  BY <1>1, <1>3, FewerReaders DEF Rests, KeepsContent, Content

LEMMA ReadsLetRest ==
    ASSUME CatalogInv, NEW c \in Curators,
           ReadToUpdate(c) \/ ReadToApprove(c) \/ ReadToDerive(c) \/ ReadLatest(c) \/ Abandon(c),
           NEW item \in DOMAIN shelf, Rests(item)
    PROVE  ~ReadAsDraft(item)' /\ KeepsContent(item)
<1>1. KeepsContent(item)
  BY DEF ReadToUpdate, ReadToApprove, ReadToDerive, ReadLatest, Abandon, Asks, KeepsContent, Content
<1>2. CASE Abandon(c)
  BY <1>1, <1>2, FewerReaders DEF Abandon, CatalogInv, BenchHolds, Rests
<1>3. CASE ReadLatest(c)
  <2>1. PICK call : bench' = [bench EXCEPT ![c] = call] /\ call.kind = "derive"
    <3>1. bench[c].kind = "derive" /\ DOMAIN bench[c] = {"kind", "item", "changes", "seen", "latest"}
      BY <1>3 DEF ReadLatest, CatalogInv, BenchHolds, CallHolds
    <3>2. \E n : bench' = [bench EXCEPT ![c] = [bench[c] EXCEPT !.latest = n]]
      BY <1>3 DEF ReadLatest
    <3> QED
      BY <3>1, <3>2
  <2> QED
    BY <1>1, <2>1 DEF Rests, ReadAsDraft, CatalogInv, BenchHolds
<1>4. CASE ReadToUpdate(c) \/ ReadToApprove(c) \/ ReadToDerive(c)
  <2>1. PICK kind, other, changes : bench' = [bench EXCEPT ![c] = Opened(kind, other, changes)]
    BY <1>4 DEF ReadToUpdate, ReadToApprove, ReadToDerive, Asks
  <2>2. /\ \A d \in Curators \ {c} : bench'[d] = bench[d]
        /\ bench'[c] = Opened(kind, other, changes)
    BY <2>1 DEF CatalogInv, BenchHolds
  <2>3. bench'[c].item = item => bench'[c].seen.status # "draft"
    BY <2>2 DEF Opened, Rests
  <2> QED
    BY <1>1, <2>2, <2>3 DEF Rests, ReadAsDraft
<1> QED
  BY <1>2, <1>3, <1>4

LEMMA StepLetsRest ==
    ASSUME CatalogInv, [CatalogNext]_catalogVars, NEW item \in DOMAIN shelf, Rests(item)
    PROVE  ~ReadAsDraft(item)' /\ KeepsContent(item)
<1>1. CASE UNCHANGED catalogVars
  BY <1>1 DEF catalogVars, Rests, ReadAsDraft, KeepsContent, Content
<1> QED
  BY <1>1, WritesLetRest, AdditionsLetRest, ReadsLetRest DEF CatalogNext

\* However the requests interleave, versions follow, and a version that was approved or archived
\* rests once every update that read it as a draft has ended (update_catalog_item,
\* approve_catalog_item).
THEOREM KeptCatalog == CatalogSpec => CatalogIsKept
<1>1. CatalogInv /\ [CatalogNext]_catalogVars =>
          \A item \in DOMAIN shelf :
              shelf[item].status # "draft" /\ ~ReadAsDraft(item) =>
                  /\ ~ReadAsDraft(item)'
                  /\ Content(shelf'[item]) = Content(shelf[item])
                  /\ shelf'[item].hash = shelf[item].hash
  BY StepLetsRest DEF Rests, KeepsContent
<1>2. CatalogInv => CatalogVersionsFollow
  BY DEF CatalogInv, Numbered, SettledHolds, CatalogVersionsFollow
<1> QED
  BY <1>1, <1>2, CatalogStarts, CatalogInvKept, PTL DEF CatalogSpec, CatalogIsKept
=============================================================================
