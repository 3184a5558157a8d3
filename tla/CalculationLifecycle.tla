------------------------ MODULE CalculationLifecycle ------------------------
(***************************************************************************)
(* What the API promises of a calculation, whatever process executes it:   *)
(* the life of a row of calculation_runs as its clients poll it.  A        *)
(* conclusion, a technical error and a cancellation are final; a decision  *)
(* is taken once, and only a concluded and eligible result is approved.    *)
(***************************************************************************)
CONSTANTS
    Calcs,       \* calculation identifiers
    Eligible     \* the calculations whose result is eligible to the decision

VARIABLES
    phase,       \* where each calculation stands
    decision     \* the decision taken on it

vars == <<phase, decision>>

Phases    == {"absent", "waiting", "running", "concluded", "failed", "cancelled"}
Open      == {"waiting", "running"}
Decisions == {"approved", "rejected"}

Init ==
    /\ phase = [c \in Calcs |-> "absent"]
    /\ decision = [c \in Calcs |-> "pending"]

Move(c, from, to) ==
    /\ phase[c] \in from
    /\ phase' = [phase EXCEPT ![c] = to]
    /\ UNCHANGED decision

Submit(c)   == Move(c, {"absent"}, "waiting")
Start(c)    == Move(c, {"waiting"}, "running")
Retry(c)    == Move(c, {"running"}, "waiting")
Conclude(c) == Move(c, {"running"}, "concluded")
Cancel(c)   == Move(c, Open, "cancelled")

\* Several calculations may be given up in one transaction.
GiveUp(S) ==
    /\ \A c \in S : phase[c] \in Open
    /\ phase' = [c \in Calcs |-> IF c \in S THEN "failed" ELSE phase[c]]
    /\ UNCHANGED decision

Decide(c, d) ==
    /\ phase[c] # "absent"
    /\ decision[c] = "pending"
    /\ d = "approved" => phase[c] = "concluded" /\ c \in Eligible
    /\ decision' = [decision EXCEPT ![c] = d]
    /\ UNCHANGED phase

Next ==
    \/ \E c \in Calcs :
          \/ Submit(c) \/ Start(c) \/ Retry(c) \/ Conclude(c) \/ Cancel(c)
          \/ \E d \in Decisions : Decide(c, d)
    \/ \E S \in SUBSET Calcs : GiveUp(S)

Spec == Init /\ [][Next]_vars

\* Every calculation that was submitted reaches a final phase.
Settles == \A c \in Calcs : phase[c] = "waiting" ~> phase[c] \notin Open
=============================================================================
