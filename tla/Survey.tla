------------------------------- MODULE Survey -------------------------------
(***************************************************************************)
(* A survey at the grain of its observations: a built-in policy proposes,  *)
(* the runner records, the inference reports, and the recorded state may   *)
(* be resumed, under the same policy or under another.                     *)
(*                                                                         *)
(* Runner.tla models what happens inside a round, and shows that a round's *)
(* results are recorded in the order of its proposal and that no proposal  *)
(* is made while a round is being recorded; so here the policy is asked,   *)
(* and then one result after the other is recorded.                        *)
(***************************************************************************)
EXTENDS Policies, Infer

CONSTANTS
    FirstPolicies,   \* the policies a survey may be started with
    NextPolicies,    \* and those it may be resumed with
    MaxProbesGiven,  \* the probe budgets of a run
    Outcomes,        \* what a probe of a layer may find: [status, marks]
    MaxResumes,      \* model bound
    MaxRounds        \* bound on the rounds of one run

ASSUME SurveyAssumption ==
    /\ FirstPolicies \subseteq PolicyNames /\ NextPolicies \subseteq PolicyNames
    /\ MaxProbesGiven \subseteq Nat
    /\ Outcomes \in [Layers -> SUBSET [status : Statuses, marks : SUBSET Marks]]
    /\ MaxResumes \in Nat
    /\ MaxRounds \in Nat \ {0}

VARIABLES
    pc,            \* "loop", "record" or "reported"
    policy,        \* the policy of this run
    observations,  \* SurveyState.Observations
    batch,         \* what is proposed and not yet recorded
    budget,        \* the experiments this run may still record
    round,         \* rounds of this run
    findings,      \* the findings reported
    ran,           \* history: the policies of this run and the earlier ones
    resumes        \* history: runs after the first

vars == <<pc, policy, observations, batch, budget, round, findings, ran, resumes>>

Init ==
    /\ pc = "loop"
    /\ policy \in FirstPolicies
    /\ observations = << >>
    /\ batch = << >>
    /\ budget \in MaxProbesGiven
    /\ round = 0
    /\ findings = {}
    /\ ran = {policy}
    /\ resumes = 0

MayPropose == round < MaxRounds /\ budget > 0 /\ ~Done(policy, observations)

Proposal == Propose(policy, observations, budget)

\* A round with something new in it.
ProposeRound ==
    /\ pc = "loop"
    /\ MayPropose
    /\ Proposal # << >>
    /\ pc' = "record"
    /\ batch' = Proposal
    /\ UNCHANGED <<policy, observations, budget, round, findings, ran, resumes>>

Record ==
    /\ pc = "record"
    /\ batch # << >>
    /\ \E o \in Outcomes[Head(batch).layer] :
          observations' = Append(observations,
                                 [exp |-> Head(batch), status |-> o.status, marks |-> o.marks])
    /\ batch' = Tail(batch)
    /\ budget' = budget - 1
    /\ UNCHANGED <<pc, policy, round, findings, ran, resumes>>

EndRound ==
    /\ pc = "record"
    /\ batch = << >>
    /\ pc' = "loop"
    /\ round' = round + 1
    /\ UNCHANGED <<policy, observations, batch, budget, findings, ran, resumes>>

Report ==
    /\ pc' = "reported"
    /\ findings' = Inferred(observations)
    /\ UNCHANGED <<policy, observations, batch, budget, round, ran, resumes>>

Finish ==
    /\ pc = "loop"
    /\ ~MayPropose \/ Proposal = << >>
    /\ Report

\* The survey's context is dead.
Interrupt ==
    /\ pc = "loop"
    /\ Report

\* Another run on the recorded state: --resume, with any policy and budget.
Resume ==
    /\ pc = "reported"
    /\ resumes < MaxResumes
    /\ pc' = "loop"
    /\ policy' \in NextPolicies
    /\ \E n \in MaxProbesGiven :
          budget' = IF n > Len(observations) THEN n - Len(observations) ELSE 0
    /\ round' = 0
    /\ findings' = {}
    /\ ran' = ran \cup {policy'}
    /\ resumes' = resumes + 1
    /\ UNCHANGED <<observations, batch>>

Next == ProposeRound \/ Record \/ EndRound \/ Finish \/ Interrupt \/ Resume

Spec == Init /\ [][Next]_vars
=============================================================================
