------------------------------- MODULE Runner -------------------------------
(***************************************************************************)
(* The survey runner (internal/runner.go) and the command-line process     *)
(* around it (cmd/fairy/main.go): the propose/execute loop of RunSurvey,   *)
(* the de-duplication of proposals, the concurrent batch with its limit,   *)
(* recording, the report, and saving and resuming the state.               *)
(*                                                                         *)
(* The policy is arbitrary: at every round it may say Done, fail, or       *)
(* propose any sequence of Proposals.  A probe's result is abstracted to   *)
(* whether the probe answered, was cut short by the survey's context, or   *)
(* was started when that context was already dead.  The deadline of the    *)
(* survey, a cancellation by the caller and a crash of the process may     *)
(* come between any two steps.                                             *)
(***************************************************************************)
EXTENDS Integers, Sequences, FiniteSets

CONSTANTS
    Drafts,            \* experiments as policies write them, before Normalize
    IdOf,              \* the identity of each once normalized
    Proposals,         \* the sequences of drafts a policy may propose
    MaxProbesGiven,    \* the values of Options.MaxProbes
    DefaultMaxProbes,  \* what stands for a MaxProbes that is not positive
    MaxConcurrent,     \* the limit of one batch
    MaxRounds,         \* bound on the rounds of one run
    MaxRuns            \* model bound: processes started

Ids == {IdOf[d] : d \in Drafts}

ASSUME RunnerAssumption ==
    /\ IdOf \in [Drafts -> Ids]
    /\ Proposals \subseteq Seq(Drafts)
    /\ MaxProbesGiven \subseteq Int
    /\ DefaultMaxProbes \in Nat \ {0}
    /\ MaxConcurrent \in Nat \ {0}
    /\ MaxRounds \in Nat \ {0}
    /\ MaxRuns \in Nat

VARIABLES
    pc,        \* where the process is
    ctx,       \* the survey's context: live, past its deadline, or cancelled
    observations, \* SurveyState.Observations
    rounds,    \* SurveyState.Rounds
    counter,   \* SurveyState.Round
    budget,    \* local of RunSurvey: experiments it may still run
    round,     \* local of RunSurvey: the loop variable
    proposal,  \* what the policy returned
    scan,      \* local of dedupe: the proposals looked at
    proposed,  \* local of RunSurvey: the experiments of this round
    work,      \* the goroutine of each of them
    results,   \* local of runBatch: one slot for each of them
    recorded,  \* how many of the results are in the state
    report,    \* the report returned
    file,      \* the state file: missing, truncated or whole
    saved,     \* the SurveyState last written to it completely
    cap,       \* history: the probe budget of this run
    runs       \* history: processes started

vars == <<pc, ctx, observations, rounds, counter, budget, round, proposal, scan,
          proposed, work, results, recorded, report, file, saved, cap, runs>>

\* What the process holds in memory, and what it shares with nobody.
stateVars == <<observations, rounds, counter>>
batchVars == <<proposal, scan, proposed, work, results, recorded>>
diskVars  == <<file, saved>>

How == {"answered", "cut", "unattempted"}

Observation == [id : Ids, how : How]

\* The zero value of an Observation, which make() puts in every slot.
Zero == [id |-> "", how |-> ""]

FreshState == [observations |-> << >>, rounds |-> << >>, round |-> 0]
NoReport   == [observations |-> << >>, err |-> FALSE]

IdsOf(obs)    == {obs[i].id : i \in DOMAIN obs}
ElementsOf(s) == {s[i] : i \in DOMAIN s}
Fill(n) == IF n <= 0 THEN DefaultMaxProbes ELSE n
AtLeastZero(n) == IF n < 0 THEN 0 ELSE n

\* Mutant: the search stops one short of the last observation.
HasExperimentOffByOne(id) ==
    \E i \in 1..(Len(observations) - 1) : observations[i].id = id

HasExperiment(id) == id \in IdsOf(observations)

Running == {i \in DOMAIN work : work[i] \in {"live", "late"}}

-----------------------------------------------------------------------------
(* The process starts: a fresh survey, or one resumed from the file. *)

Init ==
    /\ pc = "idle"
    /\ ctx = "live"
    /\ observations = << >> /\ rounds = << >> /\ counter = 0
    /\ budget = 0 /\ round = 0
    /\ proposal = << >> /\ scan = 0 /\ proposed = << >>
    /\ work = << >> /\ results = << >> /\ recorded = 0
    /\ report = NoReport
    /\ file = "missing" /\ saved = FreshState
    /\ cap = 0 /\ runs = 0

RunSurvey(s, maxProbes) ==
    /\ pc = "idle"
    /\ runs < MaxRuns
    /\ pc' = "loop"
    /\ ctx' = "live"
    /\ observations' = s.observations
    /\ rounds' = s.rounds
    /\ counter' = s.round
    /\ cap' = Fill(maxProbes)
    /\ budget' = AtLeastZero(Fill(maxProbes) - Len(s.observations))
    /\ round' = 0
    /\ runs' = runs + 1
    /\ UNCHANGED <<batchVars, report>>

\* Without --resume the survey is a new one, and an earlier file is no
\* longer its own.
Survey(maxProbes) ==
    /\ RunSurvey(FreshState, maxProbes)
    /\ file' = "missing" /\ saved' = FreshState

\* Mutant: only what was answered is resumed.
ResumeAnswered(maxProbes) ==
    /\ file = "whole"
    /\ LET Answered(o) == o.how = "answered"
       IN  RunSurvey([saved EXCEPT !.observations = SelectSeq(@, Answered)], maxProbes)
    /\ UNCHANGED diskVars

\* --resume FILE
Resume(maxProbes) ==
    /\ file = "whole"
    /\ RunSurvey(saved, maxProbes)
    /\ UNCHANGED diskVars

-----------------------------------------------------------------------------
(* One round of the loop, up to the batch. *)

\* The three ways out of the loop, in the order the code tests them.
Leave ==
    /\ pc = "loop"
    /\ round >= MaxRounds \/ ctx # "live" \/ budget <= 0
    /\ pc' = "report"
    /\ UNCHANGED <<ctx, stateVars, budget, round, batchVars, report, diskVars, cap, runs>>

CanPropose ==
    /\ pc = "loop"
    /\ round < MaxRounds
    /\ ctx = "live"
    /\ budget > 0

PolicyDone ==
    /\ CanPropose
    /\ pc' = "report"
    /\ UNCHANGED <<ctx, stateVars, budget, round, batchVars, report, diskVars, cap, runs>>

\* Propose returns an error: no report, whatever was recorded.
PolicyFails ==
    /\ CanPropose
    /\ pc' = "failed"
    /\ UNCHANGED <<ctx, stateVars, budget, round, batchVars, report, diskVars, cap, runs>>

PolicyProposes(p) ==
    /\ CanPropose
    /\ pc' = "dedupe"
    /\ proposal' = p
    /\ scan' = 0
    /\ proposed' = << >>
    /\ UNCHANGED <<ctx, stateVars, budget, round, work, results, recorded, report,
                   diskVars, cap, runs>>

\* Mutant: proposals are not capped at the budget.
ScanningAll ==
    /\ pc = "dedupe"
    /\ scan < Len(proposal)

Scanning ==
    /\ pc = "dedupe"
    /\ scan < Len(proposal)
    /\ Len(proposed) < budget

\* Mutant: only the state is asked, not the batch.
SkipsRecorded(id) == HasExperiment(id)

\* Mutant: only the batch is asked, not the state.
SkipsSeen(id) == id \in ElementsOf(proposed)

\* dedupe drops a proposal that is recorded or already in the batch.
Skips(id) == HasExperiment(id) \/ id \in ElementsOf(proposed)

\* Mutant: the proposal is not normalized before it is compared.
DedupeRaw ==
    /\ Scanning
    /\ scan' = scan + 1
    /\ LET id == proposal[scan + 1]
       IN  proposed' = IF Skips(id) THEN proposed ELSE Append(proposed, id)
    /\ UNCHANGED <<pc, ctx, stateVars, budget, round, proposal, work, results,
                   recorded, report, diskVars, cap, runs>>

Dedupe ==
    /\ Scanning
    /\ scan' = scan + 1
    /\ LET id == IdOf[proposal[scan + 1]]
       IN  proposed' = IF Skips(id) THEN proposed ELSE Append(proposed, id)
    /\ UNCHANGED <<pc, ctx, stateVars, budget, round, proposal, work, results,
                   recorded, report, diskVars, cap, runs>>

\* dedupe returns: nothing new ends the survey, anything else is a batch.
Dispatch ==
    /\ pc = "dedupe"
    /\ ~Scanning
    /\ IF proposed = << >>
       THEN pc' = "report" /\ UNCHANGED <<work, results>>
       ELSE /\ pc' = "batch"
            /\ work' = [i \in 1..Len(proposed) |-> "queued"]
            /\ results' = [i \in 1..Len(proposed) |-> Zero]
    /\ UNCHANGED <<ctx, stateVars, budget, round, proposal, scan, proposed,
                   recorded, report, diskVars, cap, runs>>

-----------------------------------------------------------------------------
(* The batch: g.Go starts the goroutines in order and blocks at the limit. *)

Room == Cardinality(Running) < MaxConcurrent

\* Mutant: nothing is started any more once the context is dead.
SpawnLive(i) ==
    /\ pc = "batch"
    /\ ctx = "live"
    /\ work[i] = "queued"
    /\ \A j \in DOMAIN work : j < i => work[j] # "queued"
    /\ Room
    /\ work' = [work EXCEPT ![i] = "live"]
    /\ UNCHANGED <<pc, ctx, stateVars, budget, round, proposal, scan, proposed,
                   results, recorded, report, diskVars, cap, runs>>

Spawn(i) ==
    /\ pc = "batch"
    /\ work[i] = "queued"
    /\ \A j \in DOMAIN work : j < i => work[j] # "queued"
    /\ Room
    /\ work' = [work EXCEPT ![i] = IF ctx = "live" THEN "live" ELSE "late"]
    /\ UNCHANGED <<pc, ctx, stateVars, budget, round, proposal, scan, proposed,
                   results, recorded, report, diskVars, cap, runs>>

\* What a probe can have to tell: one started on a dead context never
\* touched the network; one overtaken by it may still have had its answer.
Outcomes(i) ==
    IF work[i] = "late" THEN {"unattempted"}
    ELSE IF ctx = "live" THEN {"answered"} ELSE {"answered", "cut"}

\* Mutant: results are collected as they come.
FinishAppends(i) ==
    /\ pc = "batch"
    /\ i \in Running
    /\ LET next == Cardinality({j \in DOMAIN work : work[j] = "finished"}) + 1
       IN  \E how \in Outcomes(i) :
              results' = [results EXCEPT ![next] = [id |-> proposed[i], how |-> how]]
    /\ work' = [work EXCEPT ![i] = "finished"]
    /\ UNCHANGED <<pc, ctx, stateVars, budget, round, proposal, scan, proposed,
                   recorded, report, diskVars, cap, runs>>

Finish(i) ==
    /\ pc = "batch"
    /\ i \in Running
    /\ \E how \in Outcomes(i) :
          results' = [results EXCEPT ![i] = [id |-> proposed[i], how |-> how]]
    /\ work' = [work EXCEPT ![i] = "finished"]
    /\ UNCHANGED <<pc, ctx, stateVars, budget, round, proposal, scan, proposed,
                   recorded, report, diskVars, cap, runs>>

\* g.Wait, and the round's entry in the state, before its observations.
Wait ==
    /\ pc = "batch"
    /\ \A i \in DOMAIN work : work[i] = "finished"
    /\ pc' = "record"
    /\ recorded' = 0
    /\ rounds' = Append(rounds, [index |-> counter, proposed |-> proposed])
    /\ UNCHANGED <<ctx, observations, counter, budget, round, proposal, scan, proposed, work, results,
                   report, diskVars, cap, runs>>

\* Mutant: recording stops when the context is dead.
AddObservationLive ==
    /\ pc = "record"
    /\ recorded < Len(results)
    /\ IF ctx # "live"
       THEN pc' = "report" /\ UNCHANGED <<observations, recorded>>
       ELSE /\ observations' = Append(observations, results[recorded + 1])
            /\ recorded' = recorded + 1
            /\ UNCHANGED pc
    /\ UNCHANGED <<ctx, rounds, counter, budget, round, proposal, scan, proposed,
                   work, results, report, diskVars, cap, runs>>

\* AddObservation: a duplicate is an error, and then there is no report.
AddObservation ==
    /\ pc = "record"
    /\ recorded < Len(results)
    /\ LET o == results[recorded + 1]
       IN  IF HasExperiment(o.id)
           THEN pc' = "duplicate" /\ UNCHANGED <<observations, recorded>>
           ELSE /\ observations' = Append(observations, o)
                /\ recorded' = recorded + 1
                /\ UNCHANGED pc
    /\ UNCHANGED <<ctx, rounds, counter, budget, round, proposal, scan, proposed,
                   work, results, report, diskVars, cap, runs>>

\* The end of the loop's body.
EndRound ==
    /\ pc = "record"
    /\ recorded = Len(results)
    /\ pc' = "loop"
    /\ counter' = counter + 1
    /\ budget' = budget - Len(proposed)
    /\ round' = round + 1
    /\ proposal' = << >> /\ scan' = 0 /\ proposed' = << >>
    /\ work' = << >> /\ results' = << >> /\ recorded' = 0
    /\ UNCHANGED <<ctx, observations, rounds, report, diskVars, cap, runs>>

-----------------------------------------------------------------------------
(* The report, and what the command does with it. *)

MakeReport ==
    /\ pc = "report"
    /\ pc' = "reported"
    /\ report' = [observations |-> observations, err |-> ctx = "cancelled"]
    /\ UNCHANGED <<ctx, stateVars, budget, round, batchVars, diskVars, cap, runs>>

\* The process is gone, and its memory with it.
Forget ==
    /\ pc' = "idle"
    /\ ctx' = "live"
    /\ observations' = << >> /\ rounds' = << >> /\ counter' = 0
    /\ budget' = 0 /\ round' = 0
    /\ proposal' = << >> /\ scan' = 0 /\ proposed' = << >>
    /\ work' = << >> /\ results' = << >> /\ recorded' = 0
    /\ report' = NoReport
    /\ cap' = 0
    /\ UNCHANGED runs

\* --save FILE: os.WriteFile truncates the file, then writes it.
Truncate ==
    /\ pc = "reported"
    /\ pc' = "saving"
    /\ file' = "truncated"
    /\ UNCHANGED <<ctx, stateVars, budget, round, batchVars, report, saved, cap, runs>>

Save ==
    /\ pc = "saving"
    /\ file' = "whole"
    /\ saved' = [observations |-> observations, rounds |-> rounds, round |-> counter]
    /\ Forget

\* The command ends without --save, or without a report.
Exit ==
    /\ pc \in {"reported", "failed", "duplicate"}
    /\ Forget
    /\ UNCHANGED diskVars

-----------------------------------------------------------------------------
(* The environment. *)

Deadline ==
    /\ pc \in {"loop", "dedupe", "batch", "record", "report"}
    /\ ctx = "live"
    /\ ctx' = "expired"
    /\ UNCHANGED <<pc, stateVars, budget, round, batchVars, report, diskVars, cap, runs>>

Cancel ==
    /\ pc \in {"loop", "dedupe", "batch", "record", "report"}
    /\ ctx # "cancelled"
    /\ ctx' = "cancelled"
    /\ UNCHANGED <<pc, stateVars, budget, round, batchVars, report, diskVars, cap, runs>>

Crash ==
    /\ pc # "idle"
    /\ Forget
    /\ UNCHANGED diskVars

-----------------------------------------------------------------------------

Start == \E n \in MaxProbesGiven : Survey(n) \/ Resume(n)

\* The steps of the goroutine that runs RunSurvey, the policy's included.
Policy == PolicyDone \/ PolicyFails \/ \E p \in Proposals : PolicyProposes(p)

Loop ==
    \/ Leave \/ Policy \/ Dedupe \/ Dispatch
    \/ \E i \in DOMAIN work : Spawn(i)
    \/ Wait \/ AddObservation \/ EndRound \/ MakeReport

Next ==
    \/ Start
    \/ Loop
    \/ \E i \in DOMAIN work : Finish(i)
    \/ Truncate \/ Save \/ Exit
    \/ Deadline \/ Cancel \/ Crash

Spec == Init /\ [][Next]_vars

\* The goroutine of RunSurvey and the goroutine of every probe run: a probe
\* is bounded by the budget of its layer, so each one comes back.
Fairness ==
    /\ WF_vars(Loop)
    /\ WF_vars(\E i \in DOMAIN work : Finish(i))

FairSpec == Spec /\ Fairness
-----------------------------------------------------------------------------
(* Types *)

Phases == {"idle", "loop", "dedupe", "batch", "record", "report", "reported",
           "saving", "failed", "duplicate"}

Round == [index : Nat, proposed : Seq(Ids)]

SurveyState == [observations : Seq(Observation), rounds : Seq(Round), round : Nat]

\* Every variable holds what the code's declaration of it allows.
TypeOK ==
    /\ pc \in Phases
    /\ ctx \in {"live", "expired", "cancelled"}
    /\ observations \in Seq(Observation)
    /\ rounds \in Seq(Round)
    /\ counter \in Nat
    /\ budget \in Int
    /\ round \in Nat
    /\ proposal \in Seq(Drafts)
    /\ scan \in Nat
    /\ proposed \in Seq(Ids)
    /\ work \in Seq({"queued", "live", "late", "finished"})
    /\ results \in Seq(Observation \cup {Zero})
    /\ recorded \in Nat
    /\ report \in [observations : Seq(Observation), err : BOOLEAN]
    /\ file \in {"missing", "truncated", "whole"}
    /\ saved \in SurveyState
    /\ cap \in Nat
    /\ runs \in Nat

-----------------------------------------------------------------------------
(* Safety *)

Distinct(s) == \A i, j \in DOMAIN s : s[i] = s[j] => i = j

DistinctIds(obs) ==
    \A i, j \in DOMAIN obs : obs[i].id = obs[j].id => i = j

\* "The same experiment ID is never recorded twice" (internal/model/types.go):
\* not in the state of the survey underway, whatever the policy repeats and
\* however often the survey was resumed, and not in the state on disk.
RecordedOnce ==
    /\ DistinctIds(observations)
    /\ DistinctIds(saved.observations)

\* RunSurvey never reaches the error return of AddObservation, which would
\* throw away the whole report: dedupe has already dropped every duplicate.
NoDuplicateError == pc # "duplicate"

\* A probe that is running is the only one for its experiment, and neither
\* this run nor an earlier one whose state was resumed has recorded it.
NeverRerun ==
    \A i \in Running :
        /\ proposed[i] \notin IdsOf(observations)
        /\ proposed[i] \notin IdsOf(saved.observations)
        /\ \A j \in Running : proposed[j] = proposed[i] => j = i

\* A run never holds more observations than its probe budget, the batch in
\* flight included, unless the state it resumed already did.
Larger(a, b) == IF a < b THEN b ELSE a
WithinBudget ==
    pc # "idle" =>
        Len(observations) + (Len(proposed) - recorded)
            <= Larger(cap, Len(saved.observations))
=============================================================================
