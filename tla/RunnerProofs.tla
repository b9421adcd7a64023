---------------------------- MODULE RunnerProofs ----------------------------
(***************************************************************************)
(* The runner's safety for every set of experiments, every policy, every   *)
(* budget, limit and number of processes.                                  *)
(***************************************************************************)
EXTENDS RunnerProps, SequenceTheorems, WellFoundedInduction, TLAPS

\* The local variables of a round exist only while the round does.
RoundShape ==
    /\ pc \in {"batch", "record"} =>
          /\ Len(work) = Len(proposed)
          /\ Len(results) = Len(proposed)
          /\ Len(proposed) > 0
    /\ pc # "batch" => \A i \in 1..Len(work) : work[i] = "finished"
    /\ pc \notin {"dedupe", "batch", "record"} => proposed = << >>
    /\ pc # "record" => recorded = 0
    /\ recorded <= Len(proposed)
    /\ pc # "duplicate"

\* A finished goroutine has filled its own slot with its own experiment.
ResultsInPlace ==
    pc \in {"batch", "record"} =>
        \A i \in 1..Len(work) : work[i] = "finished" =>
            results[i] \in Observation /\ results[i].id = proposed[i]

\* What dedupe has let through is new, and stays so until it is recorded.
ProposedNew ==
    /\ Distinct(proposed)
    /\ \A i \in (recorded + 1)..Len(proposed) :
          proposed[i] \notin IdsOf(observations)

\* The state underway continues the saved one.
ContinuesSaved ==
    pc # "idle" =>
        /\ Len(saved.observations) <= Len(observations)
        /\ \A i \in 1..Len(saved.observations) :
              observations[i] = saved.observations[i]

\* What is recorded and what may still be recorded, against the budget.
Accounting ==
    /\ Len(proposed) <= budget
    /\ recorded <= Len(observations)
    /\ pc # "idle" =>
          Len(observations) - recorded + budget
              <= Larger(cap, Len(saved.observations))
    /\ budget > 0 => Len(observations) - recorded + budget <= cap

IInv ==
    /\ TypeOK
    /\ RoundShape
    /\ ResultsInPlace
    /\ ProposedNew
    /\ ContinuesSaved
    /\ Accounting
    /\ RecordedOnce

-----------------------------------------------------------------------------

\* What replacing and appending one element do to a sequence.
LEMMA Updated ==
  ASSUME NEW S, NEW s \in Seq(S), NEW i \in 1..Len(s), NEW e \in S
  PROVE  /\ [s EXCEPT ![i] = e] \in Seq(S)
         /\ Len([s EXCEPT ![i] = e]) = Len(s)
         /\ \A j \in 1..Len(s) : [s EXCEPT ![i] = e][j] = IF j = i THEN e ELSE s[j]
  BY ExceptSeq

\* What appending one element does to a sequence, and to the set of its elements.
LEMMA Appended ==
  ASSUME NEW S, NEW s \in Seq(S), NEW e \in S
  PROVE  /\ Append(s, e) \in Seq(S)
         /\ Len(Append(s, e)) = Len(s) + 1
         /\ DOMAIN s = 1..Len(s)
         /\ DOMAIN Append(s, e) = 1..(Len(s) + 1)
         /\ \A j \in 1..Len(s) : Append(s, e)[j] = s[j]
         /\ Append(s, e)[Len(s) + 1] = e
  OBVIOUS

\* A value the sequence does not have can be appended to it.
LEMMA AppendDistinct ==
  ASSUME NEW S, NEW s \in Seq(S), NEW e \in S, Distinct(s),
         \A i \in 1..Len(s) : s[i] # e
  PROVE  Distinct(Append(s, e))
<1> DEFINE t == Append(s, e)
<1>1. SUFFICES ASSUME NEW i \in DOMAIN t, NEW j \in DOMAIN t, t[i] = t[j]
               PROVE  i = j
  BY DEF Distinct
<1>2. Len(s) \in Nat /\ i \in 1..(Len(s) + 1) /\ j \in 1..(Len(s) + 1)
  BY Appended
<1>3. \A k \in 1..(Len(s) + 1) : t[k] = IF k = Len(s) + 1 THEN e ELSE s[k]
  BY Appended
<1>4. \A k \in 1..(Len(s) + 1) : k = Len(s) + 1 \/ k \in 1..Len(s)
  BY <1>2
<1>5. DOMAIN s = 1..Len(s)
  OBVIOUS
<1> HIDE DEF t
<1> QED
  BY <1>1, <1>2, <1>3, <1>4, <1>5 DEF Distinct

\* The identities of a log after one more observation.
LEMMA AppendIds ==
  ASSUME NEW obs \in Seq(Observation), NEW o \in Observation
  PROVE  /\ IdsOf(Append(obs, o)) = IdsOf(obs) \cup {o.id}
         /\ DistinctIds(obs) /\ o.id \notin IdsOf(obs) => DistinctIds(Append(obs, o))
<1> DEFINE t == Append(obs, o)
<1>1. /\ DOMAIN obs = 1..Len(obs) /\ Len(obs) \in Nat
      /\ DOMAIN t = 1..(Len(obs) + 1)
      /\ \A k \in 1..(Len(obs) + 1) : t[k] = IF k = Len(obs) + 1 THEN o ELSE obs[k]
  BY Appended
<1>2. \A k \in 1..(Len(obs) + 1) : k = Len(obs) + 1 \/ k \in 1..Len(obs)
  BY <1>1
<1>3. 1..Len(obs) \subseteq 1..(Len(obs) + 1) /\ Len(obs) + 1 \in 1..(Len(obs) + 1)
      /\ Len(obs) + 1 \notin 1..Len(obs)
  BY <1>1
<1> HIDE DEF t
<1>4. IdsOf(t) = IdsOf(obs) \cup {o.id}
  BY <1>1, <1>2, <1>3 DEF IdsOf
<1>5. ASSUME DistinctIds(obs), o.id \notin IdsOf(obs) PROVE DistinctIds(t)
  BY <1>1, <1>2, <1>3, <1>5 DEF IdsOf, DistinctIds
<1> QED
  BY <1>4, <1>5 DEF t

\* A new survey starts from a well-formed state.
LEMMA FreshStateType == FreshState \in SurveyState
  BY DEF FreshState, SurveyState

\* Starting a survey on a well-formed state keeps the types.
LEMMA RunSurveyType ==
  ASSUME TypeOK, NEW s \in SurveyState, NEW n \in MaxProbesGiven, RunSurvey(s, n),
         diskVars' = diskVars \/ (file' = "missing" /\ saved' = FreshState)
  PROVE  TypeOK'
  BY RunnerAssumption, FreshStateType, SMTT(30)
     DEF TypeOK, RunSurvey, Phases, Fill, AtLeastZero, SurveyState, batchVars, diskVars

\* A process that ends leaves well-typed variables behind.
LEMMA ForgetType ==
  ASSUME TypeOK, Forget, saved' \in SurveyState,
         file' \in {"missing", "truncated", "whole"}
  PROVE  TypeOK'
  BY FreshStateType DEF TypeOK, Forget, Phases, NoReport

\* The next result to record is its experiment's own observation.
LEMMA NextResult ==
  ASSUME TypeOK, RoundShape, ResultsInPlace, AddObservation
  PROVE  /\ results[recorded + 1] \in Observation
         /\ results[recorded + 1].id = proposed[recorded + 1]
         /\ recorded + 1 \in 1..Len(proposed)
         /\ recorded + 1 \in (recorded + 1)..Len(proposed)
  BY DEF AddObservation, TypeOK, RoundShape, ResultsInPlace

\* Every variable keeps its type at every step.
LEMMA TypeStep ==
  ASSUME TypeOK, RoundShape, ResultsInPlace, [Next]_vars
  PROVE  TypeOK'
<1>1. ASSUME NEW n \in MaxProbesGiven, Survey(n) PROVE TypeOK'
  BY <1>1, RunSurveyType, FreshStateType DEF Survey
<1>2. ASSUME NEW n \in MaxProbesGiven, Resume(n) PROVE TypeOK'
  BY <1>2, RunSurveyType DEF Resume, TypeOK
<1>3. CASE Leave \/ PolicyDone \/ PolicyFails \/ Deadline \/ Cancel
  BY <1>3 DEF TypeOK, Leave, PolicyDone, PolicyFails, CanPropose, Deadline, Cancel,
              Phases, stateVars, batchVars, diskVars
<1>4. ASSUME NEW p \in Proposals, PolicyProposes(p) PROVE TypeOK'
  BY <1>4, RunnerAssumption DEF TypeOK, PolicyProposes, CanPropose, Phases, stateVars, diskVars
<1>5. CASE Dedupe
  <2> DEFINE id == IdOf[proposal[scan + 1]]
  <2>1. id \in Ids
    BY <1>5, RunnerAssumption DEF TypeOK, Dedupe, Scanning
  <2>2. proposed' \in Seq(Ids)
    BY <1>5, <2>1 DEF TypeOK, Dedupe
  <2> QED
    BY <1>5, <2>2 DEF TypeOK, Dedupe, stateVars, diskVars
<1>6. CASE Dispatch
  <2>1. work' \in Seq({"queued", "live", "late", "finished"})
    BY <1>6 DEF TypeOK, Dispatch
  <2>2. results' \in Seq(Observation \cup {Zero})
    BY <1>6 DEF TypeOK, Dispatch
  <2> QED
    BY <1>6, <2>1, <2>2 DEF TypeOK, Dispatch, Phases, stateVars, diskVars
<1>7. ASSUME NEW i \in DOMAIN work, Spawn(i) PROVE TypeOK'
  BY <1>7, SMTT(30) DEF TypeOK, Spawn, stateVars, diskVars
<1>8. ASSUME NEW i \in DOMAIN work, Finish(i) PROVE TypeOK'
  <2>1. PICK how \in Outcomes(i) :
           results' = [results EXCEPT ![i] = [id |-> proposed[i], how |-> how]]
    BY <1>8 DEF Finish
  <2>2. proposed[i] \in Ids
    BY <1>8 DEF TypeOK, RoundShape, Finish
  <2>3. [id |-> proposed[i], how |-> how] \in Observation
    BY <1>8, <2>1, <2>2 DEF Outcomes, Observation, How
  <2>4. results' \in Seq(Observation \cup {Zero})
    BY <1>8, <2>1, <2>3, ExceptSeq DEF TypeOK, RoundShape, Finish
  <2>5. work' \in Seq({"queued", "live", "late", "finished"})
    BY <1>8 DEF TypeOK, Finish
  <2> QED
    BY <1>8, <2>4, <2>5 DEF TypeOK, Finish, stateVars, diskVars
<1>9. CASE Wait
  <2>1. [index |-> counter, proposed |-> proposed] \in Round
    BY DEF TypeOK, Round
  <2> QED
    BY <1>9, <2>1 DEF TypeOK, Wait, Phases, diskVars
<1>10. CASE AddObservation
  <2>1. results[recorded + 1] \in Observation
    BY <1>10, NextResult
  <2>2. observations' \in Seq(Observation) /\ recorded' \in Nat /\ pc' \in Phases
    <3>1. CASE HasExperiment(results[recorded + 1].id)
      BY <1>10, <3>1 DEF TypeOK, AddObservation, Phases
    <3>2. CASE ~HasExperiment(results[recorded + 1].id)
      <4>1. observations' = Append(observations, results[recorded + 1])
        BY <1>10, <3>2 DEF AddObservation
      <4>2. observations' \in Seq(Observation)
        BY <2>1, <4>1, AppendProperties DEF TypeOK
      <4> QED
        BY <1>10, <3>2, <4>2 DEF TypeOK, AddObservation
    <3> QED
      BY <3>1, <3>2
  <2>3. UNCHANGED <<ctx, rounds, counter, budget, round, proposal, scan, proposed,
                    work, results, report, file, saved, cap, runs>>
    BY <1>10 DEF AddObservation, diskVars
  <2> QED
    BY <2>2, <2>3 DEF TypeOK
<1>11. CASE EndRound
  BY <1>11 DEF TypeOK, EndRound, Phases, diskVars
<1>12. CASE MakeReport
  BY <1>12 DEF TypeOK, MakeReport, Phases, stateVars, batchVars, diskVars
<1>13. CASE Truncate
  BY <1>13 DEF TypeOK, Truncate, Phases, stateVars, batchVars
<1>14. CASE Save
  BY <1>14, ForgetType DEF TypeOK, Save, SurveyState
<1>15. CASE Exit \/ Crash
  BY <1>15, ForgetType DEF TypeOK, Exit, Crash, diskVars
<1>16. CASE UNCHANGED vars
  BY <1>16 DEF TypeOK, vars
<1> QED
  BY <1>1, <1>2, <1>3, <1>4, <1>5, <1>6, <1>7, <1>8, <1>9, <1>10, <1>11, <1>12,
     <1>13, <1>14, <1>15, <1>16
     DEF Next, Start, Loop, Policy

-----------------------------------------------------------------------------

\* The shape of a round: where each action leaves the locals.
LEMMA ShapeStep ==
  ASSUME IInv, [Next]_vars
  PROVE  RoundShape'
<1> USE DEF RoundShape
<1> TypeOK /\ RoundShape
  BY DEF IInv
<1>1. ASSUME NEW s, NEW n, RunSurvey(s, n) PROVE RoundShape'
  BY <1>1 DEF RunSurvey, batchVars, TypeOK
<1>2. ASSUME NEW n \in MaxProbesGiven, Survey(n) \/ Resume(n) PROVE RoundShape'
  BY <1>1, <1>2 DEF Survey, Resume
<1>3. CASE Leave \/ PolicyDone \/ PolicyFails \/ Deadline \/ Cancel \/ MakeReport \/ Truncate
  BY <1>3 DEF TypeOK, Leave, PolicyDone, PolicyFails, CanPropose, Deadline, Cancel,
              MakeReport, Truncate, batchVars
<1>4. ASSUME NEW p \in Proposals, PolicyProposes(p) PROVE RoundShape'
  BY <1>4 DEF TypeOK, PolicyProposes, CanPropose
<1>5. CASE Dedupe
  <2>1. proposed' \in Seq(Ids) /\ Len(proposed) <= Len(proposed')
    <3>1. IdOf[proposal[scan + 1]] \in Ids
      BY <1>5, RunnerAssumption DEF TypeOK, Dedupe, Scanning
    <3> QED
      BY <1>5, <3>1 DEF TypeOK, Dedupe
  <2> QED
    BY <1>5, <2>1 DEF Dedupe, Scanning, TypeOK
<1>6. CASE Dispatch
  BY <1>6 DEF TypeOK, Dispatch
<1>7. ASSUME NEW i \in DOMAIN work, Spawn(i) PROVE RoundShape'
  BY <1>7 DEF TypeOK, Spawn
<1>8. ASSUME NEW i \in DOMAIN work, Finish(i) PROVE RoundShape'
  <2>1. PICK how \in Outcomes(i) :
           results' = [results EXCEPT ![i] = [id |-> proposed[i], how |-> how]]
    BY <1>8 DEF Finish
  <2>2. Len(results') = Len(results)
    BY <2>1 DEF TypeOK
  <2>3. Len(work') = Len(work)
    BY <1>8 DEF TypeOK, Finish
  <2> QED
    BY <1>8, <2>2, <2>3 DEF TypeOK, Finish
<1>9. CASE Wait
  BY <1>9 DEF TypeOK, Wait
<1>10. CASE AddObservation
  <2>1. recorded < Len(proposed)
    BY <1>10 DEF AddObservation
  <2>2. ~HasExperiment(results[recorded + 1].id)
    BY <1>10, NextResult DEF HasExperiment, IInv, ProposedNew
  <2> QED
    BY <1>10, <2>1, <2>2 DEF AddObservation, TypeOK
<1>11. CASE EndRound
  BY <1>11 DEF EndRound
<1>12. CASE Save \/ Exit \/ Crash
  BY <1>12 DEF Save, Exit, Crash, Forget
<1>13. CASE UNCHANGED vars
  BY <1>13 DEF vars
<1> QED
  BY <1>2, <1>3, <1>4, <1>5, <1>6, <1>7, <1>8, <1>9, <1>10, <1>11, <1>12, <1>13
     DEF Next, Start, Loop, Policy

\* Only Finish writes a slot, and it writes its own.
LEMMA ResultsStep ==
  ASSUME IInv, [Next]_vars
  PROVE  ResultsInPlace'
<1> USE DEF ResultsInPlace
<1> TypeOK /\ RoundShape /\ ResultsInPlace
  BY DEF IInv
<1>1. ASSUME NEW n \in MaxProbesGiven, Survey(n) \/ Resume(n) PROVE ResultsInPlace'
  BY <1>1 DEF Survey, Resume, RunSurvey
<1>2. CASE Leave \/ PolicyDone \/ PolicyFails \/ Deadline \/ Cancel \/ MakeReport \/ Truncate
  BY <1>2 DEF Leave, PolicyDone, PolicyFails, CanPropose, Deadline, Cancel,
              MakeReport, Truncate, batchVars
<1>3. ASSUME NEW p \in Proposals, PolicyProposes(p) PROVE ResultsInPlace'
  BY <1>3 DEF PolicyProposes, CanPropose
<1>4. CASE Dedupe
  BY <1>4 DEF Dedupe, Scanning
<1>5. CASE Dispatch
  BY <1>5 DEF TypeOK, Dispatch
<1>6. ASSUME NEW i \in DOMAIN work, Spawn(i) PROVE ResultsInPlace'
  <2>1. SUFFICES ASSUME NEW j \in 1..Len(work'), work'[j] = "finished"
                 PROVE  results'[j] \in Observation /\ results'[j].id = proposed'[j]
    OBVIOUS
  <2>2. j \in 1..Len(work) /\ work[j] = "finished"
    <3>1. PICK w \in {"live", "late"} : work' = [work EXCEPT ![i] = w]
      BY <1>6 DEF Spawn
    <3>2. Len(work') = Len(work)
      BY <3>1, ExceptSeq DEF TypeOK
    <3>3. \A k \in 1..Len(work) : work'[k] = IF k = i THEN w ELSE work[k]
      BY <3>1, SMTT(30) DEF TypeOK
    <3> QED
      BY <2>1, <3>2, <3>3
  <2> QED
    BY <1>6, <2>2 DEF Spawn
<1>7. ASSUME NEW i \in DOMAIN work, Finish(i) PROVE ResultsInPlace'
  <2>1. PICK how \in Outcomes(i) :
           results' = [results EXCEPT ![i] = [id |-> proposed[i], how |-> how]]
    BY <1>7 DEF Finish
  <2>2. [id |-> proposed[i], how |-> how] \in Observation
    BY <1>7, <2>1 DEF TypeOK, RoundShape, Finish, Outcomes, Observation, How
  <2>3. SUFFICES ASSUME NEW j \in 1..Len(work'), work'[j] = "finished"
                 PROVE  results'[j] \in Observation /\ results'[j].id = proposed'[j]
    OBVIOUS
  <2>4. j \in 1..Len(work) /\ j \in 1..Len(results) /\ proposed' = proposed
    BY <1>7, <2>3 DEF TypeOK, RoundShape, Finish
  <2>5. CASE j = i
    BY <2>1, <2>2, <2>4, <2>5 DEF TypeOK
  <2>6. CASE j # i
    <3>1. work[j] = "finished"
      BY <1>7, <2>3, <2>4, <2>6 DEF TypeOK, Finish
    <3>2. results'[j] = results[j]
      BY <2>1, <2>4, <2>6 DEF TypeOK
    <3> QED
      BY <1>7, <2>4, <3>1, <3>2 DEF Finish
  <2> QED
    BY <2>5, <2>6
<1>8. CASE Wait
  BY <1>8 DEF Wait
<1>9. CASE AddObservation
  BY <1>9 DEF AddObservation
<1>10. CASE EndRound
  BY <1>10 DEF EndRound
<1>11. CASE Save \/ Exit \/ Crash
  BY <1>11 DEF Save, Exit, Crash, Forget
<1>12. CASE UNCHANGED vars
  BY <1>12 DEF vars
<1> QED
  BY <1>1, <1>2, <1>3, <1>4, <1>5, <1>6, <1>7, <1>8, <1>9, <1>10, <1>11, <1>12
     DEF Next, Start, Loop, Policy

\* dedupe lets nothing through that is recorded or already proposed, and
\* recording the next result takes exactly that one out of what is to come.
LEMMA ProposedStep ==
  ASSUME IInv, TypeOK', [Next]_vars
  PROVE  ProposedNew'
<1> USE DEF ProposedNew
<1> TypeOK /\ RoundShape /\ ResultsInPlace /\ ProposedNew
  BY DEF IInv
<1>0. /\ recorded \in Nat /\ recorded' \in Nat /\ Len(proposed) \in Nat
      /\ DOMAIN proposed = 1..Len(proposed)
  BY DEF TypeOK
<1>1. ASSUME proposed' = << >> PROVE ProposedNew'
  <2>1. Distinct(proposed')
    BY <1>1 DEF Distinct
  <2>2. \A i \in (recorded' + 1)..Len(proposed') : FALSE
    <3>1. Len(proposed') = 0
      BY <1>1, EmptySeq
    <3>2. \A n \in Nat : \A i \in (n + 1)..0 : FALSE
      OBVIOUS
    <3> QED
      BY <1>0, <3>1, <3>2
  <2> QED
    BY <2>1, <2>2
<1>2. ASSUME UNCHANGED <<proposed, recorded, observations>> PROVE ProposedNew'
  BY <1>2
<1>3. ASSUME NEW n \in MaxProbesGiven, Survey(n) \/ Resume(n) PROVE ProposedNew'
  BY <1>1, <1>3 DEF Survey, Resume, RunSurvey, RoundShape, batchVars
<1>4. CASE Leave \/ PolicyDone \/ PolicyFails \/ Deadline \/ Cancel \/ MakeReport \/ Truncate
  BY <1>2, <1>4 DEF Leave, PolicyDone, PolicyFails, CanPropose, Deadline, Cancel,
                    MakeReport, Truncate, batchVars, stateVars
<1>5. ASSUME NEW p \in Proposals, PolicyProposes(p) PROVE ProposedNew'
  BY <1>1, <1>5 DEF PolicyProposes
<1>6. CASE Dedupe
  <2> DEFINE id == IdOf[proposal[scan + 1]]
  <2>1. id \in Ids
    BY <1>6, RunnerAssumption, SMTT(30) DEF TypeOK, Dedupe, Scanning
  <2>2. UNCHANGED <<recorded, observations>>
    BY <1>6 DEF Dedupe, stateVars
  <2>3. CASE Skips(id)
    BY <1>2, <1>6, <2>2, <2>3 DEF Dedupe
  <2>4. CASE ~Skips(id)
    <3>1. proposed' = Append(proposed, id)
      BY <1>6, <2>4 DEF Dedupe
    <3>2. /\ Len(proposed') = Len(proposed) + 1
          /\ \A i \in 1..Len(proposed) : proposed'[i] = proposed[i]
          /\ proposed'[Len(proposed) + 1] = id
      BY <2>1, <3>1, Appended, SMTT(30) DEF TypeOK
    <3>3. id \notin IdsOf(observations) /\ \A i \in 1..Len(proposed) : proposed[i] # id
      BY <1>0, <2>4 DEF Skips, HasExperiment, ElementsOf
    <3>4. Distinct(proposed')
      BY <2>1, <3>1, <3>3, AppendDistinct DEF TypeOK
    <3>5. ASSUME NEW i \in (recorded + 1)..(Len(proposed) + 1)
          PROVE  proposed'[i] \notin IdsOf(observations)
      <4>1. i = Len(proposed) + 1
            \/ (i \in 1..Len(proposed) /\ i \in (recorded + 1)..Len(proposed))
        BY <1>0
      <4> QED
        BY <3>2, <3>3, <4>1
    <3> QED
      BY <2>2, <3>2, <3>4, <3>5
  <2> QED
    BY <2>3, <2>4
<1>7. CASE Dispatch
  BY <1>2, <1>7 DEF Dispatch, stateVars
<1>8. ASSUME NEW i \in DOMAIN work, Spawn(i) \/ Finish(i) PROVE ProposedNew'
  BY <1>2, <1>8 DEF Spawn, Finish, stateVars
<1>9. CASE Wait
  BY <1>2, <1>9 DEF Wait, RoundShape
<1>10. CASE AddObservation
  <2>1. CASE UNCHANGED <<observations, recorded>>
    BY <1>2, <1>10, <2>1 DEF AddObservation
  <2>2. CASE recorded' = recorded + 1
             /\ observations' = Append(observations, results[recorded + 1])
    <3> DEFINE o == results[recorded + 1]
    <3>1. /\ recorded + 1 \in 1..Len(proposed)
          /\ o \in Observation
          /\ o.id = proposed[recorded + 1]
      BY <1>10, NextResult
    <3>2. IdsOf(observations') = IdsOf(observations) \cup {o.id}
      BY <2>2, <3>1, AppendIds DEF TypeOK
    <3>3. proposed' = proposed
      BY <1>10 DEF AddObservation
    <3>4. ASSUME NEW i \in (recorded + 2)..Len(proposed)
          PROVE  proposed[i] \notin IdsOf(observations')
      <4>1. i \in (recorded + 1)..Len(proposed) /\ i # recorded + 1 /\ i \in 1..Len(proposed)
        BY <1>0, <3>1
      <4> QED
        BY <1>0, <3>1, <3>2, <4>1 DEF Distinct
    <3> QED
      BY <2>2, <3>3, <3>4 DEF TypeOK
  <2> QED
    BY <1>10, <2>1, <2>2 DEF AddObservation
<1>11. CASE EndRound
  BY <1>1, <1>11 DEF EndRound
<1>12. CASE Save \/ Exit \/ Crash
  BY <1>1, <1>12 DEF Save, Exit, Crash, Forget
<1>13. CASE UNCHANGED vars
  BY <1>2, <1>13 DEF vars
<1> QED
  BY <1>3, <1>4, <1>5, <1>6, <1>7, <1>8, <1>9, <1>10, <1>11, <1>12, <1>13
     DEF Next, Start, Loop, Policy

\* A result is appended under an identity the log does not have yet; a saved
\* log and a resumed one are copies of such a log.
LEMMA RecordedOnceStep ==
  ASSUME IInv, [Next]_vars
  PROVE  RecordedOnce'
<1> USE DEF RecordedOnce
<1> TypeOK /\ RoundShape /\ ResultsInPlace /\ ProposedNew /\ RecordedOnce
  BY DEF IInv
<1> DistinctIds(<< >>)
  BY DEF DistinctIds
<1>1. ASSUME NEW n \in MaxProbesGiven, Survey(n) \/ Resume(n) PROVE RecordedOnce'
  BY <1>1 DEF Survey, Resume, RunSurvey, FreshState, diskVars
<1>2. ASSUME UNCHANGED <<observations, saved>> PROVE RecordedOnce'
  BY <1>2
<1>3. CASE Leave \/ PolicyDone \/ PolicyFails \/ Deadline \/ Cancel \/ MakeReport \/ Truncate
           \/ Dedupe \/ Dispatch \/ Wait \/ EndRound
  BY <1>2, <1>3 DEF Leave, PolicyDone, PolicyFails, CanPropose, Deadline, Cancel,
        MakeReport, Truncate, Dedupe, Dispatch, Wait, EndRound, stateVars, diskVars
<1>4. ASSUME NEW p \in Proposals, PolicyProposes(p) PROVE RecordedOnce'
  BY <1>2, <1>4 DEF PolicyProposes, stateVars, diskVars
<1>5. ASSUME NEW i \in DOMAIN work, Spawn(i) \/ Finish(i) PROVE RecordedOnce'
  BY <1>2, <1>5 DEF Spawn, Finish, stateVars, diskVars
<1>6. CASE AddObservation
  <2>1. CASE UNCHANGED <<observations, recorded>>
    BY <1>2, <1>6, <2>1 DEF AddObservation, diskVars
  <2>2. CASE observations' = Append(observations, results[recorded + 1])
    <3> DEFINE o == results[recorded + 1]
    <3>1. o \in Observation /\ o.id = proposed[recorded + 1]
          /\ recorded + 1 \in (recorded + 1)..Len(proposed)
      BY <1>6, NextResult
    <3>2. o.id \notin IdsOf(observations)
      BY <3>1 DEF ProposedNew
    <3>3. DistinctIds(observations')
      BY <2>2, <3>1, <3>2, AppendIds DEF TypeOK
    <3> QED
      BY <1>6, <3>3 DEF AddObservation, diskVars
  <2> QED
    BY <1>6, <2>1, <2>2 DEF AddObservation
<1>7. CASE Save
  BY <1>7 DEF Save, Forget
<1>8. CASE Exit \/ Crash
  BY <1>8 DEF Exit, Crash, Forget, diskVars
<1>9. CASE UNCHANGED vars
  BY <1>2, <1>9 DEF vars
<1> QED
  BY <1>1, <1>3, <1>4, <1>5, <1>6, <1>7, <1>8, <1>9 DEF Next, Start, Loop, Policy

\* The log underway starts as the saved one and only grows.
LEMMA ContinuesStep ==
  ASSUME IInv, [Next]_vars
  PROVE  ContinuesSaved'
<1> USE DEF ContinuesSaved
<1> TypeOK /\ RoundShape /\ ResultsInPlace /\ ContinuesSaved
  BY DEF IInv
<1>1. ASSUME NEW n \in MaxProbesGiven, Survey(n) \/ Resume(n) PROVE ContinuesSaved'
  <2>1. observations' = saved'.observations /\ Len(observations') \in Nat
    BY <1>1 DEF Survey, Resume, RunSurvey, FreshState, diskVars, TypeOK, SurveyState
  <2> QED
    BY <2>1
<1>2. ASSUME pc # "idle", UNCHANGED <<observations, saved>> PROVE ContinuesSaved'
  BY <1>2
<1>3. CASE Leave \/ PolicyDone \/ PolicyFails \/ Deadline \/ Cancel \/ MakeReport \/ Truncate
           \/ Dedupe \/ Dispatch \/ Wait \/ EndRound
  BY <1>2, <1>3 DEF Leave, PolicyDone, PolicyFails, CanPropose, Deadline, Cancel,
        MakeReport, Truncate, Dedupe, Scanning, Dispatch, Wait, EndRound,
        stateVars, diskVars
<1>4. ASSUME NEW p \in Proposals, PolicyProposes(p) PROVE ContinuesSaved'
  BY <1>2, <1>4 DEF PolicyProposes, CanPropose, stateVars, diskVars
<1>5. ASSUME NEW i \in DOMAIN work, Spawn(i) \/ Finish(i) PROVE ContinuesSaved'
  BY <1>2, <1>5 DEF Spawn, Finish, stateVars, diskVars
<1>6. CASE AddObservation
  <2>1. CASE UNCHANGED observations
    BY <1>2, <1>6, <2>1 DEF AddObservation, diskVars
  <2>2. CASE observations' = Append(observations, results[recorded + 1])
    <3> DEFINE o == results[recorded + 1]
    <3>1. o \in Observation /\ saved' = saved /\ pc # "idle"
      BY <1>6, NextResult DEF AddObservation, diskVars
    <3>2. /\ Len(observations') = Len(observations) + 1
          /\ \A j \in 1..Len(observations) : observations'[j] = observations[j]
      BY <2>2, <3>1, Appended DEF TypeOK
    <3>3. Len(observations) \in Nat /\ Len(saved.observations) \in Nat
      BY DEF TypeOK, SurveyState
    <3> QED
      BY <3>1, <3>2, <3>3
  <2> QED
    BY <1>6, <2>1, <2>2 DEF AddObservation
<1>7. CASE Save \/ Exit \/ Crash
  BY <1>7 DEF Save, Exit, Crash, Forget
<1>8. CASE UNCHANGED vars
  BY <1>8 DEF vars
<1> QED
  BY <1>1, <1>3, <1>4, <1>5, <1>6, <1>7, <1>8 DEF Next, Start, Loop, Policy

\* A round takes from the budget exactly what it records.
LEMMA AccountingStep ==
  ASSUME IInv, TypeOK', [Next]_vars
  PROVE  Accounting'
<1> USE DEF Accounting
<1> TypeOK /\ RoundShape /\ Accounting
  BY DEF IInv
<1>0. /\ Len(observations) \in Nat /\ Len(saved.observations) \in Nat
      /\ Len(proposed) \in Nat /\ recorded \in Nat /\ budget \in Int /\ cap \in Nat
  <2>1. Len(saved.observations) \in Nat
    <3>1. saved \in [observations : Seq(Observation), rounds : Seq(Round), round : Nat]
      BY DEF TypeOK, SurveyState
    <3>2. saved.observations \in Seq(Observation)
      BY <3>1
    <3> QED
      BY <3>2, LenProperties
  <2>2. Len(observations) \in Nat /\ Len(proposed) \in Nat
    <3>1. observations \in Seq(Observation) /\ proposed \in Seq(Ids)
      BY DEF TypeOK
    <3> QED
      BY <3>1, LenProperties
  <2>3. recorded \in Nat /\ budget \in Int /\ cap \in Nat
    BY DEF TypeOK
  <2> QED
    BY <2>1, <2>2, <2>3
<1>1. ASSUME NEW n \in MaxProbesGiven, Survey(n) \/ Resume(n) PROVE Accounting'
  <2>1. /\ observations' = saved'.observations
        /\ recorded' = 0 /\ proposed' = << >>
        /\ cap' = Fill(n)
        /\ budget' = AtLeastZero(Fill(n) - Len(observations'))
    BY <1>1 DEF Survey, Resume, RunSurvey, FreshState, diskVars, batchVars, RoundShape
  <2>2. Fill(n) \in Nat
    BY RunnerAssumption DEF Fill
  <2>3. Len(observations') \in Nat
    BY DEF TypeOK
  <2>4. Len(proposed') = 0
    BY <2>1, EmptySeq
  <2> QED
    BY <2>1, <2>2, <2>3, <2>4 DEF AtLeastZero, Larger
<1>2. ASSUME pc # "idle", UNCHANGED <<observations, saved, proposed, recorded, budget, cap>>
      PROVE  Accounting'
  BY <1>2 DEF Larger
<1>3. CASE Leave \/ PolicyDone \/ PolicyFails \/ Deadline \/ Cancel \/ MakeReport \/ Truncate
           \/ Dispatch
  BY <1>2, <1>3 DEF Leave, PolicyDone, PolicyFails, CanPropose, Deadline, Cancel,
        MakeReport, Truncate, Dispatch, batchVars, stateVars, diskVars
<1>4. ASSUME NEW p \in Proposals, PolicyProposes(p) PROVE Accounting'
  <2>1. /\ pc # "idle" /\ Len(proposed') = 0 /\ budget > 0
        /\ UNCHANGED <<observations, saved, recorded, budget, cap>>
    BY <1>4, EmptySeq DEF PolicyProposes, CanPropose, stateVars, diskVars
  <2> QED
    BY <1>0, <2>1 DEF Larger
<1>5. CASE Dedupe
  <2>1. /\ pc # "idle" /\ Len(proposed) < budget
        /\ UNCHANGED <<observations, saved, recorded, budget, cap>>
    BY <1>5 DEF Dedupe, Scanning, stateVars, diskVars
  <2>2. Len(proposed') <= Len(proposed) + 1
    <3>1. IdOf[proposal[scan + 1]] \in Ids
      BY <1>5, RunnerAssumption, SMTT(30) DEF TypeOK, Dedupe, Scanning
    <3>2. proposed' = proposed \/ proposed' = Append(proposed, IdOf[proposal[scan + 1]])
      BY <1>5 DEF Dedupe
    <3>3. Len(Append(proposed, IdOf[proposal[scan + 1]])) = Len(proposed) + 1
      BY <3>1, Appended DEF TypeOK
    <3> QED
      BY <1>0, <3>2, <3>3
  <2>3. Len(proposed') \in Nat
    BY DEF TypeOK
  <2> QED
    BY <1>0, <2>1, <2>2, <2>3 DEF Larger
<1>6. ASSUME NEW i \in DOMAIN work, Spawn(i) \/ Finish(i) PROVE Accounting'
  BY <1>2, <1>6 DEF Spawn, Finish, stateVars, diskVars
<1>7. CASE Wait
  BY <1>2, <1>7 DEF Wait, RoundShape, diskVars
<1>8. CASE AddObservation
  <2>1. CASE UNCHANGED <<observations, recorded>>
    BY <1>2, <1>8, <2>1 DEF AddObservation, diskVars
  <2>2. CASE recorded' = recorded + 1
             /\ observations' = Append(observations, results[recorded + 1])
    <3>1. results[recorded + 1] \in Observation
      BY <1>8, NextResult DEF IInv
    <3>2. Len(observations') = Len(observations) + 1
      BY <2>2, <3>1, Appended DEF TypeOK
    <3>3. UNCHANGED <<proposed, budget, saved, cap>> /\ pc # "idle"
      BY <1>8 DEF AddObservation, diskVars
    <3> QED
      BY <1>0, <2>2, <3>2, <3>3, SMTT(30) DEF Larger
  <2> QED
    BY <1>8, <2>1, <2>2 DEF AddObservation
<1>9. CASE EndRound
  <2>1. /\ recorded = Len(proposed) /\ recorded' = 0
        /\ Len(proposed') = 0
        /\ budget' = budget - Len(proposed)
        /\ pc # "idle"
        /\ UNCHANGED <<observations, saved, cap>>
    BY <1>9, EmptySeq DEF EndRound, RoundShape, diskVars
  <2> QED
    BY <1>0, <2>1 DEF Larger
<1>10. CASE Save \/ Exit \/ Crash
  <2>1. /\ pc' = "idle" /\ Len(proposed') = 0 /\ budget' = 0
        /\ recorded' = 0 /\ Len(observations') = 0
    BY <1>10, EmptySeq DEF Save, Exit, Crash, Forget
  <2> QED
    BY <2>1
<1>11. CASE UNCHANGED vars
  BY <1>11 DEF vars, Larger
<1> QED
  BY <1>1, <1>3, <1>4, <1>5, <1>6, <1>7, <1>8, <1>9, <1>10, <1>11
     DEF Next, Start, Loop, Policy

-----------------------------------------------------------------------------

\* The inductive invariant holds before the first process starts.
LEMMA InvInit == Init => IInv
<1> SUFFICES ASSUME Init PROVE IInv
  OBVIOUS
<1> USE DEF Init
<1>1. TypeOK
  BY FreshStateType DEF TypeOK, Phases, NoReport
<1>2. RoundShape /\ ResultsInPlace /\ ContinuesSaved
  BY DEF RoundShape, ResultsInPlace, ContinuesSaved
<1>3. ProposedNew
  BY DEF ProposedNew, Distinct
<1>4. Accounting
  BY DEF Accounting
<1>5. RecordedOnce
  BY DEF RecordedOnce, DistinctIds, FreshState
<1> QED
  BY <1>1, <1>2, <1>3, <1>4, <1>5 DEF IInv

\* ... and every step keeps it.
LEMMA InvStep == IInv /\ [Next]_vars => IInv'
<1> SUFFICES ASSUME IInv, [Next]_vars PROVE IInv'
  OBVIOUS
<1>1. TypeOK'
  BY TypeStep DEF IInv
<1> QED
  BY <1>1, ShapeStep, ResultsStep, ProposedStep, ContinuesStep, AccountingStep,
     RecordedOnceStep
     DEF IInv

\* The inductive invariant holds throughout, for every policy.
THEOREM RunnerInvariant == Spec => []IInv
  BY InvInit, InvStep, PTL DEF Spec

\* Every variable has its type throughout.
THEOREM TypeCorrect == Spec => []TypeOK
  BY RunnerInvariant, PTL DEF IInv

\* No experiment is ever recorded twice, in memory or on disk.
THEOREM RecordedOnceAlways == Spec => []RecordedOnce
  BY RunnerInvariant, PTL DEF IInv

\* The duplicate error of AddObservation is unreachable from RunSurvey.
THEOREM DuplicateUnreachable == Spec => []NoDuplicateError
<1>1. IInv => NoDuplicateError
  BY DEF IInv, RoundShape, NoDuplicateError
<1> QED
  BY <1>1, RunnerInvariant, PTL

\* No probe runs for an experiment that is recorded, or twice at once.
THEOREM NeverRerunAlways == Spec => []NeverRerun
<1>1. ASSUME IInv PROVE NeverRerun
  <2> TypeOK /\ RoundShape /\ ProposedNew /\ ContinuesSaved
    BY <1>1 DEF IInv
  <2>1. SUFFICES ASSUME NEW i \in Running
                 PROVE  /\ proposed[i] \notin IdsOf(observations)
                        /\ proposed[i] \notin IdsOf(saved.observations)
                        /\ \A j \in Running : proposed[j] = proposed[i] => j = i
    BY DEF NeverRerun
  <2>2. /\ pc = "batch" /\ recorded = 0
        /\ Running \subseteq 1..Len(proposed)
        /\ DOMAIN proposed = 1..Len(proposed)
    <3>1. work \in Seq({"queued", "live", "late", "finished"}) /\ proposed \in Seq(Ids)
      BY DEF TypeOK
    <3>2. DOMAIN work = 1..Len(work) /\ DOMAIN proposed = 1..Len(proposed)
      BY <3>1
    <3>3. pc = "batch"
      BY <2>1, <3>2 DEF RoundShape, Running
    <3> QED
      BY <3>2, <3>3 DEF RoundShape, Running
  <2>3. proposed[i] \notin IdsOf(observations)
    BY <2>1, <2>2 DEF ProposedNew, TypeOK
  <2>4. IdsOf(saved.observations) \subseteq IdsOf(observations)
    <3>1. saved.observations \in Seq(Observation) /\ observations \in Seq(Observation)
      BY DEF TypeOK, SurveyState
    <3> QED
      BY <2>2, <3>1 DEF IdsOf, ContinuesSaved
  <2>5. \A j \in Running : proposed[j] = proposed[i] => j = i
    BY <2>1, <2>2 DEF ProposedNew, Distinct
  <2> QED
    BY <2>3, <2>4, <2>5
<1> QED
  BY <1>1, RunnerInvariant, PTL

\* No run exceeds its probe budget, the batch in flight included.
THEOREM WithinBudgetAlways == Spec => []WithinBudget
<1>1. ASSUME IInv PROVE WithinBudget
  <2>1. /\ Len(observations) \in Nat /\ Len(proposed) \in Nat
        /\ recorded \in Nat /\ budget \in Int
    BY <1>1 DEF IInv, TypeOK
  <2>2. Larger(cap, Len(saved.observations)) \in Int
    <3>1. saved \in SurveyState /\ cap \in Nat
      BY <1>1 DEF IInv, TypeOK
    <3> QED
      BY <3>1 DEF SurveyState, Larger
  <2> QED
    BY <1>1, <2>1, <2>2 DEF IInv, Accounting, WithinBudget
<1> QED
  BY <1>1, RunnerInvariant, PTL

-----------------------------------------------------------------------------
(* What a step may do to the history, and the refinement of SurveyLog. *)

\* A sequence that agrees with another as far as it goes is a prefix of it.
LEMMA PrefixIntro ==
  ASSUME NEW S, NEW s \in Seq(S), NEW t \in Seq(S), Len(s) <= Len(t),
         \A i \in 1..Len(s) : t[i] = s[i]
  PROVE  IsPrefix(s, t)
<1>1. SubSeq(s, 1, Len(s)) = s
  BY SubSeqFull
<1>2. SubSeq(t, 1, Len(s)) = s
  <2>1. Len(s) \in Nat /\ Len(t) \in Nat
    OBVIOUS
  <2>2. /\ SubSeq(t, 1, Len(s)) \in Seq(S)
        /\ Len(SubSeq(t, 1, Len(s))) = Len(s)
        /\ \A i \in 1..Len(s) : SubSeq(t, 1, Len(s))[i] = t[i]
    BY <2>1
  <2> QED
    BY <2>2, SeqEqual
<1> QED
  BY <1>1, <1>2 DEF IsPrefix

\* How a step of a process that goes on changes its log: not, or by one.
LEMMA LogStep ==
  ASSUME IInv, [Next]_vars, pc # "idle", pc' # "idle"
  PROVE  \/ UNCHANGED observations
         \/ /\ AddObservation
            /\ observations' = Append(observations, results[recorded + 1])
            /\ recorded' = recorded + 1
<1>1. CASE AddObservation
  BY <1>1 DEF AddObservation
<1>2. ASSUME NEW n \in MaxProbesGiven, Survey(n) \/ Resume(n) PROVE FALSE
  BY <1>2 DEF Survey, Resume, RunSurvey
<1>3. CASE Leave \/ PolicyDone \/ PolicyFails \/ Deadline \/ Cancel \/ MakeReport \/ Truncate
           \/ Dedupe \/ Dispatch \/ Wait \/ EndRound
  BY <1>3 DEF Leave, PolicyDone, PolicyFails, CanPropose, Deadline, Cancel,
        MakeReport, Truncate, Dedupe, Scanning, Dispatch, Wait, EndRound, stateVars
<1>4. ASSUME NEW p \in Proposals, PolicyProposes(p) PROVE UNCHANGED observations
  BY <1>4 DEF PolicyProposes, stateVars
<1>5. ASSUME NEW i \in DOMAIN work, Spawn(i) \/ Finish(i) PROVE UNCHANGED observations
  BY <1>5 DEF Spawn, Finish, stateVars
<1>6. CASE Save \/ Exit \/ Crash
  BY <1>6 DEF Save, Exit, Crash, Forget
<1>7. CASE UNCHANGED vars
  BY <1>7 DEF vars
<1> QED
  BY <1>1, <1>2, <1>3, <1>4, <1>5, <1>6, <1>7 DEF Next, Start, Loop, Policy

\* While the process is saving, only Save writes the saved state.
LEMMA SaveStep ==
  ASSUME [Next]_vars, pc = "saving"
  PROVE  Save \/ UNCHANGED saved
<1>1. ASSUME NEW n \in MaxProbesGiven, Survey(n) \/ Resume(n) PROVE FALSE
  BY <1>1 DEF Survey, Resume, RunSurvey
<1>2. ASSUME NEW i \in DOMAIN work, Spawn(i) \/ Finish(i) PROVE FALSE
  BY <1>2 DEF Spawn, Finish
<1>3. ASSUME NEW p \in Proposals, PolicyProposes(p) PROVE FALSE
  BY <1>3 DEF PolicyProposes, CanPropose
<1>4. CASE Leave \/ PolicyDone \/ PolicyFails \/ Deadline \/ Cancel \/ MakeReport \/ Truncate
           \/ Dedupe \/ Dispatch \/ Wait \/ EndRound \/ AddObservation \/ Exit \/ Crash
  BY <1>4 DEF Leave, PolicyDone, PolicyFails, CanPropose, Deadline, Cancel, MakeReport,
        Truncate, Dedupe, Scanning, Dispatch, Wait, EndRound, AddObservation, Exit,
        Crash, diskVars
<1>5. CASE UNCHANGED vars
  BY <1>5 DEF vars
<1> QED
  BY <1>1, <1>2, <1>3, <1>4, <1>5 DEF Next, Start, Loop, Policy

\* While a process lives no observation it has recorded changes or goes
\* away, and what it saves continues what was saved before.
THEOREM HistoryIsImmutable == Spec => HistoryImmutable
<1>1. ASSUME IInv, TypeOK', [Next]_vars, pc # "idle", pc' # "idle"
      PROVE  IsPrefix(observations, observations')
  <2> observations \in Seq(Observation) /\ observations' \in Seq(Observation)
    BY <1>1 DEF TypeOK, IInv
  <2>1. CASE UNCHANGED observations
    BY <2>1, PrefixIntro
  <2>2. CASE AddObservation /\ observations' = Append(observations, results[recorded + 1])
    <3>1. results[recorded + 1] \in Observation
      BY <1>1, <2>2, NextResult DEF IInv
    <3>2. /\ Len(observations') = Len(observations) + 1
          /\ \A j \in 1..Len(observations) : observations'[j] = observations[j]
      BY <2>2, <3>1, Appended
    <3>3. Len(observations) <= Len(observations')
      BY <3>2
    <3> QED
      BY <3>2, <3>3, PrefixIntro
  <2> QED
    BY <1>1, <2>1, <2>2, LogStep
<1>2. ASSUME IInv, TypeOK', [Next]_vars, pc = "saving"
      PROVE  IsPrefix(saved.observations, saved'.observations)
  <2>1. /\ saved.observations \in Seq(Observation)
        /\ saved'.observations \in Seq(Observation)
    BY <1>2 DEF IInv, TypeOK, SurveyState
  <2>2. CASE Save
    <3>1. saved'.observations = observations
      BY <2>2 DEF Save
    <3>2. /\ Len(saved.observations) <= Len(observations)
          /\ \A i \in 1..Len(saved.observations) :
                observations[i] = saved.observations[i]
      BY <1>2 DEF IInv, ContinuesSaved
    <3> QED
      BY <2>1, <3>1, <3>2, PrefixIntro
  <2>3. CASE UNCHANGED saved
    BY <2>1, <2>3, PrefixIntro
  <2> QED
    BY <1>2, <2>2, <2>3, SaveStep
<1>3. IInv /\ TypeOK' /\ [Next]_vars =>
         [/\ pc # "idle" /\ pc' # "idle" => IsPrefix(observations, observations')
          /\ pc = "saving" /\ file' = "whole" =>
                IsPrefix(saved.observations, saved'.observations)]_vars
  BY <1>1, <1>2
<1> QED
  BY <1>3, RunnerInvariant, TypeCorrect, PTL DEF Spec, HistoryImmutable

\* What leaves the log, the saved state and the phase alone is no step of SurveyLog.
LEMMA Stutter ==
  ASSUME UNCHANGED <<observations, recorded, saved, cap>>,
         (pc # "idle") = (pc' # "idle")
  PROVE  UNCHANGED Log!svars
  BY DEF Log!svars, Committed

\* The identities of the first n observations, as a sequence.
LEMMA FirstIds ==
  ASSUME NEW obs \in Seq(Observation), NEW n \in Nat, n <= Len(obs)
  PROVE  LET t == [i \in 1..n |-> obs[i].id]
         IN  /\ t \in Seq(Ids)
             /\ Len(t) = n
             /\ \A i \in 1..n : t[i] = obs[i].id
<1>1. \A i \in 1..n : obs[i] \in Observation
  OBVIOUS
<1>2. \A i \in 1..n : obs[i].id \in Ids
  BY <1>1 DEF Observation
<1> QED
  BY <1>2

\* The end of a round makes the whole round part of the log.
LEMMA EndRoundGrows ==
  ASSUME IInv, IInv', EndRound
  PROVE  Log!Grow
<1> TypeOK /\ RoundShape /\ Accounting
  BY DEF IInv
<1>1. /\ UNCHANGED <<observations, saved, cap>>
      /\ recorded = Len(proposed) /\ recorded' = 0
      /\ Len(proposed) > 0
      /\ pc # "idle" /\ pc' # "idle"
  BY DEF EndRound, RoundShape, diskVars
<1>2. /\ observations \in Seq(Observation) /\ proposed \in Seq(Ids)
      /\ budget \in Int /\ cap \in Nat
  BY DEF TypeOK
<1>3. /\ Len(observations) \in Nat /\ Len(proposed) \in Nat
  BY <1>2, LenProperties
<1>4. Len(observations) <= cap
  BY <1>1, <1>2, <1>3 DEF Accounting
<1>5. Len(proposed) <= Len(observations)
  BY <1>1 DEF Accounting
<1>6. Committed' = [i \in 1..Len(observations) |-> observations[i].id]
  BY <1>1, <1>3 DEF Committed
<1>7. /\ Committed' \in Seq(Ids)
      /\ Len(Committed') = Len(observations)
      /\ \A i \in 1..Len(observations) : Committed'[i] = observations[i].id
  BY <1>2, <1>3, <1>6, FirstIds
<1>8. Committed = [i \in 1..(Len(observations) - Len(proposed)) |-> observations[i].id]
  BY <1>1 DEF Committed
<1>9. /\ Len(Committed) = Len(observations) - Len(proposed)
      /\ \A i \in 1..(Len(observations) - Len(proposed)) : Committed[i] = observations[i].id
  BY <1>2, <1>3, <1>5, <1>8, FirstIds
<1>10. Log!IsLog(Committed')
  BY <1>2, <1>7 DEF IInv, RecordedOnce, DistinctIds, Log!IsLog
<1>11. Log!Extends(Committed, Committed') /\ Len(Committed) < Len(Committed')
  BY <1>1, <1>3, <1>5, <1>7, <1>9 DEF Log!Extends
<1> QED
  BY <1>1, <1>4, <1>7, <1>10, <1>11 DEF Log!Grow

\* The log of a process that has nothing of a round recorded.
LEMMA CommittedWhole ==
  ASSUME TypeOK, recorded = 0
  PROVE  Committed = [i \in DOMAIN observations |-> observations[i].id]
<1>1. Len(observations) \in Nat /\ DOMAIN observations = 1..Len(observations)
  BY DEF TypeOK
<1> QED
  BY <1>1 DEF Committed

\* A process that ends leaves an empty log behind.
LEMMA ForgetEmpties ==
  ASSUME Forget
  PROVE  Committed' = << >> /\ cap' = 0 /\ pc' = "idle"
<1>1. observations' = << >> /\ recorded' = 0
  BY DEF Forget
<1>2. Len(observations') = 0
  BY <1>1, EmptySeq
<1>3. Committed' = [i \in 1..0 |-> observations'[i].id]
  BY <1>1, <1>2 DEF Committed
<1> QED
  BY <1>3 DEF Forget

\* Recording a result leaves the log of whole rounds as it is.
LEMMA RecordingStutters ==
  ASSUME IInv, AddObservation
  PROVE  UNCHANGED Log!svars
<1> TypeOK /\ RoundShape /\ Accounting
  BY DEF IInv
<1>1. UNCHANGED <<saved, cap>> /\ pc # "idle" /\ pc' # "idle"
  BY DEF AddObservation, diskVars
<1>2. CASE UNCHANGED <<observations, recorded>>
  BY <1>1, <1>2, Stutter
<1>3. CASE /\ observations' = Append(observations, results[recorded + 1])
           /\ recorded' = recorded + 1
  <2>1. results[recorded + 1] \in Observation /\ observations \in Seq(Observation)
    BY NextResult DEF IInv, TypeOK
  <2>2. /\ Len(observations') = Len(observations) + 1
        /\ \A i \in 1..Len(observations) : observations'[i] = observations[i]
    BY <1>3, <2>1, Appended
  <2>3. Len(observations) \in Nat /\ recorded \in Nat /\ recorded <= Len(observations)
    BY <2>1, LenProperties DEF TypeOK, Accounting
  <2>4. Len(observations') - recorded' = Len(observations) - recorded
    BY <1>3, <2>2, <2>3
  <2>5. \A i \in 1..(Len(observations) - recorded) : i \in 1..Len(observations)
    BY <2>3
  <2>6. Committed' = Committed
    BY <2>2, <2>4, <2>5 DEF Committed
  <2> QED
    BY <1>1, <2>6 DEF Log!svars
<1> QED
  BY <1>2, <1>3 DEF AddObservation

\* Every step of the runner is a step of the log, or leaves it alone.
LEMMA StepRefines ==
  ASSUME IInv, IInv', [Next]_vars
  PROVE  [Log!Next]_(Log!svars)
<1> TypeOK /\ RoundShape /\ TypeOK' /\ RoundShape'
  BY DEF IInv
<1>1. ASSUME NEW n \in MaxProbesGiven, Survey(n) PROVE Log!Begin
  <2>1. /\ pc = "idle" /\ pc' # "idle" /\ cap' = Fill(n)
        /\ observations' = << >> /\ saved'.observations = << >>
    BY <1>1 DEF Survey, RunSurvey, FreshState
  <2>2. Len(observations') = 0 /\ recorded' = 0
    BY <1>1, <2>1, EmptySeq DEF Survey, RunSurvey, RoundShape
  <2>3. Committed' = [i \in 1..0 |-> observations'[i].id]
    BY <2>2 DEF Committed
  <2> QED
    BY <2>1, <2>3 DEF Log!Begin
<1>2. ASSUME NEW n \in MaxProbesGiven, Resume(n) PROVE Log!Continue
  <2>1. /\ pc = "idle" /\ pc' # "idle" /\ cap' = Fill(n)
        /\ observations' = saved.observations /\ saved' = saved
    BY <1>2 DEF Resume, RunSurvey, diskVars
  <2>2. recorded' = 0
    BY <1>2, <2>1 DEF Resume, RunSurvey, RoundShape
  <2>3. saved.observations \in Seq(Observation)
    BY DEF TypeOK, SurveyState
  <2>4. /\ Len(observations') - recorded' = Len(saved.observations)
        /\ DOMAIN saved.observations = 1..Len(saved.observations)
    BY <2>1, <2>2, <2>3
  <2>5. Committed' = [i \in DOMAIN saved.observations |-> saved.observations[i].id]
    BY <2>1, <2>4 DEF Committed
  <2> QED
    BY <2>1, <2>5 DEF Log!Continue
<1>3. CASE Leave \/ PolicyDone \/ PolicyFails \/ Deadline \/ Cancel \/ MakeReport \/ Truncate
           \/ Dedupe \/ Dispatch
  BY <1>3, Stutter DEF Leave, PolicyDone, PolicyFails, CanPropose, Deadline, Cancel,
        MakeReport, Truncate, Dedupe, Scanning, Dispatch, batchVars, stateVars, diskVars
<1>4. ASSUME NEW p \in Proposals, PolicyProposes(p) PROVE UNCHANGED Log!svars
  BY <1>4, Stutter DEF PolicyProposes, CanPropose, stateVars, diskVars
<1>5. ASSUME NEW i \in DOMAIN work, Spawn(i) \/ Finish(i) PROVE UNCHANGED Log!svars
  BY <1>5, Stutter DEF Spawn, Finish, stateVars, diskVars
<1>6. CASE Wait
  BY <1>6, Stutter DEF Wait, RoundShape, diskVars
<1>7. CASE AddObservation
  BY <1>7, RecordingStutters
<1>8. CASE EndRound
  BY <1>8, EndRoundGrows DEF Log!Next
<1>9. CASE Save
  <2>1. saved'.observations = observations /\ pc # "idle" /\ recorded = 0
    BY <1>9 DEF Save, RoundShape
  <2>2. Committed = [i \in DOMAIN observations |-> observations[i].id]
    BY <2>1, CommittedWhole
  <2>3. Committed' = << >> /\ cap' = 0 /\ pc' = "idle"
    BY <1>9, ForgetEmpties DEF Save
  <2>4. Log!Keep
    BY <2>1, <2>2, <2>3 DEF Log!Keep
  <2> QED
    BY <2>4 DEF Log!Next
<1>10. CASE Exit \/ Crash
  <2>1. Committed' = << >> /\ cap' = 0 /\ pc' = "idle" /\ pc # "idle" /\ saved' = saved
    BY <1>10, ForgetEmpties DEF Exit, Crash, diskVars
  <2>2. Log!Drop
    BY <2>1 DEF Log!Drop
  <2> QED
    BY <2>2 DEF Log!Next
<1>11. CASE UNCHANGED vars
  BY <1>11, Stutter DEF vars
<1> QED
  BY <1>1, <1>2, <1>3, <1>4, <1>5, <1>6, <1>7, <1>8, <1>9, <1>10, <1>11
     DEF Next, Start, Loop, Policy, Log!Next

\* The runner implements the restartable log.
THEOREM RunnerImplementsLog == Spec => ImplementsLog
<1>1. Init => Log!Init
  <2> SUFFICES ASSUME Init PROVE Log!Init
    OBVIOUS
  <2>1. observations = << >> /\ saved.observations = << >> /\ recorded = 0
        /\ pc = "idle" /\ cap = 0
    BY DEF Init, FreshState
  <2>2. Len(observations) = 0
    BY <2>1, EmptySeq
  <2>3. Committed = [i \in 1..0 |-> observations[i].id]
    BY <2>1, <2>2 DEF Committed
  <2> QED
    BY <2>1, <2>3 DEF Log!Init
<1>2. IInv /\ IInv' /\ [Next]_vars => [Log!Next]_(Log!svars)
  BY StepRefines
<1> QED
  BY <1>1, <1>2, RunnerInvariant, PTL DEF Spec, ImplementsLog, Log!Spec

-----------------------------------------------------------------------------
(* What FlattenSeq computes, sequence by sequence. *)

\* Induction on a set of numbers.
LEMMA NatSetInduction ==
  ASSUME NEW T, 0 \in T, \A n \in Nat : n \in T => n + 1 \in T
  PROVE  Nat \subseteq T
<1> SUFFICES ASSUME {k \in Nat : k \notin T} # {} PROVE FALSE
  OBVIOUS
<1> DEFINE S == {k \in Nat : k \notin T}
<1>1. PICK a \in S : \A b \in S : ~ (<<b, a>> \in OpToRel(<, Nat))
  <2>1. S \subseteq Nat /\ S # {}
    OBVIOUS
  <2> HIDE DEF S
  <2> QED
    BY <2>1, NatLessThanWellFounded, WFMin, Zenon
<1>2. a \in Nat /\ a \notin T /\ a # 0
  OBVIOUS
<1>3. a - 1 \in Nat /\ a - 1 < a /\ (a - 1) + 1 = a
  BY <1>2
<1>4. a - 1 \in S
  BY <1>2, <1>3
<1>5. ~(a - 1 < a)
  BY <1>1, <1>2, <1>3, <1>4, Zenon DEF OpToRel
<1> QED
  BY <1>3, <1>5

\* f is the table of the beginnings of ss, flattened.
Flattens(f, ss, n) ==
    f = [i \in 1..n |-> IF i = 1 THEN ss[i] ELSE f[i - 1] \o ss[i]]

\* There is such a table.
LEMMA FlattensExists ==
  ASSUME NEW ss, NEW n \in Nat
  PROVE  \E f : Flattens(f, ss, n)
<1> DEFINE T == {k \in Nat : \E f : Flattens(f, ss, k)}
<1>1. 0 \in T
  <2> DEFINE f == [i \in 1..0 |-> i]
  <2>1. 1..0 = {}
    OBVIOUS
  <2>2. Flattens(f, ss, 0)
    BY <2>1 DEF Flattens
  <2> QED
    BY <2>2
<1>2. ASSUME NEW k \in Nat, k \in T PROVE k + 1 \in T
  <2>1. PICK f : Flattens(f, ss, k)
    BY <1>2
  <2> DEFINE g == [i \in 1..(k + 1) |->
                     IF i = k + 1 THEN (IF k + 1 = 1 THEN ss[k + 1] ELSE f[k] \o ss[k + 1])
                                  ELSE f[i]]
  <2>2. \A i \in 1..k : g[i] = f[i] /\ f[i] = (IF i = 1 THEN ss[i] ELSE f[i - 1] \o ss[i])
    <3> SUFFICES ASSUME NEW i \in 1..k
                 PROVE  g[i] = f[i] /\ f[i] = (IF i = 1 THEN ss[i] ELSE f[i - 1] \o ss[i])
      OBVIOUS
    <3>1. i \in 1..(k + 1) /\ i # k + 1
      OBVIOUS
    <3>2. g[i] = f[i]
      BY <3>1
    <3>3. f[i] = IF i = 1 THEN ss[i] ELSE f[i - 1] \o ss[i]
      BY <2>1, Zenon DEF Flattens
    <3> QED
      BY <3>2, <3>3
  <2>3. ASSUME NEW i \in 1..(k + 1)
        PROVE  g[i] = IF i = 1 THEN ss[i] ELSE g[i - 1] \o ss[i]
    <3>1. CASE i = k + 1
      <4>1. i # 1 => i - 1 = k /\ k \in 1..k
        BY <3>1
      <4>2. i # 1 => g[i - 1] = f[k]
        BY <2>2, <4>1
      <4> QED
        BY <3>1, <4>1, <4>2
    <3>2. CASE i # k + 1
      <4>1. i \in 1..k /\ (i # 1 => i - 1 \in 1..k)
        BY <3>2
      <4>2. g[i] = f[i] /\ (i # 1 => g[i - 1] = f[i - 1])
        BY <2>2, <4>1
      <4>3. f[i] = IF i = 1 THEN ss[i] ELSE f[i - 1] \o ss[i]
        BY <2>2, <4>1
      <4> HIDE DEF g
      <4> QED
        BY <4>2, <4>3
    <3> QED
      BY <3>1, <3>2
  <2>4. g = [i \in 1..(k + 1) |-> g[i]]
    OBVIOUS
  <2> HIDE DEF g
  <2>5. Flattens(g, ss, k + 1)
    BY <2>3, <2>4 DEF Flattens
  <2> QED
    BY <2>5
<1> HIDE DEF T
<1>3. Nat \subseteq T
  BY <1>1, <1>2, NatSetInduction
<1> QED
  BY <1>3 DEF T

\* The table is typed, and a longer one begins with it.
LEMMA FlattensAgree ==
  ASSUME NEW S, NEW ss \in Seq(Seq(S)), NEW tt, NEW f, NEW g, NEW n \in Nat,
         Flattens(f, ss, Len(ss)), Flattens(g, tt, n), Len(ss) <= n,
         \A i \in 1..Len(ss) : tt[i] = ss[i]
  PROVE  \A i \in 1..Len(ss) : f[i] \in Seq(S) /\ g[i] = f[i]
<1> DEFINE T == {k \in Nat : k \in 1..Len(ss) => f[k] \in Seq(S) /\ g[k] = f[k]}
<1>1. 0 \in T
  OBVIOUS
<1>2. ASSUME NEW k \in Nat, k \in T PROVE k + 1 \in T
  <2> SUFFICES ASSUME k + 1 \in 1..Len(ss)
               PROVE  f[k + 1] \in Seq(S) /\ g[k + 1] = f[k + 1]
    OBVIOUS
  <2>1. /\ f[k + 1] = IF k + 1 = 1 THEN ss[k + 1] ELSE f[k] \o ss[k + 1]
        /\ g[k + 1] = IF k + 1 = 1 THEN tt[k + 1] ELSE g[k] \o tt[k + 1]
    <3>1. k + 1 \in 1..n /\ (k + 1) - 1 = k
      OBVIOUS
    <3> QED
      BY <3>1, ZenonT(30) DEF Flattens
  <2>2. ss[k + 1] \in Seq(S) /\ tt[k + 1] = ss[k + 1]
    OBVIOUS
  <2>3. CASE k = 0
    BY <2>1, <2>2, <2>3
  <2>4. CASE k # 0
    <3>1. k \in 1..Len(ss) /\ k + 1 # 1
      BY <2>4
    <3>2. f[k] \in Seq(S) /\ g[k] = f[k]
      BY <1>2, <3>1
    <3> QED
      BY <2>1, <2>2, <3>1, <3>2
  <2> QED
    BY <2>3, <2>4
<1> HIDE DEF T
<1>3. Nat \subseteq T
  BY <1>1, <1>2, NatSetInduction
<1> QED
  BY <1>3 DEF T

\* What FlattenSeq is, but for the empty sequence.
LEMMA FlattenIs ==
  ASSUME NEW ss, NEW n \in Nat, n = Len(ss), n # 0
  PROVE  \E f : Flattens(f, ss, n) /\ FlattenSeq(ss) = f[n]
<1> DEFINE f == CHOOSE f : f = [i \in 1..n |-> IF i = 1 THEN ss[i] ELSE f[i - 1] \o ss[i]]
<1>1. Flattens(f, ss, n)
  BY FlattensExists, Zenon DEF Flattens
<1>2. FlattenSeq(ss) = f[n]
  BY Zenon DEF FlattenSeq
<1> QED
  BY <1>1, <1>2

\* Nothing flattens to nothing.
LEMMA FlattenEmpty == FlattenSeq(<< >>) = << >>
  BY Zenon DEF FlattenSeq

\* One more sequence comes after what the others flatten to.
LEMMA FlattenAppend ==
  ASSUME NEW S, NEW ss \in Seq(Seq(S)), NEW s \in Seq(S)
  PROVE  /\ FlattenSeq(ss) \in Seq(S)
         /\ FlattenSeq(Append(ss, s)) = FlattenSeq(ss) \o s
<1> DEFINE tt == Append(ss, s)
           n  == Len(ss)
<1>1. /\ n \in Nat /\ Len(tt) = n + 1 /\ n + 1 \in Nat /\ n + 1 # 0 /\ n <= n + 1
      /\ \A i \in 1..n : tt[i] = ss[i]
      /\ tt[n + 1] = s
  OBVIOUS
<1> HIDE DEF tt
<1>2. PICK g : Flattens(g, tt, n + 1) /\ FlattenSeq(tt) = g[n + 1]
  BY <1>1, FlattenIs
<1>3. g[n + 1] = IF n + 1 = 1 THEN s ELSE g[n] \o s
  <2>1. n + 1 \in 1..(n + 1) /\ (n + 1) - 1 = n
    BY <1>1
  <2>2. g[n + 1] = IF n + 1 = 1 THEN tt[n + 1] ELSE g[(n + 1) - 1] \o tt[n + 1]
    BY <1>2, <2>1, Zenon DEF Flattens
  <2> QED
    BY <1>1, <2>1, <2>2
<1>4. CASE n = 0
  <2>1. ss = << >>
    BY <1>4
  <2>2. FlattenSeq(ss) = << >>
    BY <2>1, FlattenEmpty
  <2> QED
    BY <1>2, <1>3, <1>4, <2>2 DEF tt
<1>5. CASE n # 0
  <2>1. PICK f : Flattens(f, ss, n) /\ FlattenSeq(ss) = f[n]
    BY <1>1, <1>5, FlattenIs
  <2>2. f[n] \in Seq(S) /\ g[n] = f[n]
    <3>1. n \in 1..n
      BY <1>1, <1>5
    <3> QED
      BY <1>1, <1>2, <2>1, <3>1, FlattensAgree
  <2>3. n + 1 # 1
    BY <1>1, <1>5
  <2> QED
    BY <1>2, <1>3, <2>1, <2>2, <2>3 DEF tt
<1> QED
  BY <1>4, <1>5

-----------------------------------------------------------------------------
(* The rounds explain the log. *)

\* What the rounds rs say was probed, in order.
Told(rs) == FlattenSeq([k \in DOMAIN rs |-> rs[k].proposed])

\* The rounds whose results are all recorded.
Past == IF pc = "record" THEN SubSeq(rounds, 1, Len(rounds) - 1) ELSE rounds

\* The past rounds tell the log of whole rounds; the round being recorded
\* is the last one, and tells what is recorded of it so far.
Explained ==
    /\ Told(Past) = Committed
    /\ \A k \in DOMAIN rounds : rounds[k].index = k - 1
    /\ counter = Len(Past)
    /\ pc = "record" =>
          /\ rounds = Append(Past, [index |-> counter, proposed |-> proposed])
          /\ \A i \in 1..recorded :
                observations[Len(observations) - recorded + i].id = proposed[i]
    /\ RoundsExplain(saved)

\* A round more tells its own proposals after those of the others.
LEMMA ToldMore ==
  ASSUME NEW rs \in Seq(Round), NEW r \in Round
  PROVE  Told(Append(rs, r)) = Told(rs) \o r.proposed
<1> DEFINE ps == [k \in DOMAIN rs |-> rs[k].proposed]
           qs == [k \in DOMAIN Append(rs, r) |-> Append(rs, r)[k].proposed]
<1>1. r.proposed \in Seq(Ids) /\ \A k \in 1..Len(rs) : rs[k] \in Round
  <2>1. \A k \in 1..Len(rs) : rs[k] \in Round
    OBVIOUS
  <2>2. r.proposed \in Seq(Ids)
    BY DEF Round
  <2> QED
    BY <2>1, <2>2
<1>2. \A k \in 1..Len(rs) : rs[k].proposed \in Seq(Ids)
  BY <1>1 DEF Round
<1>3. ps \in Seq(Seq(Ids)) /\ Len(ps) = Len(rs) /\ DOMAIN ps = 1..Len(rs)
  BY <1>2
<1>4. /\ DOMAIN qs = 1..(Len(rs) + 1)
      /\ \A k \in 1..Len(rs) : qs[k] = ps[k]
      /\ qs[Len(rs) + 1] = r.proposed
  BY Appended
<1>5. /\ Append(ps, r.proposed) \in Seq(Seq(Ids))
      /\ DOMAIN Append(ps, r.proposed) = 1..(Len(rs) + 1)
      /\ \A k \in 1..Len(rs) : Append(ps, r.proposed)[k] = ps[k]
      /\ Append(ps, r.proposed)[Len(rs) + 1] = r.proposed
  BY <1>1, <1>3, Appended
<1>6. qs = Append(ps, r.proposed)
  <2>1. \A k \in 1..(Len(rs) + 1) : k \in 1..Len(rs) \/ k = Len(rs) + 1
    OBVIOUS
  <2> HIDE DEF ps
  <2>2. \A k \in 1..(Len(rs) + 1) : qs[k] = Append(ps, r.proposed)[k]
    BY <1>4, <1>5, <2>1
  <2>3. qs = [k \in 1..(Len(rs) + 1) |-> qs[k]]
    BY <1>4
  <2>4. Append(ps, r.proposed) = [k \in 1..(Len(rs) + 1) |-> Append(ps, r.proposed)[k]]
    BY <1>5
  <2> HIDE DEF qs
  <2> QED
    BY <2>2, <2>3, <2>4
<1> HIDE DEF ps, qs
<1>7. FlattenSeq(qs) = FlattenSeq(ps) \o r.proposed
  BY <1>1, <1>3, <1>6, FlattenAppend
<1> QED
  BY <1>7 DEF Told, ps, qs

\* Nothing is told by no round.
LEMMA ToldNothing == Told(<< >>) = << >>
<1>1. [k \in DOMAIN << >> |-> << >>[k].proposed] = << >>
  OBVIOUS
<1> QED
  BY <1>1, FlattenEmpty DEF Told

\* Without a round being recorded, the invariant is what RoundsExplain says.
LEMMA ExplainedOutside ==
  ASSUME TypeOK, recorded = 0, pc # "record"
  PROVE  Explained <=>
            /\ RoundsExplain([observations |-> observations, rounds |-> rounds, round |-> counter])
            /\ RoundsExplain(saved)
<1>1. Committed = [i \in DOMAIN observations |-> observations[i].id]
  BY CommittedWhole
<1>2. Past = rounds
  BY DEF Past
<1> QED
  BY <1>1, <1>2 DEF Explained, RoundsExplain, Told

\* A state without rounds and without observations is explained.
LEMMA FreshExplains == RoundsExplain(FreshState)
<1>1. /\ FreshState.rounds = << >> /\ FreshState.observations = << >> /\ FreshState.round = 0
      /\ Len(<< >>) = 0 /\ DOMAIN << >> = {}
  BY DEF FreshState
<1>2. [i \in DOMAIN << >> |-> << >>[i].id] = << >>
  OBVIOUS
<1> QED
  BY <1>1, <1>2, ToldNothing DEF RoundsExplain, Told

\* What leaves the rounds and the log alone outside the recording.
LEMMA ExplainedKept ==
  ASSUME Explained, UNCHANGED <<observations, rounds, counter, recorded, saved>>,
         pc # "record", pc' # "record"
  PROVE  Explained'
  BY DEF Explained, Past, Committed, Told, RoundsExplain

\* The end of the recording makes the round a past one.
LEMMA ExplainedEnd ==
  ASSUME IInv, IInv', Explained, EndRound
  PROVE  Explained'
<1> TypeOK /\ RoundShape /\ Accounting
  BY DEF IInv
<1> DEFINE r == [index |-> counter, proposed |-> proposed]
<1>1. /\ pc = "record" /\ pc' # "record"
      /\ recorded = Len(proposed) /\ recorded' = 0 /\ counter' = counter + 1
      /\ UNCHANGED <<observations, rounds, saved>>
  BY DEF EndRound, RoundShape, diskVars
<1>2. /\ observations \in Seq(Observation) /\ proposed \in Seq(Ids) /\ counter \in Nat
      /\ rounds \in Seq(Round)
  BY DEF TypeOK
<1>3. rounds = Append(Past, r) /\ counter = Len(Past)
  BY <1>1 DEF Explained
<1>4. r \in Round
  BY <1>2 DEF Round
<1>5. Past \in Seq(Round)
  <2>1. Past = SubSeq(rounds, 1, Len(rounds) - 1)
    BY <1>1 DEF Past
  <2> QED
    BY <1>2, <2>1
<1>6. Told(rounds) = Committed \o proposed
  BY <1>3, <1>4, <1>5, ToldMore, Zenon DEF Explained
<1>7. Committed' = [i \in DOMAIN observations |-> observations[i].id]
  <2>1. Len(observations) \in Nat /\ DOMAIN observations = 1..Len(observations)
    BY <1>2
  <2> QED
    BY <1>1, <2>1 DEF Committed
<1>8. Committed \o proposed = Committed'
  <2> DEFINE n == Len(observations)
             m == Len(proposed)
             t == [i \in DOMAIN observations |-> observations[i].id]
  <2>1. n \in Nat /\ m \in Nat /\ m <= n /\ DOMAIN observations = 1..n
    BY <1>1, <1>2 DEF Accounting
  <2>2. Committed = [i \in 1..(n - m) |-> observations[i].id]
    BY <1>1 DEF Committed
  <2>3. /\ Committed \in Seq(Ids) /\ Len(Committed) = n - m
        /\ \A i \in 1..(n - m) : Committed[i] = observations[i].id
    BY <1>2, <2>1, <2>2, FirstIds
  <2>4. /\ t \in Seq(Ids) /\ Len(t) = n /\ \A i \in 1..n : t[i] = observations[i].id
    BY <1>2, <2>1, FirstIds
  <2>5. \A i \in 1..m : observations[n - m + i].id = proposed[i]
    BY <1>1 DEF Explained
  <2>6. /\ Committed \o proposed \in Seq(Ids)
        /\ Len(Committed \o proposed) = n
        /\ \A i \in 1..n : (Committed \o proposed)[i] =
                              IF i <= n - m THEN Committed[i] ELSE proposed[i - (n - m)]
    <3>1. /\ Committed \o proposed \in Seq(Ids)
          /\ Len(Committed \o proposed) = (n - m) + m
          /\ \A i \in 1..((n - m) + m) : (Committed \o proposed)[i] =
                IF i <= n - m THEN Committed[i] ELSE proposed[i - (n - m)]
      BY <1>2, <2>3, ConcatProperties
    <3>2. (n - m) + m = n
      BY <2>1
    <3> QED
      BY <3>1, <3>2
  <2> HIDE DEF n, m, t
  <2>7. ASSUME NEW i \in 1..n PROVE (Committed \o proposed)[i] = t[i]
    <3>1. CASE i <= n - m
      <4>1. i \in 1..(n - m)
        BY <2>1, <3>1
      <4> QED
        BY <2>3, <2>4, <2>6, <3>1, <4>1
    <3>2. CASE ~(i <= n - m)
      <4>1. i - (n - m) \in 1..m /\ n - m + (i - (n - m)) = i
        BY <2>1, <3>2
      <4>2. observations[i].id = proposed[i - (n - m)]
        BY <2>5, <4>1
      <4> QED
        BY <2>4, <2>6, <3>2, <4>2
    <3> QED
      BY <3>1, <3>2
  <2>8. Committed \o proposed = t
    BY <2>4, <2>6, <2>7, SeqEqual
  <2> QED
    BY <1>7, <2>8 DEF t
<1>9. Past' = rounds /\ Told(Past') = Told(rounds)
  BY <1>1 DEF Past
<1>10. counter' = Len(rounds)
  BY <1>1, <1>3, <1>4, <1>5, Appended
<1>11. Told(Past)' = Committed'
  BY <1>6, <1>8, <1>9 DEF Told
<1> QED
  BY <1>1, <1>9, <1>10, <1>11 DEF Explained, RoundsExplain

\* g.Wait appends the round's entry: the rounds before it are the past.
LEMMA ExplainedWait ==
  ASSUME IInv, Explained, Wait
  PROVE  Explained'
<1> TypeOK /\ RoundShape
  BY DEF IInv
<1> DEFINE r == [index |-> counter, proposed |-> proposed]
<1>1. /\ pc = "batch" /\ pc' = "record" /\ recorded = 0 /\ recorded' = 0
      /\ rounds' = Append(rounds, r)
      /\ UNCHANGED <<observations, counter, proposed, saved>>
  BY DEF Wait, RoundShape, diskVars
<1>2. rounds \in Seq(Round) /\ r \in Round /\ counter \in Nat /\ Len(rounds) \in Nat
  BY DEF TypeOK, Round
<1>3. /\ Len(rounds') = Len(rounds) + 1
      /\ DOMAIN rounds = 1..Len(rounds)
      /\ DOMAIN rounds' = 1..(Len(rounds) + 1)
      /\ \A j \in 1..Len(rounds) : rounds'[j] = rounds[j]
      /\ rounds'[Len(rounds) + 1] = r
      /\ rounds' \in Seq(Round)
  BY <1>1, <1>2, Appended
<1>4. Past' = rounds
  <2>1. Past' = SubSeq(rounds', 1, Len(rounds') - 1)
    BY <1>1 DEF Past
  <2>2. Len(rounds') - 1 = Len(rounds)
    BY <1>2, <1>3
  <2>3. /\ SubSeq(rounds', 1, Len(rounds)) \in Seq(Round)
        /\ Len(SubSeq(rounds', 1, Len(rounds))) = Len(rounds)
        /\ \A i \in 1..Len(rounds) : SubSeq(rounds', 1, Len(rounds))[i] = rounds'[i]
    BY <1>2, <1>3
  <2>4. SubSeq(rounds', 1, Len(rounds)) = rounds
    BY <1>2, <1>3, <2>3, SeqEqual
  <2> QED
    BY <2>1, <2>2, <2>4
<1>5. Past = rounds
  BY <1>1 DEF Past
<1>6. Told(Past)' = Committed' /\ counter' = Len(Past')
  BY <1>1, <1>4, <1>5 DEF Explained, Told, Committed
<1>7. \A k \in DOMAIN rounds' : rounds'[k].index = k - 1
  <2> SUFFICES ASSUME NEW k \in 1..(Len(rounds) + 1) PROVE rounds'[k].index = k - 1
    BY <1>3
  <2>1. CASE k = Len(rounds) + 1
    <3>1. r.index = Len(rounds)
      BY <1>5 DEF Explained
    <3> QED
      BY <1>2, <1>3, <2>1, <3>1
  <2>2. CASE k # Len(rounds) + 1
    <3>1. k \in 1..Len(rounds)
      BY <1>2, <2>2
    <3> QED
      BY <1>3, <3>1 DEF Explained
  <2> QED
    BY <2>1, <2>2
<1>8. rounds' = Append(Past', [index |-> counter', proposed |-> proposed'])
  BY <1>1, <1>4
<1>9. \A i \in 1..recorded' : FALSE
  BY <1>1
<1>10. RoundsExplain(saved)'
  BY <1>1 DEF Explained, RoundsExplain
<1> QED
  BY <1>6, <1>7, <1>8, <1>9, <1>10 DEF Explained

\* A recorded result is told by the round's own next proposal.
LEMMA ExplainedRecording ==
  ASSUME IInv, IInv', Explained, AddObservation
  PROVE  Explained'
<1> TypeOK /\ RoundShape /\ ResultsInPlace /\ ProposedNew /\ Accounting
  BY DEF IInv
<1> DEFINE o == results[recorded + 1]
           n == Len(observations)
<1>1. o \in Observation /\ o.id = proposed[recorded + 1] /\ recorded + 1 \in (recorded + 1)..Len(proposed)
  BY NextResult
<1>2. ~HasExperiment(o.id)
  BY <1>1 DEF HasExperiment, ProposedNew
<1>3. /\ pc = "record" /\ pc' = "record"
      /\ observations' = Append(observations, o) /\ recorded' = recorded + 1
      /\ UNCHANGED <<rounds, counter, proposed, saved>>
  BY <1>2 DEF AddObservation, diskVars
<1>4. observations \in Seq(Observation) /\ n \in Nat /\ recorded \in Nat /\ recorded <= n
  BY LenProperties DEF TypeOK, Accounting
<1>5. /\ Len(observations') = n + 1
      /\ \A i \in 1..n : observations'[i] = observations[i]
      /\ observations'[n + 1] = o
  BY <1>1, <1>3, <1>4, Appended
<1>6. Committed' = Committed
  <2>1. Len(observations') - recorded' = n - recorded
    BY <1>3, <1>4, <1>5
  <2>2. \A i \in 1..(n - recorded) : i \in 1..n
    BY <1>4
  <2> QED
    BY <1>5, <2>1, <2>2 DEF Committed
<1>7. Past' = Past
  BY <1>3 DEF Past
<1>8. ASSUME NEW i \in 1..recorded'
      PROVE  observations'[Len(observations') - recorded' + i].id = proposed'[i]
  <2>1. Len(observations') - recorded' + i = n - recorded + i
    BY <1>3, <1>4, <1>5
  <2>2. CASE i = recorded + 1
    <3>1. n - recorded + i = n + 1
      BY <1>4, <2>2
    <3> QED
      BY <1>1, <1>3, <1>5, <2>1, <2>2, <3>1
  <2>3. CASE i # recorded + 1
    <3>1. i \in 1..recorded /\ n - recorded + i \in 1..n
      BY <1>3, <1>4, <2>3
    <3>2. observations[n - recorded + i].id = proposed[i]
      BY <1>3, <3>1 DEF Explained
    <3> QED
      BY <1>3, <1>5, <2>1, <3>1, <3>2
  <2> QED
    BY <2>2, <2>3
<1> HIDE DEF o, n
<1>9. Told(Past)' = Committed'
  BY <1>6, <1>7 DEF Explained, Told
<1> QED
  BY <1>3, <1>7, <1>8, <1>9 DEF Explained, RoundsExplain

\* Every step keeps the rounds and the log in agreement.
LEMMA ExplainedStep ==
  ASSUME IInv, IInv', Explained, [Next]_vars
  PROVE  Explained'
<1> TypeOK /\ RoundShape /\ TypeOK' /\ RoundShape'
  BY DEF IInv
<1>1. ASSUME NEW n \in MaxProbesGiven, Survey(n) \/ Resume(n) PROVE Explained'
  <2>1. /\ pc' # "record" /\ recorded' = 0
        /\ observations' = saved'.observations /\ rounds' = saved'.rounds
        /\ counter' = saved'.round
        /\ saved' = saved \/ saved' = FreshState
    BY <1>1 DEF Survey, Resume, RunSurvey, diskVars, FreshState, RoundShape
  <2>2. RoundsExplain(saved')
    BY <2>1, FreshExplains DEF Explained
  <2>3. (TypeOK /\ recorded = 0 /\ pc # "record" =>
            (Explained <=>
               /\ RoundsExplain([observations |-> observations, rounds |-> rounds, round |-> counter])
               /\ RoundsExplain(saved)))'
    BY ExplainedOutside, PTL
  <2>4. RoundsExplain([observations |-> observations', rounds |-> rounds', round |-> counter'])
    BY <2>1, <2>2 DEF RoundsExplain
  <2> QED
    BY <2>1, <2>2, <2>3, <2>4 DEF RoundsExplain
<1>2. CASE Leave \/ PolicyDone \/ PolicyFails \/ MakeReport \/ Truncate \/ Dedupe \/ Dispatch
  BY <1>2, ExplainedKept DEF Leave, PolicyDone, PolicyFails, CanPropose, MakeReport, Truncate,
        Dedupe, Scanning, Dispatch, batchVars, stateVars, diskVars
<1>3. CASE Deadline \/ Cancel \/ UNCHANGED vars
  BY <1>3 DEF Deadline, Cancel, vars, stateVars, batchVars, diskVars,
        Explained, Past, Told, Committed, RoundsExplain
<1>4. ASSUME NEW p \in Proposals, PolicyProposes(p) PROVE Explained'
  BY <1>4, ExplainedKept DEF PolicyProposes, CanPropose, stateVars, diskVars
<1>5. ASSUME NEW i \in DOMAIN work, Spawn(i) \/ Finish(i) PROVE Explained'
  BY <1>5, ExplainedKept DEF Spawn, Finish, stateVars, diskVars
<1>6. CASE Wait
  BY <1>6, ExplainedWait
<1>7. CASE AddObservation
  BY <1>7, ExplainedRecording
<1>8. CASE EndRound
  BY <1>8, ExplainedEnd
<1>9. CASE Save \/ Exit \/ Crash
  <2>1. RoundsExplain(saved')
    <3>1. CASE Save
      <4>1. /\ pc # "record" /\ recorded = 0
            /\ saved' = [observations |-> observations, rounds |-> rounds, round |-> counter]
        BY <3>1 DEF Save, RoundShape
      <4> QED
        BY <4>1, ExplainedOutside
    <3>2. CASE Exit \/ Crash
      BY <3>2 DEF Exit, Crash, diskVars, Explained
    <3> QED
      BY <1>9, <3>1, <3>2
  <2>2. /\ pc' = "idle" /\ observations' = << >> /\ rounds' = << >> /\ counter' = 0
        /\ recorded' = 0
    BY <1>9 DEF Save, Exit, Crash, Forget
  <2>3. RoundsExplain([observations |-> observations', rounds |-> rounds', round |-> counter'])
    BY <2>2, FreshExplains DEF FreshState
  <2>4. (TypeOK /\ recorded = 0 /\ pc # "record" =>
            (Explained <=>
               /\ RoundsExplain([observations |-> observations, rounds |-> rounds, round |-> counter])
               /\ RoundsExplain(saved)))'
    BY ExplainedOutside, PTL
  <2> QED
    BY <2>1, <2>2, <2>3, <2>4 DEF RoundsExplain
<1> QED
  BY <1>1, <1>2, <1>3, <1>4, <1>5, <1>6, <1>7, <1>8, <1>9 DEF Next, Start, Loop, Policy

\* Wherever the state can be seen outside RunSurvey, and on disk, its rounds
\* name its observations in order, none lost and none out of place.
THEOREM LogFollowsRoundsAlways == Spec => []LogFollowsRounds
<1>1. Init => Explained
  <2> SUFFICES ASSUME Init PROVE Explained
    OBVIOUS
  <2>1. /\ pc = "idle" /\ recorded = 0 /\ saved = FreshState
        /\ [observations |-> observations, rounds |-> rounds, round |-> counter] = FreshState
    BY DEF Init, FreshState
  <2>2. TypeOK
    BY InvInit DEF IInv
  <2> QED
    BY <2>1, <2>2, FreshExplains, ExplainedOutside
<1>2. IInv /\ IInv' /\ Explained /\ [Next]_vars => Explained'
  BY ExplainedStep
<1>3. IInv /\ Explained => LogFollowsRounds
  <2> SUFFICES ASSUME IInv, Explained PROVE LogFollowsRounds
    OBVIOUS
  <2> TypeOK /\ RoundShape
    BY DEF IInv
  <2>1. RoundsExplain(saved)
    BY DEF Explained
  <2>2. pc \in {"idle", "loop", "report", "reported", "saving", "failed"} =>
           RoundsExplain([observations |-> observations, rounds |-> rounds, round |-> counter])
    BY ExplainedOutside DEF RoundShape
  <2> QED
    BY <2>1, <2>2 DEF LogFollowsRounds
<1> QED
  BY <1>1, <1>2, <1>3, RunnerInvariant, PTL DEF Spec
=============================================================================
