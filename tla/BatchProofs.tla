---------------------------- MODULE BatchProofs ----------------------------
(***************************************************************************)
(* The accounts of a batch and its stream, for every number of targets,    *)
(* runs, jobs and faults, what is loaded of its directory and its stream,  *)
(* and the comparison of any two sets of reports.                          *)
(***************************************************************************)
EXTENDS BatchProps, FiniteSetTheorems, TLAPS

\* The jobs that are queued are those from the next one on.
QueuedAhead ==
    \A j \in AllJobs :
        stage[j] = "queued" <=> next[1] < j[1] \/ (next[1] = j[1] /\ next[2] <= j[2])

\* A job has a report once its survey has returned one.
ReportFound ==
    \A j \in AllJobs :
        /\ stage[j] \in {"queued", "survey", "complain"} => found[j] = NoReport
        /\ stage[j] \in {"create", "write", "save", "line", "count"} => found[j] \in Body

\* The jobs that have been counted, as ok or as failed.
Counted == {j \in AllJobs : stage[j] \in {"complain", "done"}}

\* No job is counted as failed twice, and only jobs that are over.
FailedOnce ==
    /\ \A i \in 1..Len(failures) : failures[i] \in Counted
    /\ \A i, k \in 1..Len(failures) : failures[i] = failures[k] => i = k
    /\ \A j \in AllJobs : stage[j] = "complain" => j \in Failed

CountsAddUp == okCount + Len(failures) = Cardinality(Counted)

Report(j) == [batch |-> "this", body |-> found[j]]

\* From the moment its report is written, a job's file holds it.
FileHolds ==
    \A j \in AllJobs :
        stage[j] \in {"save", "line", "count"} \/ (stage[j] = "done" /\ j \notin Failed)
            => files[FileOf(j)] = Report(j)

\* A job that is past its line has found this, and its file holds it.
Told(j, body) ==
    /\ stage[j] \in {"count", "done"}
    /\ body = found[j]
    /\ body # NoReport => files[FileOf(j)] = Report(j)

\* The stream tells of nothing else.
LineOfJob ==
    \A i \in 1..Len(stream) :
        stream[i] # Torn =>
            \E j \in AllJobs : stream[i] = [job |-> j, body |-> found[j]] /\ Told(j, found[j])

BatchInv ==
    /\ TypeOK
    /\ QueuedAhead
    /\ ReportFound
    /\ FailedOnce
    /\ CountsAddUp
    /\ FileHolds
    /\ LineOfJob
    /\ ExitAccounts

-----------------------------------------------------------------------------
(* Lemmas *)

\* What appending one element does.
LEMMA Appended ==
    ASSUME NEW S, NEW s \in Seq(S), NEW e \in S
    PROVE  /\ Append(s, e) \in Seq(S)
           /\ Len(s) \in Nat
           /\ Len(Append(s, e)) = Len(s) + 1
           /\ \A i \in 1..Len(s) : Append(s, e)[i] = s[i]
           /\ Append(s, e)[Len(s) + 1] = e
PROOF OBVIOUS

\* Each job has a name of its own in the directory.
LEMMA NamesDiffer ==
    ASSUME runs \in 1..MaxRuns
    PROVE  /\ \A j \in AllJobs : FileOf(j) \in Names
           /\ \A j, k \in AllJobs : FileOf(j) = FileOf(k) => j = k
PROOF
  <1>1. runs \in Nat /\ runs >= 1 /\ runs <= MaxRuns /\ MaxRuns \in Nat /\ Targets \in Nat
    BY BatchAssumption DEF BatchAssumption
  <1>2. ASSUME NEW j \in AllJobs
        PROVE  j = <<j[1], j[2]>> /\ j[1] \in 1..Targets /\ j[2] \in 1..runs
    BY DEF AllJobs
  <1>3. ASSUME NEW j \in AllJobs PROVE FileOf(j) \in Names
    BY <1>1, <1>2 DEF FileOf, Names
  <1>4. ASSUME NEW j \in AllJobs, NEW k \in AllJobs, FileOf(j) = FileOf(k)
        PROVE  j = k
    <2>1. CASE runs > 1
      BY <1>4, <2>1 DEF FileOf
    <2>2. CASE runs = 1
      <3>1. j[1] = k[1]
        BY <1>4, <2>2 DEF FileOf
      <3>2. j[2] = 1 /\ k[2] = 1
        BY <1>2, <2>2
      <3> QED BY <1>2, <3>1, <3>2
    <2> QED BY <1>1, <2>1, <2>2
  <1> QED BY <1>3, <1>4

\* There are as many jobs as targets times runs.
LEMMA JobsCounted ==
    ASSUME runs \in 1..MaxRuns
    PROVE  IsFiniteSet(AllJobs) /\ Cardinality(AllJobs) = Targets * runs
PROOF
  <1>1. runs \in Nat /\ runs >= 1 /\ Targets \in Nat /\ Targets >= 1
    BY BatchAssumption DEF BatchAssumption
  <1>2. /\ IsFiniteSet(1..Targets) /\ Cardinality(1..Targets) = Targets
        /\ IsFiniteSet(1..runs) /\ Cardinality(1..runs) = runs
    BY <1>1, FS_Interval
  <1> QED BY <1>2, FS_Product, ZenonT(30) DEF AllJobs

\* The set of the jobs counted is finite.
LEMMA CountedFinite ==
    ASSUME runs \in 1..MaxRuns
    PROVE  IsFiniteSet(Counted) /\ Cardinality(Counted) \in Nat
PROOF
  <1>1. Counted \in SUBSET AllJobs
    BY DEF Counted
  <1>2. IsFiniteSet(Counted)
    BY <1>1, JobsCounted, FS_Subset
  <1> QED BY <1>2, FS_CardinalityType

\* A sequence without repetition has as many elements as places.
LEMMA FailedCounted ==
    ASSUME failures \in Seq(AllJobs), FailedOnce
    PROVE  Cardinality(Failed) = Len(failures)
PROOF
  <1>1. Len(failures) \in Nat /\ DOMAIN failures = 1..Len(failures)
    OBVIOUS
  <1>2. IsFiniteSet(1..Len(failures)) /\ Cardinality(1..Len(failures)) = Len(failures)
    BY <1>1, FS_Interval
  <1>3. failures \in [1..Len(failures) -> Failed]
    BY <1>1 DEF Failed
  <1>4. failures \in Bijection(1..Len(failures), Failed)
    BY <1>1, <1>3 DEF Failed, FailedOnce, Bijection, Injection, Surjection, IsInjective
  <1>5. ExistsBijection(1..Len(failures), Failed)
    BY <1>4 DEF ExistsBijection
  <1> QED BY <1>2, <1>5, FS_Bijection

-----------------------------------------------------------------------------
(* What one step of one goroutine leaves alone *)

\* A step of a goroutine moves its own job and no other.
LEMMA Moved ==
    ASSUME TypeOK, NEW j \in AllJobs, NEW from, NEW to \in Stages, Move(j, from, to)
    PROVE  /\ UNCHANGED <<runs, next, interrupted, exit>> /\ exit = Running
           /\ AllJobs' = AllJobs
           /\ stage' \in [AllJobs -> Stages]
           /\ stage[j] = from /\ stage'[j] = to
           /\ \A k \in AllJobs : k # j => stage'[k] = stage[k]
           /\ \A k \in AllJobs : FileOf(k)' = FileOf(k)
           /\ ExitAccounts'
PROOF
  <1>1. stage \in [AllJobs -> Stages]
    BY DEF TypeOK
  <1>2. UNCHANGED <<runs, next, interrupted, exit>> /\ exit = Running /\ stage[j] = from
    BY DEF Move
  <1>3. stage' = [stage EXCEPT ![j] = to]
    BY DEF Move
  <1>4. AllJobs' = AllJobs
    BY <1>2 DEF AllJobs
  <1>5. \A k \in AllJobs : FileOf(k)' = FileOf(k)
    BY <1>2 DEF FileOf
  <1>6. exit' \notin {0, 1}
    BY <1>2 DEF Running
  <1>7. ExitAccounts'
    BY <1>6 DEF ExitAccounts
  <1> QED BY <1>1, <1>2, <1>3, <1>4, <1>5, <1>7

\* A job that is not queued moves on: the queued ones are still those ahead.
LEMMA StillAhead ==
    ASSUME BatchInv, NEW j \in AllJobs, NEW from, NEW to \in Stages, Move(j, from, to),
           from # "queued", to # "queued"
    PROVE  QueuedAhead'
PROOF
  <1>1. TypeOK /\ QueuedAhead
    BY DEF BatchInv
  <1>2. /\ UNCHANGED <<next>> /\ AllJobs' = AllJobs /\ stage[j] # "queued" /\ stage'[j] # "queued"
        /\ \A k \in AllJobs : k # j => stage'[k] = stage[k]
    BY <1>1, Moved
  <1> QED BY <1>1, <1>2 DEF QueuedAhead

\* A job that is not counted by the step: the accounts stay what they are.
LEMMA NotCounted ==
    ASSUME BatchInv, NEW j \in AllJobs, NEW from, NEW to \in Stages \ {"complain"}, Move(j, from, to),
           from \in {"complain", "done"} <=> to \in {"complain", "done"},
           UNCHANGED <<okCount, failures>>
    PROVE  FailedOnce' /\ CountsAddUp'
PROOF
  <1>1. TypeOK /\ FailedOnce /\ CountsAddUp
    BY DEF BatchInv
  <1>2. /\ AllJobs' = AllJobs /\ stage[j] = from /\ stage'[j] = to
        /\ \A k \in AllJobs : k # j => stage'[k] = stage[k]
    BY <1>1, Moved
  <1>3. Counted' = Counted
    BY <1>2 DEF Counted
  <1>4. Failed' = Failed
    BY DEF Failed
  <1>5. FailedOnce'
    BY <1>1, <1>2, <1>3, <1>4 DEF FailedOnce
  <1> QED BY <1>1, <1>3, <1>5 DEF CountsAddUp

\* The job comes to be counted.
LEMMA OneMoreCounted ==
    ASSUME BatchInv, NEW j \in AllJobs, NEW from, NEW to \in {"complain", "done"}, Move(j, from, to),
           from \notin {"complain", "done"}
    PROVE  Cardinality(Counted)' = Cardinality(Counted) + 1 /\ j \notin Counted /\ Counted' = Counted \cup {j}
PROOF
  <1>1. TypeOK /\ to \in Stages
    BY DEF BatchInv, Stages
  <1>2. /\ AllJobs' = AllJobs /\ stage[j] = from /\ stage'[j] = to
        /\ \A k \in AllJobs : k # j => stage'[k] = stage[k]
    BY <1>1, Moved
  <1>3. j \notin Counted /\ Counted' = Counted \cup {j}
    BY <1>2 DEF Counted
  <1>4. IsFiniteSet(Counted)
    BY <1>1, CountedFinite DEF TypeOK
  <1> QED BY <1>3, <1>4, FS_AddElement

\* ... as failed.
LEMMA CountedAsFailed ==
    ASSUME BatchInv, NEW j \in AllJobs, NEW from, NEW to \in {"complain", "done"}, Move(j, from, to),
           from \notin {"complain", "done"},
           okCount' = okCount, failures' = Append(failures, j)
    PROVE  FailedOnce' /\ CountsAddUp'
PROOF
  <1>1. TypeOK /\ FailedOnce /\ CountsAddUp
    BY DEF BatchInv
  <1>2. failures \in Seq(AllJobs)
    BY <1>1 DEF TypeOK
  <1>3. /\ failures' \in Seq(AllJobs)
        /\ Len(failures) \in Nat /\ Len(failures') = Len(failures) + 1
        /\ \A i \in 1..Len(failures) : failures'[i] = failures[i]
        /\ failures'[Len(failures) + 1] = j
    BY <1>2, Appended
  <1>4. Cardinality(Counted)' = Cardinality(Counted) + 1 /\ j \notin Counted /\ Counted' = Counted \cup {j}
    BY OneMoreCounted
  <1>5. CountsAddUp'
    <2>1. okCount \in Nat /\ Cardinality(Counted) \in Nat
      BY <1>1, CountedFinite DEF TypeOK
    <2>2. okCount + Len(failures) + 1 = Cardinality(Counted) + 1
      BY <1>1, <1>3, <2>1 DEF CountsAddUp
    <2> QED BY <1>3, <1>4, <2>1, <2>2 DEF CountsAddUp
  <1>6. Failed' = Failed \cup {j}
    <2>1. DOMAIN failures = 1..Len(failures) /\ DOMAIN failures' = 1..(Len(failures) + 1)
      BY <1>2, <1>3
    <2>2. 1..(Len(failures) + 1) = 1..Len(failures) \cup {Len(failures) + 1}
      BY <1>3
    <2> QED BY <1>3, <2>1, <2>2 DEF Failed
  <1>7. FailedOnce'
    <2>1. ASSUME NEW i \in 1..(Len(failures) + 1)
          PROVE  failures'[i] \in Counted'
      <3>1. CASE i = Len(failures) + 1
        BY <1>3, <1>4, <3>1
      <3>2. CASE i \in 1..Len(failures)
        BY <1>1, <1>3, <1>4, <3>2 DEF FailedOnce
      <3> QED BY <1>3, <2>1, <3>1, <3>2
    <2>2. ASSUME NEW i \in 1..(Len(failures) + 1), NEW k \in 1..(Len(failures) + 1),
                 failures'[i] = failures'[k]
          PROVE  i = k
      <3>1. CASE i \in 1..Len(failures) /\ k \in 1..Len(failures)
        BY <1>1, <1>3, <2>2, <3>1 DEF FailedOnce
      <3>2. CASE i = Len(failures) + 1 /\ k \in 1..Len(failures)
        BY <1>1, <1>3, <1>4, <2>2, <3>2 DEF FailedOnce
      <3>3. CASE k = Len(failures) + 1 /\ i \in 1..Len(failures)
        BY <1>1, <1>3, <1>4, <2>2, <3>3 DEF FailedOnce
      <3> QED BY <1>3, <3>1, <3>2, <3>3
    <2>3. ASSUME NEW k \in AllJobs, stage'[k] = "complain"
          PROVE  k \in Failed'
      <3>1. \A l \in AllJobs : l # j => stage'[l] = stage[l]
        BY <1>1, Moved DEF Stages
      <3> QED BY <1>1, <1>6, <2>3, <3>1 DEF FailedOnce
    <2>4. AllJobs' = AllJobs
      BY <1>1, Moved DEF Stages
    <2> QED BY <1>3, <2>1, <2>2, <2>3, <2>4 DEF FailedOnce
  <1> QED BY <1>5, <1>7

\* ... as ok.
LEMMA CountedAsOk ==
    ASSUME BatchInv, NEW j \in AllJobs, Move(j, "count", "done"),
           okCount' = okCount + 1, failures' = failures
    PROVE  FailedOnce' /\ CountsAddUp'
PROOF
  <1>1. TypeOK /\ FailedOnce /\ CountsAddUp
    BY DEF BatchInv
  <1>2. Cardinality(Counted)' = Cardinality(Counted) + 1 /\ j \notin Counted /\ Counted' = Counted \cup {j}
    BY OneMoreCounted
  <1>3. CountsAddUp'
    <2>1. okCount \in Nat /\ Cardinality(Counted) \in Nat /\ Len(failures) \in Nat
      BY <1>1, CountedFinite DEF TypeOK
    <2> QED BY <1>1, <1>2, <2>1 DEF CountsAddUp
  <1>4. Failed' = Failed
    BY DEF Failed
  <1>5. AllJobs' = AllJobs /\ \A k \in AllJobs : stage'[k] = "complain" => stage[k] = "complain"
    BY <1>1, Moved DEF Stages
  <1> QED BY <1>1, <1>2, <1>3, <1>4, <1>5 DEF FailedOnce

-----------------------------------------------------------------------------
(* What one step of one goroutine does to the reports and the stream *)

\* The reports and the files of all other jobs are left alone.
OthersKept(j) ==
    \A k \in AllJobs : k # j => found'[k] = found[k] /\ files'[FileOf(k)] = files[FileOf(k)]

\* A job that moves with a report still has one.
LEMMA StillFound ==
    ASSUME BatchInv, NEW j \in AllJobs, NEW from, NEW to \in Stages, Move(j, from, to), OthersKept(j),
           to \in {"queued", "survey", "complain"} => found'[j] = NoReport,
           to \in {"create", "write", "save", "line", "count"} => found'[j] \in Body
    PROVE  ReportFound'
PROOF
  <1>1. TypeOK /\ ReportFound
    BY DEF BatchInv
  <1>2. /\ AllJobs' = AllJobs /\ stage'[j] = to
        /\ \A k \in AllJobs : k # j => stage'[k] = stage[k]
    BY <1>1, Moved
  <1> QED BY <1>1, <1>2 DEF ReportFound, OthersKept

\* A job that has its report in its file when it is told of: all still do.
LEMMA StillHeld ==
    ASSUME BatchInv, NEW j \in AllJobs, NEW from, NEW to \in Stages, Move(j, from, to), OthersKept(j),
           Failed \subseteq Failed',
           to \in {"save", "line", "count"} \/ (to = "done" /\ j \notin Failed')
              => files'[FileOf(j)] = [batch |-> "this", body |-> found'[j]]
    PROVE  FileHolds'
PROOF
  <1>1. TypeOK /\ FileHolds
    BY DEF BatchInv
  <1>2. /\ AllJobs' = AllJobs /\ stage'[j] = to
        /\ \A k \in AllJobs : k # j => stage'[k] = stage[k]
        /\ \A k \in AllJobs : FileOf(k)' = FileOf(k)
    BY <1>1, Moved
  <1>3. ASSUME NEW k \in AllJobs,
               stage'[k] \in {"save", "line", "count"} \/ (stage'[k] = "done" /\ k \notin Failed')
        PROVE  files'[FileOf(k)] = [batch |-> "this", body |-> found'[k]]
    <2>1. CASE k = j
      BY <1>2, <1>3, <2>1
    <2>2. CASE k # j
      BY <1>1, <1>2, <1>3, <2>2 DEF FileHolds, OthersKept, Report
    <2> QED BY <2>1, <2>2
  <1> QED BY <1>2, <1>3 DEF FileHolds, Report

\* What is told of other jobs stays true, and so does what is told of a job
\* that only moves on past its line.
LEMMA StillTold ==
    ASSUME BatchInv, NEW j \in AllJobs, NEW from, NEW to \in Stages, Move(j, from, to), OthersKept(j),
           \/ from \notin {"count", "done"}
           \/ to \in {"count", "done"} /\ UNCHANGED <<found, files>>,
           NEW k \in AllJobs, NEW body, Told(k, body)
    PROVE  Told(k, body)' /\ k \in AllJobs' /\ body = found'[k]
PROOF
  <1>1. TypeOK
    BY DEF BatchInv
  <1>2. /\ AllJobs' = AllJobs /\ stage[j] = from /\ stage'[j] = to
        /\ \A l \in AllJobs : l # j => stage'[l] = stage[l]
        /\ \A l \in AllJobs : FileOf(l)' = FileOf(l)
    BY <1>1, Moved
  <1>3. CASE k # j
    BY <1>2, <1>3 DEF Told, Report, OthersKept
  <1>4. CASE k = j
    BY <1>2, <1>4 DEF Told, Report
  <1> QED BY <1>3, <1>4

\* A step that adds no line leaves every line true.
LEMMA NoLineAdded ==
    ASSUME BatchInv, NEW j \in AllJobs, NEW from, NEW to \in Stages, Move(j, from, to), OthersKept(j),
           \/ from \notin {"count", "done"}
           \/ to \in {"count", "done"} /\ UNCHANGED <<found, files>>,
           UNCHANGED stream
    PROVE  LineOfJob'
PROOF
  <1>1. ASSUME NEW i \in 1..Len(stream), stream[i] # Torn
        PROVE  \E k \in AllJobs' : stream[i] = [job |-> k, body |-> found'[k]] /\ Told(k, found[k])'
    <2>1. PICK k \in AllJobs : stream[i] = [job |-> k, body |-> found[k]] /\ Told(k, found[k])
      BY <1>1 DEF BatchInv, LineOfJob
    <2>2. PICK body : body = found[k]
      OBVIOUS
    <2>3. Told(k, body)
      BY <2>1, <2>2
    <2>4. Told(k, body)' /\ k \in AllJobs' /\ body = found'[k]
      BY <2>3, StillTold
    <2> QED BY <2>1, <2>2, <2>4
  <1> QED BY <1>1 DEF LineOfJob

\* A line is added: a torn one, or one that tells what the file holds.
LEMMA LineAdded ==
    ASSUME BatchInv, NEW j \in AllJobs, NEW from, NEW to \in {"count", "done"}, Move(j, from, to),
           from \notin {"count", "done"}, UNCHANGED <<found, files>>,
           NEW line \in Lines, stream' = Append(stream, line),
           line = Torn \/ line = [job |-> j, body |-> found[j]],
           found[j] # NoReport => files[FileOf(j)] = Report(j)
    PROVE  LineOfJob'
PROOF
  <1>1. TypeOK /\ to \in Stages /\ OthersKept(j)
    BY DEF BatchInv, Stages, OthersKept
  <1>2. stream \in Seq(Lines)
    BY <1>1 DEF TypeOK
  <1>3. /\ Len(stream) \in Nat /\ Len(stream') = Len(stream) + 1
        /\ \A i \in 1..Len(stream) : stream'[i] = stream[i]
        /\ stream'[Len(stream) + 1] = line
    BY <1>2, Appended
  <1>4. ASSUME NEW i \in 1..(Len(stream) + 1), stream'[i] # Torn
        PROVE  \E k \in AllJobs' : stream'[i] = [job |-> k, body |-> found'[k]] /\ Told(k, found[k])'
    <2>1. CASE i \in 1..Len(stream)
      <3>1. stream'[i] = stream[i]
        BY <1>3, <2>1
      <3>2. PICK k \in AllJobs : stream[i] = [job |-> k, body |-> found[k]] /\ Told(k, found[k])
        BY <1>4, <2>1, <3>1 DEF BatchInv, LineOfJob
      <3>3. PICK body : body = found[k]
        OBVIOUS
      <3>4. Told(k, body)
        BY <3>2, <3>3
      <3>5. Told(k, body)' /\ k \in AllJobs' /\ body = found'[k]
        BY <1>1, <3>4, StillTold
      <3> QED BY <3>1, <3>2, <3>3, <3>5
    <2>2. CASE i = Len(stream) + 1
      <3>1. stream'[i] = [job |-> j, body |-> found[j]]
        BY <1>3, <1>4, <2>2
      <3>2. AllJobs' = AllJobs /\ stage'[j] = to /\ FileOf(j)' = FileOf(j)
        BY <1>1, Moved
      <3>3. Told(j, found[j])'
        BY <3>2 DEF Told, Report
      <3> QED BY <3>1, <3>2, <3>3
    <2> QED BY <1>3, <2>1, <2>2
  <1> QED BY <1>3, <1>4 DEF LineOfJob

-----------------------------------------------------------------------------
(* The steps *)

\* A goroutine's step keeps the type of what it changes.
LEMMA StillTyped ==
    ASSUME BatchInv, NEW j \in AllJobs, NEW from, NEW to \in Stages, Move(j, from, to),
           found' \in [AllJobs -> Body \cup {NoReport}],
           files' \in [Names -> Contents],
           states' \in [AllJobs -> {Absent, Torn, "this"}],
           stream' \in Seq(Lines),
           okCount' \in Nat,
           failures' \in Seq(AllJobs),
           faults' \in 0..MaxFaults
    PROVE  TypeOK'
PROOF
  <1>1. TypeOK
    BY DEF BatchInv
  <1>2. /\ UNCHANGED <<runs, next, interrupted, exit>>
        /\ AllJobs' = AllJobs /\ stage' \in [AllJobs -> Stages]
    BY <1>1, Moved
  <1>3. Lines' = Lines
    BY <1>2 DEF Lines
  <1> QED BY <1>1, <1>2, <1>3 DEF TypeOK

\* What every step starts from.
LEMMA Types ==
    ASSUME BatchInv
    PROVE  /\ TypeOK
           /\ found \in [AllJobs -> Body \cup {NoReport}] /\ NoReport \notin Body
           /\ files \in [Names -> Contents]
           /\ states \in [AllJobs -> {Absent, Torn, "this"}]
           /\ stream \in Seq(Lines)
           /\ okCount \in Nat /\ failures \in Seq(AllJobs) /\ faults \in 0..MaxFaults
PROOF BY BatchAssumption DEF BatchInv, TypeOK, BatchAssumption, Body

\* A fault is counted within its bound.
LEMMA FaultCounted ==
    ASSUME faults \in 0..MaxFaults, Fault
    PROVE  faults' \in 0..MaxFaults
PROOF
  <1>1. MaxFaults \in Nat
    BY BatchAssumption DEF BatchAssumption
  <1> QED BY <1>1 DEF Fault

\* The survey of a job returns a report.
LEMMA SurveyReportsStep ==
    ASSUME BatchInv, NEW j \in AllJobs, SurveyReports(j)
    PROVE  BatchInv'
PROOF
  <1>1. /\ Move(j, "survey", "create")
        /\ UNCHANGED <<files, states, stream, okCount, failures, faults>>
    BY DEF SurveyReports, outVars, countVars
  <1>2. PICK body \in Body : found' = [found EXCEPT ![j] = body]
    BY DEF SurveyReports, Body
  <1>3. "create" \in Stages
    BY DEF Stages
  <1>4. OthersKept(j) /\ found'[j] = body /\ found' \in [AllJobs -> Body \cup {NoReport}]
    BY <1>1, <1>2, Types DEF OthersKept
  <1>5. TypeOK'
    BY <1>1, <1>3, <1>4, Types, StillTyped
  <1>6. QueuedAhead'
    BY <1>1, <1>3, StillAhead
  <1>7. FailedOnce' /\ CountsAddUp'
    BY <1>1, <1>3, NotCounted
  <1>8. ReportFound'
    BY <1>1, <1>3, <1>4, StillFound
  <1>9. FileHolds'
    BY <1>1, <1>3, <1>4, StillHeld DEF Failed
  <1>10. LineOfJob'
    BY <1>1, <1>3, <1>4, NoLineAdded
  <1>11. ExitAccounts'
    BY <1>1, <1>3, Types, Moved
  <1> QED BY <1>5, <1>6, <1>7, <1>8, <1>9, <1>10, <1>11 DEF BatchInv

\* A job is counted as failed, and ends there or goes on to its line.
LEMMA FailureStep ==
    ASSUME BatchInv, NEW j \in AllJobs, SurveyFails(j) \/ CreateFails(j) \/ WriteFails(j)
    PROVE  BatchInv'
PROOF
  <1>1. PICK from \in {"survey", "create", "write"}, to \in {"complain", "done"} :
            Move(j, from, to) /\ (to = "complain" => from = "survey")
    BY DEF SurveyFails, CreateFails, WriteFails
  <1>2. /\ Fault /\ failures' = Append(failures, j)
        /\ UNCHANGED <<found, files, states, stream, okCount>>
    BY DEF SurveyFails, CreateFails, WriteFails, outVars
  <1>3. to \in Stages /\ to # "queued"
    BY DEF Stages
  <1>4. OthersKept(j)
    BY <1>2 DEF OthersKept
  <1>5. TypeOK /\ failures' \in Seq(AllJobs)
    BY <1>2, Types, Appended
  <1>6. stage[j] = from
    BY <1>1, <1>3, <1>5, Moved
  <1>7. TypeOK'
    BY <1>1, <1>2, <1>3, <1>5, Types, FaultCounted, StillTyped
  <1>8. QueuedAhead'
    BY <1>1, <1>3, StillAhead
  <1>9. FailedOnce' /\ CountsAddUp'
    BY <1>1, <1>2, CountedAsFailed
  <1>10. ReportFound'
    <2>1. to = "complain" => found'[j] = NoReport
      BY <1>1, <1>2, <1>6 DEF BatchInv, ReportFound
    <2> QED BY <1>1, <1>3, <1>4, <2>1, StillFound
  <1>11. FileHolds'
    <2>1. /\ Len(failures') = Len(failures) + 1 /\ Len(failures) \in Nat
          /\ \A i \in 1..Len(failures) : failures'[i] = failures[i]
          /\ failures'[Len(failures) + 1] = j
      BY <1>2, Types, Appended
    <2>2. DOMAIN failures = 1..Len(failures) /\ DOMAIN failures' = 1..(Len(failures) + 1)
      BY <1>5, <2>1, Types
    <2>3. Failed \subseteq Failed' /\ j \in Failed'
      BY <2>1, <2>2 DEF Failed
    <2> QED BY <1>1, <1>3, <1>4, <2>3, StillHeld
  <1>12. LineOfJob'
    BY <1>1, <1>2, <1>3, <1>4, NoLineAdded
  <1>13. ExitAccounts'
    BY <1>1, <1>3, <1>5, Moved
  <1> QED BY <1>7, <1>8, <1>9, <1>10, <1>11, <1>12, <1>13 DEF BatchInv

\* The report is created and written, under a name no other job has.
LEMMA FileStep ==
    ASSUME BatchInv, NEW j \in AllJobs, Create(j) \/ Write(j)
    PROVE  BatchInv'
PROOF
  <1>1. PICK from \in {"create", "write"}, to \in {"write", "save"}, content \in {Torn, Report(j)} :
            /\ Move(j, from, to) /\ (to = "save" => content = Report(j))
            /\ files' = [files EXCEPT ![FileOf(j)] = content]
    BY DEF Create, Write, Report
  <1>2. UNCHANGED <<found, states, stream, okCount, failures, faults>>
    BY DEF Create, Write, countVars
  <1>3. to \in Stages /\ to # "queued" /\ from \in {"create", "write", "save", "line", "count"}
    BY DEF Stages
  <1>4. TypeOK /\ stage[j] = from /\ runs \in 1..MaxRuns
    BY <1>1, <1>3, Types, Moved DEF TypeOK
  <1>5. found[j] \in Body
    BY <1>3, <1>4 DEF BatchInv, ReportFound
  <1>6. files' \in [Names -> Contents] /\ files'[FileOf(j)] = content /\ OthersKept(j)
    <2>1. /\ \A k \in AllJobs : FileOf(k) \in Names
          /\ \A k \in AllJobs : FileOf(j) = FileOf(k) => j = k
      BY <1>4, NamesDiffer
    <2>2. content \in Contents
      BY <1>1, <1>5 DEF Contents, Report
    <2>3. files \in [Names -> Contents]
      BY Types
    <2> QED BY <1>1, <1>2, <2>1, <2>2, <2>3 DEF OthersKept
  <1>7. TypeOK'
    BY <1>1, <1>2, <1>3, <1>6, Types, StillTyped
  <1>8. QueuedAhead'
    BY <1>1, <1>3, StillAhead
  <1>9. FailedOnce' /\ CountsAddUp'
    BY <1>1, <1>2, <1>3, NotCounted
  <1>10. ReportFound'
    BY <1>1, <1>2, <1>3, <1>5, <1>6, StillFound
  <1>11. FileHolds'
    BY <1>1, <1>2, <1>3, <1>6, StillHeld DEF Failed, Report
  <1>12. LineOfJob'
    BY <1>1, <1>2, <1>3, <1>6, NoLineAdded
  <1>13. ExitAccounts'
    BY <1>1, <1>3, <1>4, Moved
  <1> QED BY <1>7, <1>8, <1>9, <1>10, <1>11, <1>12, <1>13 DEF BatchInv

\* The state is saved, or not.
LEMMA SaveStep ==
    ASSUME BatchInv, NEW j \in AllJobs, SaveState(j) \/ SaveStateFails(j)
    PROVE  BatchInv'
PROOF
  <1>1. Move(j, "save", "line") /\ UNCHANGED <<found, files, stream, okCount, failures>>
    BY DEF SaveState, SaveStateFails, countVars
  <1>2. states' \in [AllJobs -> {Absent, Torn, "this"}]
    BY Types DEF SaveState, SaveStateFails
  <1>3. faults' \in 0..MaxFaults
    BY Types, FaultCounted DEF SaveState, SaveStateFails, countVars
  <1>4. "line" \in Stages /\ OthersKept(j)
    BY <1>1 DEF Stages, OthersKept
  <1>5. TypeOK /\ stage[j] = "save"
    BY <1>1, <1>4, Types, Moved
  <1>6. found[j] \in Body /\ files[FileOf(j)] = [batch |-> "this", body |-> found[j]]
    BY <1>5 DEF BatchInv, ReportFound, FileHolds, Report
  <1>7. TypeOK'
    BY <1>1, <1>2, <1>3, <1>4, Types, StillTyped
  <1>8. QueuedAhead'
    BY <1>1, <1>4, StillAhead
  <1>9. FailedOnce' /\ CountsAddUp'
    BY <1>1, <1>4, NotCounted
  <1>10. ReportFound'
    BY <1>1, <1>4, <1>6, StillFound
  <1>11. FileHolds'
    BY <1>1, <1>4, <1>6, StillHeld DEF Failed
  <1>12. LineOfJob'
    BY <1>1, <1>4, NoLineAdded
  <1>13. ExitAccounts'
    BY <1>1, <1>4, <1>5, Moved
  <1> QED BY <1>7, <1>8, <1>9, <1>10, <1>11, <1>12, <1>13 DEF BatchInv

\* A line is written, of a report or of a failure, or lost.
LEMMA LineStep ==
    ASSUME BatchInv, NEW j \in AllJobs, WriteLine(j) \/ Complain(j) \/ WriteLineFails(j)
    PROVE  BatchInv'
PROOF
  <1> DEFINE line == [job |-> j, body |-> found[j]]
  <1>1. PICK from \in {"line", "complain"}, to \in {"count", "done"} :
            Move(j, from, to) /\ (from = "line" <=> to = "count")
    BY DEF WriteLine, Complain, WriteLineFails
  <1>2. UNCHANGED <<found, files, states, okCount, failures>>
    BY DEF WriteLine, Complain, WriteLineFails, countVars
  <1>3. faults' \in 0..MaxFaults
    BY Types, FaultCounted DEF WriteLine, Complain, WriteLineFails, countVars
  <1>4. stream' = stream \/ \E l \in {Torn, line} : stream' = Append(stream, l)
    BY DEF WriteLine, Complain, WriteLineFails, AddLine
  <1>5. line \in Lines /\ Torn \in Lines
    BY Types DEF Lines
  <1> HIDE DEF line
  <1>6. to \in Stages /\ to \notin {"queued", "complain"} /\ from \notin {"count", "done"} /\ OthersKept(j)
    BY <1>2 DEF Stages, OthersKept
  <1>7. TypeOK /\ stage[j] = from
    BY <1>1, <1>6, Types, Moved
  <1>8. /\ from = "line" => found[j] \in Body /\ files[FileOf(j)] = Report(j)
        /\ from = "complain" => found[j] = NoReport /\ j \in Failed
    BY <1>7 DEF BatchInv, ReportFound, FileHolds, FailedOnce
  <1>9. TypeOK'
    <2>1. \A l \in Lines : Append(stream, l) \in Seq(Lines)
      BY Types, Appended
    <2>2. stream' \in Seq(Lines)
      BY <1>4, <1>5, <2>1, Types
    <2> QED BY <1>1, <1>2, <1>3, <1>6, <2>2, Types, StillTyped
  <1>10. QueuedAhead'
    BY <1>1, <1>6, StillAhead
  <1>11. FailedOnce' /\ CountsAddUp'
    <2>1. from \in {"complain", "done"} <=> to \in {"complain", "done"}
      BY <1>1
    <2> QED BY <1>1, <1>2, <1>6, <2>1, NotCounted
  <1>12. ReportFound'
    BY <1>1, <1>2, <1>6, <1>8, StillFound
  <1>13. FileHolds'
    <2>1. Failed' = Failed
      BY <1>2 DEF Failed
    <2>2. to \in {"save", "line", "count"} \/ (to = "done" /\ j \notin Failed')
             => files'[FileOf(j)] = [batch |-> "this", body |-> found'[j]]
      BY <1>1, <1>2, <1>8, <2>1 DEF Report
    <2> QED BY <1>1, <1>6, <2>1, <2>2, StillHeld
  <1>14. LineOfJob'
    <2>1. CASE stream' = stream
      BY <1>1, <1>6, <2>1, NoLineAdded
    <2>2. CASE \E l \in {Torn, line} : stream' = Append(stream, l)
      <3>1. PICK l \in {Torn, line} : stream' = Append(stream, l)
        BY <2>2
      <3>2. l \in Lines /\ (l = Torn \/ l = [job |-> j, body |-> found[j]])
        BY <1>5 DEF line
      <3>3. found[j] # NoReport => files[FileOf(j)] = Report(j)
        BY <1>1, <1>8
      <3> QED BY <1>1, <1>2, <1>6, <3>1, <3>2, <3>3, LineAdded
    <2> QED BY <1>4, <2>1, <2>2
  <1>15. ExitAccounts'
    BY <1>1, <1>6, <1>7, Moved
  <1> QED BY <1>9, <1>10, <1>11, <1>12, <1>13, <1>14, <1>15 DEF BatchInv

\* The job is counted as ok.
LEMMA CountStep ==
    ASSUME BatchInv, NEW j \in AllJobs, Count(j)
    PROVE  BatchInv'
PROOF
  <1>1. /\ Move(j, "count", "done") /\ okCount' = okCount + 1
        /\ UNCHANGED <<found, files, states, stream, failures, faults>>
    BY DEF Count, outVars
  <1>2. "done" \in Stages /\ OthersKept(j)
    BY <1>1 DEF Stages, OthersKept
  <1>3. TypeOK /\ stage[j] = "count"
    BY <1>1, <1>2, Types, Moved
  <1>4. files[FileOf(j)] = [batch |-> "this", body |-> found[j]]
    BY <1>3 DEF BatchInv, FileHolds, Report
  <1>5. TypeOK'
    <2>1. okCount' \in Nat
      BY <1>1, Types
    <2> QED BY <1>1, <1>2, <2>1, Types, StillTyped
  <1>6. QueuedAhead'
    BY <1>1, <1>2, StillAhead
  <1>7. FailedOnce' /\ CountsAddUp'
    BY <1>1, CountedAsOk
  <1>8. ReportFound'
    BY <1>1, <1>2, StillFound
  <1>9. FileHolds'
    BY <1>1, <1>2, <1>4, StillHeld DEF Failed
  <1>10. LineOfJob'
    BY <1>1, <1>2, NoLineAdded
  <1>11. ExitAccounts'
    BY <1>1, <1>2, <1>3, Moved
  <1> QED BY <1>5, <1>6, <1>7, <1>8, <1>9, <1>10, <1>11 DEF BatchInv

\* The next job is started.
LEMMA LaunchStep ==
    ASSUME BatchInv, Launch
    PROVE  BatchInv'
PROOF
  <1>1. TypeOK /\ QueuedAhead /\ ReportFound /\ FailedOnce /\ CountsAddUp /\ FileHolds /\ LineOfJob
    BY DEF BatchInv
  <1>2. /\ exit = Running /\ exit' = Running /\ next \in AllJobs /\ next' = After(next)
        /\ stage' = [stage EXCEPT ![next] = "survey"]
        /\ UNCHANGED <<runs, found, files, states, stream, okCount, failures, interrupted, faults>>
    BY DEF Launch, outVars, countVars
  <1>3. AllJobs' = AllJobs /\ Lines' = Lines /\ \A k \in AllJobs : FileOf(k)' = FileOf(k)
    BY <1>2 DEF AllJobs, Lines, FileOf
  <1>4. runs \in Nat /\ runs >= 1 /\ Targets \in Nat
    BY <1>1, BatchAssumption DEF TypeOK, BatchAssumption
  <1>5. next = <<next[1], next[2]>> /\ next[1] \in 1..Targets /\ next[2] \in 1..runs
    BY <1>2 DEF AllJobs
  <1>6. stage[next] = "queued"
    BY <1>1, <1>2, <1>4, <1>5 DEF QueuedAhead
  <1>7. stage' \in [AllJobs -> Stages] /\ stage'[next] = "survey"
        /\ \A k \in AllJobs : k # next => stage'[k] = stage[k]
    BY <1>1, <1>2 DEF TypeOK, Stages
  <1>8. After(next) \in (1..(Targets + 1)) \X (1..runs)
    BY <1>4, <1>5 DEF After
  <1>9. TypeOK'
    BY <1>1, <1>2, <1>3, <1>7, <1>8 DEF TypeOK
  <1>10. QueuedAhead'
    <2>1. ASSUME NEW k \in AllJobs
          PROVE  stage'[k] = "queued" <=>
                    After(next)[1] < k[1] \/ (After(next)[1] = k[1] /\ After(next)[2] <= k[2])
      <3>1. k = <<k[1], k[2]>> /\ k[1] \in 1..Targets /\ k[2] \in 1..runs
        BY DEF AllJobs
      <3>2. stage'[k] = "queued" <=> stage[k] = "queued" /\ ~(next[1] = k[1] /\ next[2] = k[2])
        BY <1>5, <1>7, <3>1
      <3>3. stage[k] = "queued" <=> next[1] < k[1] \/ (next[1] = k[1] /\ next[2] <= k[2])
        BY <1>1 DEF QueuedAhead
      <3>4. CASE next[2] < runs
        <4>1. After(next)[1] = next[1] /\ After(next)[2] = next[2] + 1
          BY <3>4 DEF After
        <4> QED BY <1>4, <1>5, <3>1, <3>2, <3>3, <4>1
      <3>5. CASE ~(next[2] < runs)
        <4>1. After(next)[1] = next[1] + 1 /\ After(next)[2] = 1
          BY <3>5 DEF After
        <4> QED BY <1>4, <1>5, <3>1, <3>2, <3>3, <3>5, <4>1
      <3> QED BY <3>4, <3>5
    <2> QED BY <1>2, <1>3, <2>1 DEF QueuedAhead
  <1>11. ReportFound'
    BY <1>1, <1>2, <1>3, <1>6, <1>7 DEF ReportFound
  <1>12. Counted' = Counted /\ Failed' = Failed
    BY <1>2, <1>3, <1>6, <1>7 DEF Counted, Failed
  <1>13. FailedOnce' /\ CountsAddUp'
    BY <1>1, <1>2, <1>3, <1>7, <1>12 DEF FailedOnce, CountsAddUp
  <1>14. FileHolds'
    BY <1>1, <1>2, <1>3, <1>7, <1>12 DEF FileHolds, Report
  <1>15. LineOfJob'
    <2>1. ASSUME NEW k \in AllJobs, NEW body, Told(k, body)
          PROVE  Told(k, body)'
      BY <1>2, <1>3, <1>6, <1>7, <2>1 DEF Told, Report
    <2>2. ASSUME NEW i \in 1..Len(stream), stream[i] # Torn
          PROVE  \E k \in AllJobs : stream[i] = [job |-> k, body |-> found'[k]] /\ Told(k, found[k])'
      <3>1. PICK k \in AllJobs : stream[i] = [job |-> k, body |-> found[k]] /\ Told(k, found[k])
        BY <1>1, <2>2 DEF LineOfJob
      <3>2. PICK body : body = found[k]
        OBVIOUS
      <3>3. Told(k, body)'
        BY <2>1, <3>1, <3>2
      <3> QED BY <1>2, <3>1, <3>2, <3>3
    <2> QED BY <1>2, <1>3, <2>2 DEF LineOfJob
  <1>16. ExitAccounts'
    BY <1>2 DEF ExitAccounts, Running
  <1> QED BY <1>9, <1>10, <1>11, <1>13, <1>14, <1>15, <1>16 DEF BatchInv

\* Nothing moves, but perhaps a torn line.
LEMMA NothingMoves ==
    ASSUME BatchInv,
           UNCHANGED <<runs, next, stage, found, files, okCount, failures, faults>>,
           stream' = stream \/ stream' = Append(stream, Torn),
           states' \in [AllJobs -> {Absent, Torn, "this"}],
           interrupted' \in BOOLEAN,
           exit' \in {Running, Dead, 0, 1},
           ExitAccounts'
    PROVE  BatchInv'
PROOF
  <1>1. TypeOK /\ QueuedAhead /\ ReportFound /\ FailedOnce /\ CountsAddUp /\ FileHolds /\ LineOfJob
    BY DEF BatchInv
  <1>2. AllJobs' = AllJobs /\ Lines' = Lines /\ \A k \in AllJobs : FileOf(k)' = FileOf(k)
    BY DEF AllJobs, Lines, FileOf
  <1>3. /\ Append(stream, Torn) \in Seq(Lines) /\ Len(stream) \in Nat
        /\ Len(Append(stream, Torn)) = Len(stream) + 1
        /\ \A i \in 1..Len(stream) : Append(stream, Torn)[i] = stream[i]
        /\ Append(stream, Torn)[Len(stream) + 1] = Torn
    <2>1. Torn \in Lines
      BY DEF Lines
    <2> QED BY <2>1, Types, Appended
  <1>4. TypeOK'
    <2>1. stream' \in Seq(Lines)
      BY <1>3, Types
    <2> QED BY <1>1, <1>2, <2>1 DEF TypeOK
  <1>5. QueuedAhead' /\ ReportFound'
    BY <1>1, <1>2 DEF QueuedAhead, ReportFound
  <1>6. Counted' = Counted /\ Failed' = Failed
    BY <1>2 DEF Counted, Failed
  <1>7. FailedOnce' /\ CountsAddUp'
    BY <1>1, <1>2, <1>6 DEF FailedOnce, CountsAddUp
  <1>8. FileHolds'
    BY <1>1, <1>2, <1>6 DEF FileHolds, Report
  <1>9. LineOfJob'
    <2>1. ASSUME NEW k \in AllJobs, NEW body, Told(k, body)
          PROVE  Told(k, body)'
      BY <1>2, <2>1 DEF Told, Report
    <2>2. AllJobs' = AllJobs /\ found' = found
      BY <1>2 DEF AllJobs
    <2>3. ASSUME NEW i \in 1..Len(stream), stream[i] # Torn
          PROVE  \E k \in AllJobs' : stream[i] = [job |-> k, body |-> found'[k]] /\ Told(k, found[k])'
      <3>1. PICK k \in AllJobs : stream[i] = [job |-> k, body |-> found[k]] /\ Told(k, found[k])
        BY <1>1, <2>3 DEF LineOfJob
      <3>2. Told(k, found[k])'
        BY <2>1, <2>2, <3>1 DEF Told, Report
      <3> QED BY <2>2, <3>1, <3>2
    <2>4. ASSUME NEW i \in 1..Len(stream'), stream'[i] # Torn
          PROVE  i \in 1..Len(stream) /\ stream'[i] = stream[i]
      BY <1>1, <1>3, <2>4 DEF TypeOK
    <2> QED BY <2>3, <2>4 DEF LineOfJob
  <1> QED BY <1>4, <1>5, <1>7, <1>8, <1>9 DEF BatchInv

\* The batch exits when every job has been counted.
LEMMA ExitStep ==
    ASSUME BatchInv, Exit
    PROVE  BatchInv'
PROOF
  <1>1. /\ exit = Running /\ next \notin AllJobs /\ Busy = {} /\ exit' = ExitCode
        /\ UNCHANGED <<runs, next, stage, found, files, states, stream, okCount, failures, interrupted, faults>>
    BY DEF Exit, jobVars, outVars, countVars
  <1>2. TypeOK /\ QueuedAhead /\ FailedOnce /\ CountsAddUp /\ FileHolds
    BY DEF BatchInv
  <1>3. runs \in Nat /\ Targets \in Nat /\ runs \in 1..MaxRuns
    BY <1>2, BatchAssumption DEF TypeOK, BatchAssumption
  <1>4. next[1] = Targets + 1
    <2>1. next = <<next[1], next[2]>> /\ next[1] \in 1..(Targets + 1) /\ next[2] \in 1..runs
      BY <1>2 DEF TypeOK
    <2>2. next[1] \notin 1..Targets
      BY <1>1, <2>1 DEF AllJobs
    <2> QED BY <1>3, <2>1, <2>2
  <1>5. ASSUME NEW j \in AllJobs
        PROVE  stage[j] = "done"
    <2>1. j[1] \in 1..Targets
      BY DEF AllJobs
    <2>2. stage[j] # "queued"
      BY <1>2, <1>3, <1>4, <2>1 DEF QueuedAhead
    <2> QED BY <1>1, <2>2 DEF Busy
  <1>6. Counted = AllJobs
    BY <1>5 DEF Counted
  <1>7. okCount + Len(failures) = Targets * runs
    BY <1>2, <1>3, <1>6, JobsCounted DEF CountsAddUp
  <1>8. Cardinality(Failed) = Len(failures)
    BY <1>2, FailedCounted DEF TypeOK
  <1>9. AllJobs' = AllJobs /\ Failed' = Failed /\ \A k \in AllJobs : FileOf(k)' = FileOf(k)
    BY <1>1 DEF AllJobs, Failed, FileOf
  <1>10. \A j \in AllJobs \ Failed : files[FileOf(j)] = [batch |-> "this", body |-> found[j]]
    BY <1>2, <1>5 DEF FileHolds, Report
  <1>11. exit' \in {0, 1} /\ (exit' = 0 <=> failures = << >>)
    BY <1>1 DEF ExitCode
  <1>12. ExitAccounts'
    <2>1. (okCount + Len(failures) = Targets * runs)'
      BY <1>1, <1>7
    <2>2. (Cardinality(Failed) = Len(failures))'
      BY <1>1, <1>8, <1>9
    <2>3. (\A j \in AllJobs \ Failed : files[FileOf(j)] = [batch |-> "this", body |-> found[j]])'
      BY <1>1, <1>9, <1>10
    <2>4. (exit = 0 <=> failures = << >>)'
      BY <1>1, <1>11
    <2> QED BY <2>1, <2>2, <2>3, <2>4 DEF ExitAccounts
  <1>13. states' \in [AllJobs -> {Absent, Torn, "this"}] /\ interrupted' \in BOOLEAN
    BY <1>1, <1>2 DEF TypeOK
  <1>14. exit' \in {Running, Dead, 0, 1}
    BY <1>11
  <1> QED BY <1>1, <1>12, <1>13, <1>14, NothingMoves

\* The batch is interrupted: nothing else changes.
LEMMA InterruptStep ==
    ASSUME BatchInv, Interrupt
    PROVE  BatchInv'
PROOF
  <1>1. /\ exit = Running /\ interrupted' = TRUE
        /\ UNCHANGED <<runs, next, stage, found, files, states, stream, okCount, failures, faults, exit>>
    BY DEF Interrupt, jobVars, outVars, countVars
  <1>2. ExitAccounts'
    BY <1>1 DEF ExitAccounts, Running
  <1>3. interrupted' \in BOOLEAN /\ exit' \in {Running, Dead, 0, 1}
    BY <1>1
  <1> QED BY <1>1, <1>2, <1>3, Types, NothingMoves

\* The process dies, perhaps in the middle of a line or of a state file.
LEMMA CrashStep ==
    ASSUME BatchInv, Crash
    PROVE  BatchInv'
PROOF
  <1>1. /\ exit' = Dead
        /\ UNCHANGED <<runs, next, stage, found, files, okCount, failures, interrupted, faults>>
    BY DEF Crash, jobVars, countVars
  <1>2. stream' = stream \/ stream' = Append(stream, Torn)
    BY DEF Crash
  <1>3. states' \in [AllJobs -> {Absent, Torn, "this"}]
    BY Types DEF Crash
  <1>4. ExitAccounts'
    BY <1>1 DEF ExitAccounts, Dead
  <1>5. interrupted' \in BOOLEAN
    BY <1>1 DEF BatchInv, TypeOK
  <1> QED BY <1>1, <1>2, <1>3, <1>4, <1>5, NothingMoves

\* The invariant holds of a batch that starts.
LEMMA BatchStart == Init => BatchInv
PROOF
  <1> SUFFICES ASSUME Init PROVE BatchInv
    OBVIOUS
  <1>1. /\ runs \in 1..MaxRuns /\ next = <<1, 1>>
        /\ stage = [j \in AllJobs |-> "queued"] /\ found = [j \in AllJobs |-> NoReport]
        /\ states = [j \in AllJobs |-> Absent]
    BY DEF Init
  <1>2. stream = << >> /\ failures = << >> /\ okCount = 0
    BY DEF Init
  <1>3. interrupted = FALSE /\ faults = 0 /\ exit = Running
    BY DEF Init
  <1>4. runs \in Nat /\ runs >= 1 /\ Targets \in Nat /\ Targets >= 1 /\ MaxFaults \in Nat
    BY <1>1, BatchAssumption DEF BatchAssumption
  <1>5. files \in [Names -> Contents]
    <2>1. PICK r \in 0..MaxRuns, body \in Surveys, torn \in BOOLEAN : files = LeftOver(r, body, torn)
      BY DEF Init
    <2>2. [batch |-> "earlier", body |-> body] \in Contents /\ Absent \in Contents /\ Torn \in Contents
      BY DEF Contents, Body
    <2>3. ASSUME NEW n \in Names
          PROVE  (IF n \notin Left(r) THEN Absent
                  ELSE IF torn /\ n[1] = 1 THEN Torn
                  ELSE [batch |-> "earlier", body |-> body]) \in Contents
      BY <2>2, Zenon
    <2> QED BY <2>1, <2>3, Zenon DEF LeftOver
  <1>6. TypeOK
    <2>1. next \in (1..(Targets + 1)) \X (1..runs)
      BY <1>1, <1>4
    <2>2. stage \in [AllJobs -> Stages] /\ found \in [AllJobs -> Body \cup {NoReport}]
          /\ states \in [AllJobs -> {Absent, Torn, "this"}]
      BY <1>1 DEF Stages
    <2>3. stream \in Seq(Lines) /\ failures \in Seq(AllJobs) /\ okCount \in Nat
      BY <1>2
    <2>4. faults \in 0..MaxFaults
      BY <1>3, <1>4
    <2>5. interrupted \in BOOLEAN
      BY <1>3
    <2>6. exit \in {Running, Dead, 0, 1}
      BY <1>3, Zenon
    <2> QED BY <1>1, <1>5, <2>1, <2>2, <2>3, <2>4, <2>5, <2>6 DEF TypeOK
  <1>7. QueuedAhead
    <2>1. ASSUME NEW j \in AllJobs
          PROVE  stage[j] = "queued" /\ (next[1] < j[1] \/ (next[1] = j[1] /\ next[2] <= j[2]))
      <3>1. j[1] \in 1..Targets /\ j[2] \in 1..runs
        BY DEF AllJobs
      <3> QED BY <1>1, <1>4, <3>1
    <2> QED BY <2>1 DEF QueuedAhead
  <1>8. ReportFound /\ FileHolds
    BY <1>1 DEF ReportFound, FileHolds
  <1>9. Counted = {} /\ Len(failures) = 0 /\ Len(stream) = 0
    BY <1>1, <1>2 DEF Counted
  <1>10. FailedOnce
    BY <1>1, <1>9 DEF FailedOnce
  <1>11. CountsAddUp
    BY <1>2, <1>9, FS_EmptySet DEF CountsAddUp
  <1>12. LineOfJob
    BY <1>9 DEF LineOfJob
  <1>13. ExitAccounts
    BY <1>3 DEF ExitAccounts, Running
  <1> QED BY <1>6, <1>7, <1>8, <1>10, <1>11, <1>12, <1>13 DEF BatchInv

\* Every step of the batch keeps it.
LEMMA BatchStep == BatchInv /\ [Next]_vars => BatchInv'
PROOF
  <1> SUFFICES ASSUME BatchInv, [Next]_vars PROVE BatchInv'
    OBVIOUS
  <1>1. CASE Launch
    BY <1>1, LaunchStep
  <1>2. CASE Exit
    BY <1>2, ExitStep
  <1>3. ASSUME NEW j \in AllJobs, Step(j) PROVE BatchInv'
    BY <1>3, SurveyReportsStep, LineStep, FileStep, SaveStep, CountStep DEF Step
  <1>4. ASSUME NEW j \in AllJobs, Fails(j) PROVE BatchInv'
    BY <1>4, FailureStep, LineStep, SaveStep DEF Fails
  <1>5. CASE Interrupt
    BY <1>5, InterruptStep
  <1>6. CASE Crash
    BY <1>6, CrashStep
  <1>7. CASE UNCHANGED vars
    <2>1. UNCHANGED <<runs, next, stage, found, files, states, stream, okCount, failures, interrupted, faults, exit>>
      BY <1>7 DEF vars, jobVars, outVars, countVars
    <2>2. ExitAccounts'
      BY <2>1 DEF BatchInv, ExitAccounts, Failed, AllJobs, FileOf
    <2>3. interrupted' \in BOOLEAN /\ exit' \in {Running, Dead, 0, 1}
      BY <2>1 DEF BatchInv, TypeOK
    <2> QED BY <2>1, <2>2, <2>3, Types, NothingMoves
  <1> QED BY <1>1, <1>2, <1>3, <1>4, <1>5, <1>6, <1>7 DEF Next

-----------------------------------------------------------------------------
(* The comparison is dual *)

\* A change read from the other side.
Flipped(d) == Change(d.slug, d.key, OtherKind(d.kind), d.b, d.a)

\* What has become of a key, read from the other side: one case for each kind
\* of change.
LEMMA ChangesAtDual ==
  ASSUME NEW s, NEW ra, NEW rb, NEW k \in AllKeys(ra, rb)
  PROVE  ChangesAt(s, k, rb, ra) = {Flipped(d) : d \in ChangesAt(s, k, ra, rb)}
<1>1. CASE k \notin Keys(rb)
  <2>1. k \in Keys(ra)  BY <1>1 DEF AllKeys
  <2>2. ChangesAt(s, k, ra, rb) = {Change(s, k, "removed", View(ra, k), NoView)}
    BY <1>1, Zenon DEF ChangesAt
  <2>3. ChangesAt(s, k, rb, ra) = {Change(s, k, "added", NoView, View(ra, k))}
    BY <1>1, <2>1, Zenon DEF ChangesAt
  <2>4. OtherKind("removed") = "added"  BY SMT DEF OtherKind
  <2>5. Flipped(Change(s, k, "removed", View(ra, k), NoView))
          = Change(s, k, "added", NoView, View(ra, k))
    BY <2>4, SMT DEF Flipped, Change
  <2>. QED  BY <2>2, <2>3, <2>5, SMT
<1>2. CASE k \in Keys(rb) /\ k \notin Keys(ra)
  <2>1. ChangesAt(s, k, ra, rb) = {Change(s, k, "added", NoView, View(rb, k))}
    BY <1>2, Zenon DEF ChangesAt
  <2>2. ChangesAt(s, k, rb, ra) = {Change(s, k, "removed", View(rb, k), NoView)}
    BY <1>2, Zenon DEF ChangesAt
  <2>3. OtherKind("added") = "removed"  BY SMT DEF OtherKind
  <2>4. Flipped(Change(s, k, "added", NoView, View(rb, k)))
          = Change(s, k, "removed", View(rb, k), NoView)
    BY <2>3, SMT DEF Flipped, Change
  <2>. QED  BY <2>1, <2>2, <2>4, SMT
<1>3. CASE /\ k \in Keys(ra) /\ k \in Keys(rb)
           /\ View(ra, k).status # View(rb, k).status
  <2>1. ChangesAt(s, k, ra, rb) = {Change(s, k, "status", View(ra, k), View(rb, k))}
    BY <1>3, Zenon DEF ChangesAt
  <2>2. ChangesAt(s, k, rb, ra) = {Change(s, k, "status", View(rb, k), View(ra, k))}
    BY <1>3, Zenon DEF ChangesAt
  <2>3. OtherKind("status") = "status"  BY SMT DEF OtherKind
  <2>4. Flipped(Change(s, k, "status", View(ra, k), View(rb, k)))
          = Change(s, k, "status", View(rb, k), View(ra, k))
    BY <2>3, SMT DEF Flipped, Change
  <2>. QED  BY <2>1, <2>2, <2>4, SMT
<1>4. CASE /\ k \in Keys(ra) /\ k \in Keys(rb)
           /\ View(ra, k).status = View(rb, k).status
           /\ View(ra, k) # View(rb, k)
  <2>1. ChangesAt(s, k, ra, rb) = {Change(s, k, "detail", View(ra, k), View(rb, k))}
    BY <1>4, Zenon DEF ChangesAt
  <2>2. ChangesAt(s, k, rb, ra) = {Change(s, k, "detail", View(rb, k), View(ra, k))}
    BY <1>4, Zenon DEF ChangesAt
  <2>3. OtherKind("detail") = "detail"  BY SMT DEF OtherKind
  <2>4. Flipped(Change(s, k, "detail", View(ra, k), View(rb, k)))
          = Change(s, k, "detail", View(rb, k), View(ra, k))
    BY <2>3, SMT DEF Flipped, Change
  <2>. QED  BY <2>1, <2>2, <2>4, SMT
<1>5. CASE k \in Keys(ra) /\ k \in Keys(rb) /\ View(ra, k) = View(rb, k)
  <2>1. ChangesAt(s, k, ra, rb) = {} /\ ChangesAt(s, k, rb, ra) = {}
    BY <1>5, Zenon DEF ChangesAt
  <2>. QED  BY <2>1, Zenon
<1>. QED  BY <1>1, <1>2, <1>3, <1>4, <1>5, Zenon

\* The changes of two reports, read from the other side.
LEMMA ObservationChangesDual ==
  ASSUME NEW s, NEW ra, NEW rb
  PROVE  ObservationChanges(s, rb, ra)
           = {Flipped(d) : d \in ObservationChanges(s, ra, rb)}
<1>1. AllKeys(rb, ra) = AllKeys(ra, rb)  BY DEF AllKeys
<1>2. ASSUME NEW c \in ObservationChanges(s, rb, ra)
      PROVE  c \in {Flipped(d) : d \in ObservationChanges(s, ra, rb)}
  <2>1. PICK k \in AllKeys(ra, rb) : c \in ChangesAt(s, k, rb, ra)
    BY <1>1, <1>2, Zenon DEF ObservationChanges
  <2>2. PICK d \in ChangesAt(s, k, ra, rb) : c = Flipped(d)
    BY <2>1, ChangesAtDual
  <2>3. d \in ObservationChanges(s, ra, rb)
    BY <2>2, Zenon DEF ObservationChanges
  <2>. QED  BY <2>2, <2>3, Zenon
<1>3. ASSUME NEW d \in ObservationChanges(s, ra, rb)
      PROVE  Flipped(d) \in ObservationChanges(s, rb, ra)
  <2>1. PICK k \in AllKeys(ra, rb) : d \in ChangesAt(s, k, ra, rb)
    BY <1>3, Zenon DEF ObservationChanges
  <2>2. Flipped(d) \in ChangesAt(s, k, rb, ra)
    BY <2>1, ChangesAtDual
  <2>. QED  BY <1>1, <2>2, Zenon DEF ObservationChanges
<1>. QED  BY <1>2, <1>3, Zenon

\* The change of the findings, read from the other side.
Swapped(f) == [slug |-> f.slug, added |-> f.removed, removed |-> f.added]

\* What has become of the findings of two reports, read from the other side.
LEMMA FindingChangeDual ==
  ASSUME NEW s, NEW ra, NEW rb
  PROVE  FindingChange(s, rb, ra) = Swapped(FindingChange(s, ra, rb))
  BY SMT DEF FindingChange, Swapped

\* A key a host's runs disagree on, named for the other side.
Turned(u) == [side |-> OtherSide(u.side), slug |-> u.slug, key |-> u.key,
              statuses |-> u.statuses]

\* What the runs of a host say of a key.
SeenAt(rs, k) ==
    {View(rs[i], k).status : i \in {i \in DOMAIN rs : k \in Keys(rs[i])}}
\* The keys the runs of a host disagree on.
Disputed(rs) ==
    {k \in UNION {Keys(rs[i]) : i \in DOMAIN rs} : Cardinality(SeenAt(rs, k)) > 1}

\* The entry of such a key.
UnstableAt(side, s, rs, k) ==
    [side |-> side, slug |-> s, key |-> k, statuses |-> SeenAt(rs, k)]

\* instability gives one entry for each disputed key.
LEMMA UnstableAsDisputed ==
  ASSUME NEW side, NEW s, NEW rs
  PROVE  Unstable(side, s, rs) = {UnstableAt(side, s, rs, k) : k \in Disputed(rs)}
  BY Zenon DEF Unstable, SeenAt, Disputed, UnstableAt

\* The instability of a host is the same on either side but for the side's name.
LEMMA UnstableTurned ==
  ASSUME NEW side, NEW s, NEW rs
  PROVE  Unstable(OtherSide(side), s, rs) = {Turned(u) : u \in Unstable(side, s, rs)}
<1>1. ASSUME NEW k
      PROVE  Turned(UnstableAt(side, s, rs, k)) = UnstableAt(OtherSide(side), s, rs, k)
  BY SMT DEF Turned, UnstableAt
<1>. QED  BY <1>1, UnstableAsDisputed, Zenon

\* The dual of a comparison, part by part.
LEMMA DualByParts ==
  ASSUME NEW c
  PROVE  Dual(c) = [changes  |-> {Flipped(d) : d \in c.changes},
                    onlyInA  |-> c.onlyInB,
                    onlyInB  |-> c.onlyInA,
                    findings |-> {Swapped(f) : f \in c.findings},
                    unstable |-> {Turned(u) : u \in c.unstable}]
  BY Zenon DEF Dual, Flipped, Swapped, Turned
\* compareSets is dual in its operands, whatever the two sets of reports are.
LEMMA CompareDual ==
  ASSUME NEW A, NEW B
  PROVE  Compare(B, A) = Dual(Compare(A, B))
<1>. DEFINE both == DOMAIN A \cap DOMAIN B
            moved == {s \in both : A[s][1].findings # B[s][1].findings}
            changesAB == UNION {ObservationChanges(s, A[s][1], B[s][1]) : s \in both}
            changesBA == UNION {ObservationChanges(s, B[s][1], A[s][1]) : s \in both}
            findingsAB == {FindingChange(s, A[s][1], B[s][1]) : s \in moved}
            findingsBA == {FindingChange(s, B[s][1], A[s][1]) : s \in moved}
            unstableAB == UNION {Unstable("A", s, A[s]) \cup Unstable("B", s, B[s]) : s \in both}
            unstableBA == UNION {Unstable("A", s, B[s]) \cup Unstable("B", s, A[s]) : s \in both}
<1>1. Compare(A, B) = [changes |-> changesAB, onlyInA |-> DOMAIN A \ DOMAIN B,
                       onlyInB |-> DOMAIN B \ DOMAIN A, findings |-> findingsAB,
                       unstable |-> unstableAB]
  BY Zenon DEF Compare
<1>2. Compare(B, A) = [changes |-> changesBA, onlyInA |-> DOMAIN B \ DOMAIN A,
                       onlyInB |-> DOMAIN A \ DOMAIN B, findings |-> findingsBA,
                       unstable |-> unstableBA]
  <2>1. DOMAIN B \cap DOMAIN A = both  OBVIOUS
  <2>2. {s \in both : B[s][1].findings # A[s][1].findings} = moved  OBVIOUS
  <2>. HIDE DEF both, moved
  <2>. QED  BY <2>1, <2>2, Zenon DEF Compare, both, moved
<1>3. changesBA = {Flipped(d) : d \in changesAB}
  <2>1. ASSUME NEW s \in both
        PROVE  ObservationChanges(s, B[s][1], A[s][1])
                 = {Flipped(d) : d \in ObservationChanges(s, A[s][1], B[s][1])}
    BY ObservationChangesDual
  <2>. HIDE DEF both
  <2>2. ASSUME NEW c \in changesBA PROVE c \in {Flipped(d) : d \in changesAB}
    <3>1. PICK s \in both : c \in ObservationChanges(s, B[s][1], A[s][1])  BY <2>2, Zenon
    <3>2. PICK d \in ObservationChanges(s, A[s][1], B[s][1]) : c = Flipped(d)
      BY <2>1, <3>1, Zenon
    <3>. QED  BY <3>2, Zenon
  <2>3. ASSUME NEW d \in changesAB PROVE Flipped(d) \in changesBA
    <3>1. PICK s \in both : d \in ObservationChanges(s, A[s][1], B[s][1])  BY <2>3, Zenon
    <3>. QED  BY <2>1, <3>1, Zenon
  <2>. QED  BY <2>2, <2>3, Zenon
<1>4. findingsBA = {Swapped(f) : f \in findingsAB}
  <2>1. ASSUME NEW s \in moved
        PROVE  FindingChange(s, B[s][1], A[s][1])
                 = Swapped(FindingChange(s, A[s][1], B[s][1]))
    BY FindingChangeDual
  <2>. HIDE DEF moved
  <2>. QED  BY <2>1, Zenon
<1>5. unstableBA = {Turned(u) : u \in unstableAB}
  <2>1. OtherSide("A") = "B" /\ OtherSide("B") = "A"  BY SMT DEF OtherSide
  <2>2. ASSUME NEW s \in both
        PROVE  /\ Unstable("A", s, B[s]) = {Turned(u) : u \in Unstable("B", s, B[s])}
               /\ Unstable("B", s, A[s]) = {Turned(u) : u \in Unstable("A", s, A[s])}
    <3>1. /\ Unstable(OtherSide("B"), s, B[s]) = {Turned(u) : u \in Unstable("B", s, B[s])}
          /\ Unstable(OtherSide("A"), s, A[s]) = {Turned(u) : u \in Unstable("A", s, A[s])}
      BY UnstableTurned
    <3>. QED  BY <2>1, <3>1, Zenon
  <2>. HIDE DEF both
  <2>3. ASSUME NEW v \in unstableBA PROVE v \in {Turned(u) : u \in unstableAB}
    <3>1. PICK s \in both : v \in Unstable("A", s, B[s]) \cup Unstable("B", s, A[s])
      BY <2>3, Zenon
    <3>2. PICK u \in Unstable("A", s, A[s]) \cup Unstable("B", s, B[s]) : v = Turned(u)
      BY <2>2, <3>1, Zenon
    <3>. QED  BY <3>2, Zenon
  <2>4. ASSUME NEW u \in unstableAB PROVE Turned(u) \in unstableBA
    <3>1. PICK s \in both : u \in Unstable("A", s, A[s]) \cup Unstable("B", s, B[s])
      BY <2>4, Zenon
    <3>2. Turned(u) \in Unstable("A", s, B[s]) \cup Unstable("B", s, A[s])
      <4>1. CASE u \in Unstable("A", s, A[s])
        BY <2>2, <4>1
      <4>2. CASE u \in Unstable("B", s, B[s])
        BY <2>2, <4>2
      <4>. QED  BY <3>1, <4>1, <4>2
    <3>. QED  BY <3>2, Zenon
  <2>. QED  BY <2>3, <2>4, Zenon
<1>. HIDE DEF both, moved, changesAB, changesBA, findingsAB, findingsBA, unstableAB, unstableBA
<1>6. Dual(Compare(A, B))
        = [changes  |-> {Flipped(d) : d \in changesAB},
           onlyInA  |-> DOMAIN B \ DOMAIN A,
           onlyInB  |-> DOMAIN A \ DOMAIN B,
           findings |-> {Swapped(f) : f \in findingsAB},
           unstable |-> {Turned(u) : u \in unstableAB}]
  <2>. DEFINE c == Compare(A, B)
  <2>1. /\ c.changes = changesAB /\ c.onlyInA = DOMAIN A \ DOMAIN B
        /\ c.onlyInB = DOMAIN B \ DOMAIN A /\ c.findings = findingsAB
        /\ c.unstable = unstableAB
    BY <1>1, SMT
  <2>2. Dual(c) = [changes  |-> {Flipped(d) : d \in c.changes},
                   onlyInA  |-> c.onlyInB,
                   onlyInB  |-> c.onlyInA,
                   findings |-> {Swapped(f) : f \in c.findings},
                   unstable |-> {Turned(u) : u \in c.unstable}]
    BY DualByParts
  <2>. HIDE DEF c
  <2>3. Dual(c) = [changes  |-> {Flipped(d) : d \in changesAB},
                   onlyInA  |-> DOMAIN B \ DOMAIN A,
                   onlyInB  |-> DOMAIN A \ DOMAIN B,
                   findings |-> {Swapped(f) : f \in findingsAB},
                   unstable |-> {Turned(u) : u \in unstableAB}]
    BY <2>1, <2>2, Zenon
  <2>. QED  BY <2>3, Zenon DEF c
<1>. QED  BY <1>2, <1>3, <1>4, <1>5, <1>6, Zenon

-----------------------------------------------------------------------------
(* What is put in order *)

\* The members of S that come before x.
Earlier(S, before, x) == {y \in S : <<y, x>> \in before}

\* A set of pairs that orders a set strictly.
Orders(before, S) ==
    /\ \A x \in S : <<x, x>> \notin before
    /\ \A x, y \in S : x # y => <<x, y>> \in before \/ <<y, x>> \in before
    /\ \A x, y, z \in S : <<x, y>> \in before /\ <<y, z>> \in before => <<x, z>> \in before

\* What comes earlier has fewer before it.
LEMMA FewerEarlier ==
    ASSUME NEW S, IsFiniteSet(S), NEW before, Orders(before, S),
           NEW x \in S, NEW y \in S, <<x, y>> \in before
    PROVE  /\ Cardinality(Earlier(S, before, x)) \in Nat
           /\ Cardinality(Earlier(S, before, y)) \in Nat
           /\ Cardinality(Earlier(S, before, x)) < Cardinality(Earlier(S, before, y))
PROOF
  <1> DEFINE A == Earlier(S, before, x)
             B == Earlier(S, before, y)
  <1>1. A \subseteq B /\ x \in B /\ x \notin A /\ B \subseteq S
    BY DEF Orders, Earlier
  <1> HIDE DEF A, B
  <1>2. IsFiniteSet(B)
    BY <1>1, FS_Subset
  <1>3. IsFiniteSet(A) /\ Cardinality(A) <= Cardinality(B) /\ (Cardinality(B) = Cardinality(A) => A = B)
    BY <1>1, <1>2, FS_Subset
  <1>4. Cardinality(A) \in Nat /\ Cardinality(B) \in Nat
    BY <1>2, <1>3, FS_CardinalityType
  <1>5. Cardinality(A) < Cardinality(B)
    BY <1>1, <1>3, <1>4
  <1> QED BY <1>4, <1>5 DEF A, B

\* Each number below that of all has one member with so many before it.
LEMMA RankTaken ==
    ASSUME NEW S, IsFiniteSet(S), NEW before, Orders(before, S),
           NEW k \in 1..Cardinality(S)
    PROVE  \E x \in S : Cardinality(Earlier(S, before, x)) = k - 1
PROOF
  <1> DEFINE n == Cardinality(S)
             T == 0..(n - 1)
             rank == [x \in S |-> Cardinality(Earlier(S, before, x))]
  <1>1. n \in Nat /\ n >= 1
    BY FS_CardinalityType
  <1>2. ASSUME NEW x \in S PROVE rank[x] \in T
    <2> DEFINE E == Earlier(S, before, x)
    <2>1. E \subseteq S /\ x \notin E
      BY DEF Orders, Earlier
    <2>2. rank[x] = Cardinality(E)
      OBVIOUS
    <2> HIDE DEF E, rank
    <2>3. /\ IsFiniteSet(E) /\ Cardinality(E) <= n /\ (n = Cardinality(E) => S = E)
      BY <2>1, FS_Subset
    <2>4. Cardinality(E) \in Nat
      BY <2>3, FS_CardinalityType
    <2>5. Cardinality(E) # n
      BY <2>1, <2>3
    <2> HIDE DEF n
    <2> QED BY <1>1, <2>2, <2>3, <2>4, <2>5
  <1>3. ASSUME NEW x \in S, NEW y \in S, x # y PROVE rank[x] # rank[y]
    <2>1. <<x, y>> \in before \/ <<y, x>> \in before
      BY <1>3 DEF Orders
    <2>2. \/ Cardinality(Earlier(S, before, x)) < Cardinality(Earlier(S, before, y))
          \/ Cardinality(Earlier(S, before, y)) < Cardinality(Earlier(S, before, x))
      BY <2>1, FewerEarlier
    <2>3. /\ Cardinality(Earlier(S, before, x)) \in Nat
          /\ Cardinality(Earlier(S, before, y)) \in Nat
      BY <2>1, FewerEarlier
    <2> QED BY <2>2, <2>3
  <1>4. rank \in [S -> T] /\ DOMAIN rank = S
    <2>1. rank = [x \in S |-> rank[x]] /\ DOMAIN rank = S
      OBVIOUS
    <2> HIDE DEF rank, T
    <2> QED BY <1>2, <2>1
  <1> HIDE DEF rank
  <1>5. rank \in Injection(S, T)
    BY <1>3, <1>4 DEF Injection, IsInjective
  <1>6. IsFiniteSet(T) /\ Cardinality(T) = n
    <2> HIDE DEF n
    <2>1. 0 \in Int /\ n - 1 \in Int
      BY <1>1
    <2>2. IsFiniteSet(T) /\ Cardinality(T) = IF 0 > n - 1 THEN 0 ELSE n - 1 - 0 + 1
      BY <2>1, FS_Interval
    <2> QED BY <1>1, <2>2
  <1>7. rank \in Surjection(S, T)
    BY <1>5, <1>6, FS_Injection
  <1>8. k - 1 \in T
    <2> HIDE DEF n
    <2>1. k \in 1..n
      BY DEF n
    <2> QED BY <1>1, <2>1
  <1>9. \E x \in S : rank[x] = k - 1
    BY <1>7, <1>8 DEF Surjection
  <1> QED BY <1>9 DEF rank

\* All members are put one after another, each once, in their order.
LEMMA OrderedIs ==
    ASSUME NEW S, IsFiniteSet(S), NEW before, Orders(before, S)
    PROVE  LET o == Ordered(S, before)
           IN  /\ Cardinality(S) \in Nat /\ DOMAIN o = 1..Cardinality(S)
               /\ \A k \in 1..Cardinality(S) :
                     o[k] \in S /\ Cardinality(Earlier(S, before, o[k])) = k - 1
               /\ \A x \in S : \E k \in 1..Cardinality(S) : o[k] = x
PROOF
  <1> DEFINE o == Ordered(S, before)
             n == Cardinality(S)
             rank(x) == Cardinality(Earlier(S, before, x))
  <1>1. n \in Nat
    BY FS_CardinalityType
  <1>2. o = [k \in 1..n |-> CHOOSE x \in S : rank(x) = k - 1]
    BY Zenon DEF Ordered, Earlier
  <1>3. ASSUME NEW k \in 1..n PROVE o[k] \in S /\ rank(o[k]) = k - 1
    <2>1. \E x \in S : rank(x) = k - 1
      BY RankTaken
    <2>2. o[k] = CHOOSE x \in S : rank(x) = k - 1
      BY <1>2, Zenon
    <2> HIDE DEF o, rank
    <2> QED BY <2>1, <2>2
  <1>4. ASSUME NEW x \in S, NEW y \in S, rank(x) = rank(y) PROVE x = y
    <2> SUFFICES ASSUME x # y PROVE FALSE
      OBVIOUS
    <2>1. <<x, y>> \in before \/ <<y, x>> \in before
      BY DEF Orders
    <2>2. rank(x) \in Nat /\ (rank(x) < rank(y) \/ rank(y) < rank(x))
      BY <2>1, FewerEarlier
    <2> QED BY <1>4, <2>2
  <1>5. ASSUME NEW x \in S PROVE \E k \in 1..n : o[k] = x
    <2>1. rank(x) \in Nat /\ rank(x) < n
      <3> DEFINE E == Earlier(S, before, x)
      <3>1. E \subseteq S /\ x \notin E
        BY DEF Orders, Earlier
      <3> HIDE DEF E
      <3>2. /\ IsFiniteSet(E) /\ Cardinality(E) <= n /\ (n = Cardinality(E) => S = E)
        BY <3>1, FS_Subset
      <3>3. Cardinality(E) \in Nat /\ Cardinality(E) # n
        BY <3>1, <3>2, FS_CardinalityType
      <3> HIDE DEF n
      <3>4. Cardinality(E) \in Nat /\ Cardinality(E) < n
        BY <1>1, <3>2, <3>3
      <3> QED BY <3>4 DEF E
    <2> DEFINE k == rank(x) + 1
    <2>2. k \in 1..n /\ k - 1 = rank(x)
      <3> HIDE DEF rank, n
      <3> QED BY <1>1, <2>1
    <2>3. o[k] \in S /\ rank(o[k]) = rank(x)
      BY <1>3, <2>2
    <2> HIDE DEF o, rank, k
    <2>4. o[k] = x
      BY <1>4, <2>3
    <2> QED BY <2>2, <2>4
  <1>6. DOMAIN o = 1..n
    BY <1>2, Zenon
  <1> QED BY <1>1, <1>3, <1>5, <1>6, Zenon

-----------------------------------------------------------------------------
(* What is loaded from one entry for each job *)

\* The report of a job, as it is decoded.
DecodedOf(j) == Decoded(j[1], j[2], found[j])

\* The entries are the jobs' reports, each once, in any order.
EachJobOnce(reports, place) ==
    /\ DOMAIN reports = 1..Len(reports) /\ Len(reports) \in Nat
    /\ place \in [AllJobs -> DOMAIN reports]
    /\ \A j \in AllJobs : reports[place[j]] = DecodedOf(j)
    /\ \A i \in DOMAIN reports : \E j \in AllJobs : place[j] = i

\* Then the runs of each target are loaded in the order of their numbers.
LEMMA LoadOfJobs ==
    ASSUME NEW reports, NEW place, EachJobOnce(reports, place), runs \in 1..MaxRuns
    PROVE  Load(reports) = [t \in 1..Targets |-> [r \in 1..runs |-> DecodedOf(<<t, r>>)]]
PROOF
  <1> DEFINE D == DOMAIN reports
             RunsOf(s) == {i \in D : reports[i].slug = s}
             Sorted(s) == Ordered(RunsOf(s), ByRun(reports))
  <1>1. runs \in Nat /\ runs >= 1 /\ Targets \in Nat /\ Targets >= 1
    BY BatchAssumption DEF BatchAssumption
  <1>2. ASSUME NEW t \in 1..Targets, NEW r \in 1..runs
        PROVE  <<t, r>> \in AllJobs /\ <<t, r>>[1] = t /\ <<t, r>>[2] = r
    BY DEF AllJobs
  <1>3. ASSUME NEW j \in AllJobs
        PROVE  /\ j[1] \in 1..Targets /\ j[2] \in 1..runs /\ j = <<j[1], j[2]>>
               /\ DecodedOf(j).slug = j[1] /\ DecodedOf(j).run = j[2]
    <2>1. j[1] \in 1..Targets /\ j[2] \in 1..runs /\ j = <<j[1], j[2]>>
      BY DEF AllJobs
    <2>2. DecodedOf(j).slug = j[1] /\ DecodedOf(j).run = j[2]
      BY DEF DecodedOf, Decoded
    <2> QED BY <2>1, <2>2
  <1>4. /\ D = 1..Len(reports) /\ Len(reports) \in Nat
        /\ \A j \in AllJobs : place[j] \in D /\ reports[place[j]] = DecodedOf(j)
        /\ \A i \in D : \E j \in AllJobs : place[j] = i
    BY DEF EachJobOnce
  <1> HIDE DEF D
  <1>5. {reports[i].slug : i \in D} = 1..Targets
    <2>1. ASSUME NEW i \in D PROVE reports[i].slug \in 1..Targets
      BY <1>3, <1>4, SMTT(30)
    <2>2. ASSUME NEW t \in 1..Targets PROVE \E i \in D : reports[i].slug = t
      <3>1. <<t, 1>> \in AllJobs
        BY <1>1, <1>2
      <3> QED BY <1>2, <1>3, <1>4, <3>1
    <2> QED BY <2>1, <2>2
  <1>6. ASSUME NEW t \in 1..Targets
        PROVE  [k \in DOMAIN Sorted(t) |-> reports[Sorted(t)[k]]]
                  = [r \in 1..runs |-> DecodedOf(<<t, r>>)]
    <2> DEFINE S == RunsOf(t)
               before == ByRun(reports)
               at(r) == place[<<t, r>>]
    <2>1. ASSUME NEW r \in 1..runs
          PROVE  at(r) \in S /\ reports[at(r)].run = r /\ reports[at(r)] = DecodedOf(<<t, r>>)
      BY <1>2, <1>3, <1>4
    <2>2. ASSUME NEW i \in S PROVE \E r \in 1..runs : i = at(r)
      <3>1. PICK j \in AllJobs : place[j] = i
        BY <1>4
      <3>2. j[1] = t /\ j[2] \in 1..runs /\ j = <<t, j[2]>>
        BY <1>3, <1>4, <3>1
      <3> QED BY <3>1, <3>2
    <2>3. S \subseteq D /\ IsFiniteSet(S)
      <3>1. 1 \in Int /\ Len(reports) \in Int
        BY <1>4
      <3>2. IsFiniteSet(D)
        BY <1>4, <3>1, FS_Interval
      <3> QED BY <3>2, FS_Subset
    <2> HIDE DEF S, at
    <2>4. \A i, k \in S : <<i, k>> \in before <=> reports[i].run < reports[k].run
      <3> SUFFICES ASSUME NEW i \in S, NEW k \in S
                   PROVE  <<i, k>> \in before <=> reports[i].run < reports[k].run
        OBVIOUS
      <3>1. PICK a \in 1..runs, b \in 1..runs : i = at(a) /\ k = at(b)
        BY <2>2
      <3>2. reports[i].run = a /\ reports[k].run = b
        BY <2>1, <3>1
      <3>3. i \in D /\ k \in D /\ D \subseteq Nat
        BY <1>4, <2>3
      <3>4. <<i, k>> \in before <=> \/ reports[i].run < reports[k].run
                                    \/ reports[i].run = reports[k].run /\ i < k
        BY <3>3 DEF ByRun, D
      <3>5. a = b => i = k
        BY <3>1
      <3> QED BY <3>2, <3>3, <3>4, <3>5
    <2> HIDE DEF before
    <2>5. \A i \in S : reports[i].run \in 1..runs /\ i = at(reports[i].run)
      BY <2>1, <2>2
    <2>6. Orders(before, S)
      <3>1. \A i \in S : reports[i].run \in Nat
        BY <1>1, <2>5
      <3>2. \A i, k \in S : i # k => reports[i].run # reports[k].run
        BY <2>5
      <3> QED BY <2>4, <3>1, <3>2 DEF Orders
    <2>7. Cardinality(S) = runs
      <3> DEFINE f == [r \in 1..runs |-> at(r)]
      <3>1. f \in Bijection(1..runs, S)
        <4>1. \A r \in 1..runs : f[r] \in S /\ reports[f[r]].run = r
          BY <2>1
        <4>2. f \in [1..runs -> S]
          BY <2>1
        <4>3. \A i \in S : \E r \in 1..runs : f[r] = i
          BY <2>2
        <4> HIDE DEF f
        <4>4. f \in Injection(1..runs, S)
          BY <4>1, <4>2 DEF Injection, IsInjective
        <4> QED BY <4>2, <4>3, <4>4 DEF Bijection, Surjection
      <3>2. IsFiniteSet(1..runs) /\ Cardinality(1..runs) = runs
        BY <1>1, FS_Interval
      <3> QED BY <3>1, <3>2, FS_Bijection DEF ExistsBijection
    <2>8. ASSUME NEW r \in 1..runs PROVE Cardinality(Earlier(S, before, at(r))) = r - 1
      <3> DEFINE E == Earlier(S, before, at(r))
                 f == [q \in 1..(r - 1) |-> at(q)]
      <3>1. r \in Nat /\ \A q \in 1..(r - 1) : q \in 1..runs /\ q < r
        BY <1>1
      <3>2. \A i \in S : i \in E <=> reports[i].run < r
        BY <2>1, <2>4 DEF Earlier
      <3>3. E \subseteq S
        BY DEF Earlier
      <3> HIDE DEF E
      <3>4. \A q \in 1..(r - 1) : f[q] \in E /\ reports[f[q]].run = q
        BY <2>1, <3>1, <3>2
      <3>5. f \in [1..(r - 1) -> E]
        BY <2>1, <3>1, <3>2
      <3>6. \A i \in E : \E q \in 1..(r - 1) : f[q] = i
        <4> SUFFICES ASSUME NEW i \in E PROVE \E q \in 1..(r - 1) : f[q] = i
          OBVIOUS
        <4>1. i \in S /\ reports[i].run < r /\ reports[i].run \in 1..runs /\ i = at(reports[i].run)
          BY <2>5, <3>2, <3>3
        <4>2. reports[i].run \in 1..(r - 1)
          BY <1>1, <3>1, <4>1
        <4> QED BY <4>1, <4>2
      <3> HIDE DEF f
      <3>7. f \in Bijection(1..(r - 1), E)
        <4>1. f \in Injection(1..(r - 1), E)
          BY <3>4, <3>5 DEF Injection, IsInjective
        <4> QED BY <3>5, <3>6, <4>1 DEF Bijection, Surjection
      <3>8. IsFiniteSet(1..(r - 1)) /\ Cardinality(1..(r - 1)) = r - 1
        <4>1. 1 \in Int /\ r - 1 \in Int /\ r >= 1
          BY <3>1
        <4>2. Cardinality(1..(r - 1)) = IF 1 > r - 1 THEN 0 ELSE (r - 1) - 1 + 1
          BY <4>1, FS_Interval
        <4>3. IsFiniteSet(1..(r - 1))
          BY <4>1, FS_Interval
        <4> QED BY <3>1, <4>1, <4>2, <4>3
      <3>9. Cardinality(E) = r - 1
        BY <3>7, <3>8, FS_Bijection DEF ExistsBijection
      <3> QED BY <3>9 DEF E
    <2> DEFINE o == Ordered(S, before)
    <2>9. /\ DOMAIN o = 1..runs
          /\ \A k \in 1..runs : o[k] \in S /\ Cardinality(Earlier(S, before, o[k])) = k - 1
      BY <2>3, <2>6, <2>7, OrderedIs
    <2> HIDE DEF o
    <2>10. ASSUME NEW k \in 1..runs PROVE reports[o[k]] = DecodedOf(<<t, k>>)
      <3>1. PICK r \in 1..runs : o[k] = at(r)
        BY <2>2, <2>9
      <3>2. k - 1 = r - 1
        BY <2>8, <2>9, <3>1
      <3>3. k = r
        BY <1>1, <3>2
      <3> QED BY <2>1, <3>1, <3>3
    <2>11. [k \in DOMAIN o |-> reports[o[k]]] = [r \in 1..runs |-> DecodedOf(<<t, r>>)]
      BY <2>9, <2>10
    <2> QED BY <2>11 DEF o, S, before
  <1>7. Load(reports) = [s \in {reports[i].slug : i \in D} |->
                            [k \in DOMAIN Sorted(s) |-> reports[Sorted(s)[k]]]]
    BY Zenon DEF Load, D
  <1> HIDE DEF Sorted
  <1> QED BY <1>5, <1>6, <1>7

-----------------------------------------------------------------------------
(* The stream of a batch that has failed at nothing *)

\* It holds one whole line of each job that is past its line, and no other.
StreamWhole ==
    faults = 0 /\ exit # Dead =>
        /\ failures = << >>
        /\ \A j \in AllJobs : stage[j] = "done" => found[j] \in Body
        /\ \A i \in 1..Len(stream) : stream[i] # Torn
        /\ \A i, k \in 1..Len(stream) : stream[i].job = stream[k].job => i = k
        /\ \A j \in AllJobs :
              stage[j] \in {"count", "done"} => \E i \in 1..Len(stream) : stream[i].job = j

\* A batch that starts has no line.
LEMMA StreamStart == Init => StreamWhole
PROOF
  <1> SUFFICES ASSUME Init PROVE StreamWhole
    OBVIOUS
  <1>1. failures = << >> /\ Len(stream) = 0 /\ \A j \in AllJobs : stage[j] = "queued"
    BY DEF Init
  <1> QED BY <1>1 DEF StreamWhole

\* A step that adds no line and counts no failure leaves the stream whole, if
\* it takes no job past its line.
LEMMA StreamKept ==
    ASSUME StreamWhole, faults = 0, exit # Dead,
           UNCHANGED <<runs, stream, failures>>,
           \A k \in AllJobs : stage'[k] \in {"count", "done"} => stage[k] \in {"count", "done"},
           \A k \in AllJobs : stage'[k] = "done" => found'[k] \in Body
    PROVE  StreamWhole'
PROOF
  <1>1. AllJobs' = AllJobs
    BY DEF AllJobs
  <1> QED BY <1>1 DEF StreamWhole

\* The line of a job is the first of that job.
LEMMA StreamExtended ==
    ASSUME BatchInv, StreamWhole, NEW j \in AllJobs, WriteLine(j), faults = 0, exit # Dead
    PROVE  StreamWhole'
PROOF
  <1> DEFINE line == [job |-> j, body |-> found[j]]
  <1>1. /\ Move(j, "line", "count") /\ stream' = Append(stream, line)
        /\ UNCHANGED <<found, failures, faults>>
    BY DEF WriteLine, AddLine, countVars
  <1>2. /\ AllJobs' = AllJobs /\ stage[j] = "line" /\ stage'[j] = "count"
        /\ \A k \in AllJobs : k # j => stage'[k] = stage[k]
    BY <1>1, Types, Moved DEF Stages
  <1>3. found[j] \in Body
    BY <1>2 DEF BatchInv, ReportFound
  <1>4. line.job = j /\ line \in Lines
    BY <1>3 DEF Lines
  <1>5. line # Torn
    <2>1. runs \in 1..MaxRuns /\ MaxRuns \in Nat
      BY Types, BatchAssumption DEF TypeOK, BatchAssumption
    <2>2. PICK t \in 1..Targets, r \in 1..runs : j = <<t, r>>
      BY DEF AllJobs
    <2>3. r \in 1..MaxRuns
      BY <2>1
    <2> QED BY <1>3, <2>2, <2>3, BatchAssumption DEF BatchAssumption, Body
  <1> HIDE DEF line
  <1>6. /\ Len(stream) \in Nat /\ Len(stream') = Len(stream) + 1
        /\ \A i \in 1..Len(stream) : stream'[i] = stream[i]
        /\ stream'[Len(stream) + 1] = line
    BY <1>1, <1>4, Types, Appended
  <1>7. ASSUME NEW i \in 1..Len(stream) PROVE stream[i].job # j
    <2>1. stream[i] # Torn
      BY DEF StreamWhole
    <2>2. PICK k \in AllJobs : stream[i] = [job |-> k, body |-> found[k]] /\ Told(k, found[k])
      BY <2>1 DEF BatchInv, LineOfJob
    <2>3. stream[i].job = k /\ stage[k] \in {"count", "done"}
      BY <2>2 DEF Told
    <2> QED BY <1>2, <2>3
  <1>8. \A i \in 1..(Len(stream) + 1) : i \in 1..Len(stream) \/ i = Len(stream) + 1
    BY <1>6
  <1>9. 1..Len(stream) \subseteq 1..(Len(stream) + 1) /\ Len(stream) + 1 \in 1..(Len(stream) + 1)
    BY <1>6
  <1>10. \A i \in 1..(Len(stream) + 1) : stream'[i] # Torn
    BY <1>5, <1>6, <1>8 DEF StreamWhole
  <1>11. \A i, k \in 1..(Len(stream) + 1) : stream'[i].job = stream'[k].job => i = k
    BY <1>4, <1>6, <1>7, <1>8 DEF StreamWhole
  <1>12. ASSUME NEW k \in AllJobs, stage'[k] \in {"count", "done"}
         PROVE  \E i \in 1..(Len(stream) + 1) : stream'[i].job = k
    <2>1. CASE k = j
      BY <1>4, <1>6, <1>9, <2>1
    <2>2. CASE k # j
      <3>1. PICK i \in 1..Len(stream) : stream[i].job = k
        BY <1>2, <1>12, <2>2 DEF StreamWhole
      <3> QED BY <1>6, <1>9, <3>1
    <2> QED BY <2>1, <2>2
  <1>13. failures' = << >> /\ \A k \in AllJobs : stage'[k] = "done" => found'[k] \in Body
    BY <1>1, <1>2 DEF StreamWhole
  <1> QED BY <1>2, <1>6, <1>10, <1>11, <1>12, <1>13 DEF StreamWhole

\* Every step keeps the stream whole.
LEMMA StreamStep == BatchInv /\ StreamWhole /\ [Next]_vars => StreamWhole'
PROOF
  <1> SUFFICES ASSUME BatchInv, StreamWhole, [Next]_vars, faults' = 0, exit' # Dead
               PROVE  StreamWhole'
    BY DEF StreamWhole
  <1>1. TypeOK /\ faults \in 0..MaxFaults /\ MaxFaults \in Nat
    BY Types, BatchAssumption DEF BatchAssumption
  <1> DEFINE quiet ==
        /\ UNCHANGED <<runs, stream, failures>>
        /\ \A k \in AllJobs : stage'[k] \in {"count", "done"} => stage[k] \in {"count", "done"}
        /\ \A k \in AllJobs : stage'[k] = "done" => found'[k] \in Body
  <1>2. ASSUME quiet, faults = 0, exit # Dead PROVE StreamWhole'
    BY <1>2, StreamKept
  <1>3. ASSUME Launch PROVE StreamWhole'
    <2>1. /\ exit = Running /\ faults = 0 /\ next \in AllJobs
          /\ stage' = [stage EXCEPT ![next] = "survey"]
          /\ UNCHANGED <<runs, found, stream, failures>>
      BY <1>3 DEF Launch, outVars, countVars
    <2>2. stage \in [AllJobs -> Stages]
      BY <1>1 DEF TypeOK
    <2> QED BY <1>2, <2>1, <2>2 DEF StreamWhole, Running, Dead
  <1>4. ASSUME Exit \/ Interrupt PROVE StreamWhole'
    <2>1. /\ exit = Running /\ faults = 0 /\ UNCHANGED <<runs, stage, found, stream, failures>>
      BY <1>4 DEF Exit, Interrupt, jobVars, outVars, countVars
    <2> QED BY <1>2, <2>1 DEF StreamWhole, Running, Dead
  <1>5. CASE Crash
    BY <1>5 DEF Crash
  <1>6. ASSUME NEW j \in AllJobs, Fails(j) PROVE StreamWhole'
    <2>1. Fault
      BY <1>6 DEF Fails, SurveyFails, CreateFails, WriteFails, SaveStateFails, WriteLineFails
    <2> QED BY <1>1, <2>1 DEF Fault
  <1>7. ASSUME NEW j \in AllJobs, NEW from, NEW to \in Stages \ {"count"}, Move(j, from, to),
               from # "count" => to # "done", from = "count" <=> to = "done",
               UNCHANGED <<stream, failures, faults>>,
               \A k \in AllJobs : k # j => found'[k] = found[k],
               to = "done" => found'[j] = found[j]
        PROVE  StreamWhole'
    <2>1. /\ exit = Running /\ runs' = runs /\ stage[j] = from /\ stage'[j] = to
          /\ \A k \in AllJobs : k # j => stage'[k] = stage[k]
      BY <1>1, <1>7, Moved
    <2>2. from = "count" => found[j] \in Body
      BY <2>1 DEF BatchInv, ReportFound
    <2> QED BY <1>2, <1>7, <2>1, <2>2 DEF StreamWhole, Running, Dead
  <1>8. ASSUME NEW j \in AllJobs, Step(j) PROVE StreamWhole'
    <2>1. CASE SurveyReports(j)
      <3>1. PICK body : found' = [found EXCEPT ![j] = body]
        BY <2>1 DEF SurveyReports
      <3>2. Move(j, "survey", "create") /\ UNCHANGED <<stream, failures, faults>>
        BY <2>1 DEF SurveyReports, outVars, countVars
      <3>3. \A k \in AllJobs : k # j => found'[k] = found[k]
        BY <3>1, Types
      <3> QED BY <1>7, <3>2, <3>3 DEF Stages
    <2>2. CASE Complain(j)
      <3>1. Move(j, "complain", "done") /\ faults = 0 /\ exit # Dead
        BY <2>2 DEF Complain, Move, Running, Dead
      <3>2. j \in Failed /\ failures = << >>
        BY <3>1 DEF Move, BatchInv, FailedOnce, StreamWhole
      <3> QED BY <3>2 DEF Failed
    <2>3. CASE Create(j)
      BY <1>7, <2>3 DEF Create, countVars, Stages
    <2>4. CASE Write(j)
      BY <1>7, <2>4 DEF Write, countVars, Stages
    <2>5. CASE SaveState(j)
      BY <1>7, <2>5 DEF SaveState, countVars, Stages
    <2>6. CASE WriteLine(j)
      <3>1. faults = 0 /\ exit # Dead
        BY <2>6 DEF WriteLine, Move, Running, Dead
      <3> QED BY <2>6, <3>1, StreamExtended
    <2>7. CASE Count(j)
      BY <1>7, <2>7 DEF Count, outVars, Stages
    <2> QED BY <1>8, <2>1, <2>2, <2>3, <2>4, <2>5, <2>6, <2>7 DEF Step
  <1>9. CASE UNCHANGED vars
    <2>1. UNCHANGED <<runs, stage, found, stream, failures, faults, exit>>
      BY <1>9 DEF vars, jobVars, outVars, countVars
    <2> QED BY <1>2, <2>1 DEF StreamWhole
  <1> QED BY <1>3, <1>4, <1>5, <1>6, <1>8, <1>9 DEF Next

-----------------------------------------------------------------------------
(* The directory and the stream of a batch that has failed at nothing *)

\* A function on the numbers up to n is a sequence of that length.
LEMMA LengthOf ==
    ASSUME NEW n \in Nat, NEW reports, reports = [i \in 1..n |-> reports[i]]
    PROVE  DOMAIN reports = 1..Len(reports) /\ Len(reports) \in Nat
PROOF
  <1>1. DOMAIN reports = 1..n
    OBVIOUS
  <1>2. reports \in Seq({reports[i] : i \in 1..n})
    OBVIOUS
  <1> QED BY <1>1, <1>2

\* The batch has ended and has failed at nothing, not even at what it ignores.
Spotless == exit = 0 /\ faults = 0

\* Then every job has its report, and its report is in its file.
LEMMA SpotlessJobs ==
    ASSUME BatchInv, StreamWhole, Spotless, NEW j \in AllJobs
    PROVE  /\ stage[j] = "done" /\ found[j] \in Body
           /\ files[FileOf(j)] = Report(j) /\ files[FileOf(j)] \notin {Absent, Torn}
PROOF
  <1>1. /\ TypeOK /\ ExitAccounts /\ CountsAddUp /\ FailedOnce /\ FileHolds
        /\ exit \in {0, 1} /\ exit # Dead /\ faults = 0
    BY DEF BatchInv, Spotless, Dead
  <1>2. failures = << >> /\ Failed = {}
    <2>1. failures = << >>
      BY <1>1 DEF StreamWhole
    <2> QED BY <2>1 DEF Failed
  <1>3. Counted = AllJobs
    <2>1. IsFiniteSet(AllJobs) /\ Cardinality(AllJobs) = Targets * runs
      BY <1>1, JobsCounted DEF TypeOK
    <2>2. Cardinality(Counted) = Cardinality(AllJobs)
      BY <1>1, <2>1 DEF ExitAccounts, CountsAddUp
    <2>3. Counted \in SUBSET AllJobs
      BY DEF Counted
    <2> QED BY <2>1, <2>2, <2>3, FS_Subset
  <1>4. stage[j] = "done"
    BY <1>1, <1>2, <1>3 DEF Counted, FailedOnce
  <1>5. found[j] \in Body
    BY <1>1, <1>4 DEF StreamWhole
  <1>6. files[FileOf(j)] = Report(j)
    BY <1>1, <1>2, <1>4 DEF FileHolds
  <1>7. Report(j) \notin {Absent, Torn}
    BY <1>5, BatchAssumption DEF BatchAssumption, Body, Report
  <1> QED BY <1>4, <1>5, <1>6, <1>7

\* The stream has no torn line, and what it holds is the report of each job.
LEMMA SpotlessStream ==
    ASSUME BatchInv, StreamWhole, Spotless
    PROVE  /\ StreamLoads
           /\ Streamed = [t \in 1..Targets |-> [r \in 1..runs |-> DecodedOf(<<t, r>>)]]
PROOF
  <1> DEFINE reports == [i \in DOMAIN stream |->
                            Decoded(stream[i].job[1], stream[i].job[2], stream[i].body)]
             IsAt(j, i) == stream[i].job = j
             place == [j \in AllJobs |-> CHOOSE i \in DOMAIN stream : IsAt(j, i)]
  <1>1. faults = 0 /\ exit # Dead /\ runs \in 1..MaxRuns
    BY Types DEF Spotless, Dead, TypeOK
  <1>2. DOMAIN stream = 1..Len(stream) /\ Len(stream) \in Nat
    BY Types
  <1>3. ASSUME NEW i \in DOMAIN stream
        PROVE  /\ stream[i] # Torn /\ stream[i].job \in AllJobs
               /\ stream[i].body = found[stream[i].job]
    <2>1. stream[i] # Torn
      BY <1>1, <1>2 DEF StreamWhole
    <2>2. PICK k \in AllJobs : stream[i] = [job |-> k, body |-> found[k]]
      BY <1>2, <2>1 DEF BatchInv, LineOfJob
    <2>3. stream[i].job = k /\ stream[i].body = found[k]
      BY <2>2
    <2> QED BY <2>1, <2>3
  <1>4. \A i \in DOMAIN stream : reports[i] = DecodedOf(stream[i].job)
    BY <1>3 DEF DecodedOf
  <1>5. DOMAIN reports = 1..Len(reports) /\ Len(reports) \in Nat /\ DOMAIN reports = DOMAIN stream
    <2>1. reports = [i \in 1..Len(stream) |-> reports[i]] /\ DOMAIN reports = DOMAIN stream
      BY <1>2
    <2> HIDE DEF reports
    <2> QED BY <1>2, <2>1, LengthOf
  <1> HIDE DEF reports
  <1>6. ASSUME NEW j \in AllJobs
        PROVE  place[j] \in DOMAIN stream /\ stream[place[j]].job = j
    <2>1. \E i \in DOMAIN stream : IsAt(j, i)
      BY <1>1, <1>2, SpotlessJobs DEF StreamWhole
    <2>2. place[j] = CHOOSE i \in DOMAIN stream : IsAt(j, i)
      OBVIOUS
    <2> HIDE DEF place
    <2> QED BY <2>1, <2>2
  <1>7. place \in [AllJobs -> DOMAIN stream]
    BY <1>6
  <1> HIDE DEF place
  <1>8. ASSUME NEW i \in DOMAIN stream PROVE \E j \in AllJobs : place[j] = i
    BY <1>1, <1>2, <1>3, <1>6 DEF StreamWhole
  <1>9. EachJobOnce(reports, place)
    BY <1>4, <1>5, <1>6, <1>7, <1>8 DEF EachJobOnce
  <1>10. Load(reports) = [t \in 1..Targets |-> [r \in 1..runs |-> DecodedOf(<<t, r>>)]]
    BY <1>1, <1>9, LoadOfJobs
  <1> QED BY <1>3, <1>10, Zenon DEF StreamLoads, Streamed, reports

\* sort.Strings puts any names in order.
LEMMA NamesOrdered ==
    ASSUME NEW S \in SUBSET Names
    PROVE  Orders(NamesInOrder, S)
PROOF
  <1>1. MaxRuns \in Nat /\ Targets \in Nat
    BY BatchAssumption DEF BatchAssumption
  <1>2. ASSUME NEW n \in S
        PROVE  n \in Names /\ n = <<n[1], n[2]>> /\ n[1] \in Nat /\ n[2] \in Nat
    BY <1>1 DEF Names
  <1>3. ASSUME NEW m \in S, NEW n \in S
        PROVE  <<m, n>> \in NamesInOrder <=>
                  \/ m[1] < n[1]
                  \/ m[1] = n[1] /\ m[2] # 0 /\ (n[2] = 0 \/ m[2] < n[2])
    BY <1>2 DEF NamesInOrder
  <1>4. \A n \in S : <<n, n>> \notin NamesInOrder
    BY <1>2, <1>3
  <1>5. ASSUME NEW m \in S, NEW n \in S, m # n
        PROVE  <<m, n>> \in NamesInOrder \/ <<n, m>> \in NamesInOrder
    <2>1. m[1] # n[1] \/ m[2] # n[2]
      BY <1>2, <1>5
    <2> QED BY <1>2, <1>3, <2>1
  <1>6. ASSUME NEW l \in S, NEW m \in S, NEW n \in S,
               <<l, m>> \in NamesInOrder, <<m, n>> \in NamesInOrder
        PROVE  <<l, n>> \in NamesInOrder
    BY <1>2, <1>3, <1>6
  <1> QED BY <1>4, <1>5, <1>6 DEF Orders

\* A file's name tells the job it is of.
LEMMA JobOfName ==
    ASSUME runs \in 1..MaxRuns, NEW j \in AllJobs
    PROVE  /\ FileOf(j)[1] = j[1] /\ (IF FileOf(j)[2] = 0 THEN 1 ELSE FileOf(j)[2]) = j[2]
           /\ FileOf(j) \in Names
PROOF
  <1>1. runs \in Nat /\ MaxRuns \in Nat /\ Targets \in Nat
    BY BatchAssumption DEF BatchAssumption
  <1>2. j[2] \in Nat /\ j[2] >= 1 /\ j[2] <= runs
    BY <1>1 DEF AllJobs
  <1>3. CASE runs > 1
    BY <1>1, <1>2, <1>3, NamesDiffer DEF FileOf
  <1>4. CASE runs = 1
    BY <1>1, <1>2, <1>4, NamesDiffer DEF FileOf
  <1> QED BY <1>1, <1>3, <1>4

\* The directory holds the report of each job, and nothing else.
LEMMA SpotlessDirectory ==
    ASSUME BatchInv, StreamWhole, Spotless,
           \A n \in Names \ {FileOf(j) : j \in AllJobs} : files[n] = Absent
    PROVE  /\ DirectoryLoads
           /\ Directory = [t \in 1..Targets |-> [r \in 1..runs |-> DecodedOf(<<t, r>>)]]
PROOF
  <1> DEFINE RunOf(n) == IF n[2] = 0 THEN 1 ELSE n[2]
             names == Ordered(Present, NamesInOrder)
             reports == [i \in DOMAIN names |->
                            Decoded(names[i][1], RunOf(names[i]), files[names[i]].body)]
             IsAt(j, i) == names[i] = FileOf(j)
             place == [j \in AllJobs |-> CHOOSE i \in DOMAIN names : IsAt(j, i)]
             size == Cardinality(Present)
  <1>1. runs \in 1..MaxRuns /\ files \in [Names -> Contents]
    BY Types DEF TypeOK
  <1>2. \A j \in AllJobs : FileOf(j) \in Names
    BY <1>1, JobOfName
  <1>3. ASSUME NEW j \in AllJobs
        PROVE  /\ FileOf(j)[1] = j[1] /\ RunOf(FileOf(j)) = j[2]
               /\ files[FileOf(j)].body = found[j]
               /\ files[FileOf(j)] \notin {Absent, Torn}
    <2>1. FileOf(j)[1] = j[1] /\ RunOf(FileOf(j)) = j[2]
      BY <1>1, JobOfName
    <2>2. files[FileOf(j)] = Report(j) /\ files[FileOf(j)] \notin {Absent, Torn}
      BY SpotlessJobs
    <2>3. Report(j).body = found[j]
      BY DEF Report
    <2> QED BY <2>1, <2>2, <2>3
  <1>4. Present = {FileOf(j) : j \in AllJobs}
    BY <1>2, <1>3 DEF Present
  <1>5. <<1, 1>> \in AllJobs
    BY <1>1, BatchAssumption DEF AllJobs, BatchAssumption
  <1>6. DirectoryLoads
    BY <1>3, <1>4, <1>5 DEF DirectoryLoads
  <1>7. IsFiniteSet(Present) /\ Present \in SUBSET Names
    <2>1. MaxRuns \in Nat /\ Targets \in Nat
      BY BatchAssumption DEF BatchAssumption
    <2>2. IsFiniteSet(1..Targets) /\ IsFiniteSet(0..MaxRuns)
      BY <2>1, FS_Interval
    <2>3. IsFiniteSet(Names)
      BY <2>2, FS_Product DEF Names
    <2> QED BY <2>3, FS_Subset DEF Present
  <1>8. /\ size \in Nat /\ DOMAIN names = 1..size
        /\ \A k \in 1..size :
              names[k] \in Present /\ Cardinality(Earlier(Present, NamesInOrder, names[k])) = k - 1
        /\ \A m \in Present : \E k \in 1..size : names[k] = m
    BY <1>7, NamesOrdered, OrderedIs
  <1>9. DOMAIN reports = 1..Len(reports) /\ Len(reports) \in Nat /\ DOMAIN reports = DOMAIN names
    <2>1. reports = [i \in 1..size |-> reports[i]] /\ DOMAIN reports = DOMAIN names
      BY <1>8
    <2> HIDE DEF reports, names, size
    <2> QED BY <1>8, <2>1, LengthOf
  <1>10. \A i \in DOMAIN names, j \in AllJobs : IsAt(j, i) => reports[i] = DecodedOf(j)
    <2> SUFFICES ASSUME NEW i \in DOMAIN names, NEW j \in AllJobs, names[i] = FileOf(j)
                 PROVE  reports[i] = DecodedOf(j)
      OBVIOUS
    <2>1. reports[i] = Decoded(names[i][1], RunOf(names[i]), files[names[i]].body)
      OBVIOUS
    <2> HIDE DEF reports, names, RunOf
    <2> QED BY <1>3, <2>1 DEF DecodedOf
  <1> HIDE DEF reports
  <1>11. ASSUME NEW j \in AllJobs
         PROVE  place[j] \in DOMAIN names /\ IsAt(j, place[j])
    <2>1. \E i \in DOMAIN names : IsAt(j, i)
      <3> HIDE DEF names, size
      <3> QED BY <1>4, <1>8
    <2>2. place[j] = CHOOSE i \in DOMAIN names : IsAt(j, i)
      OBVIOUS
    <2> HIDE DEF place, IsAt, names
    <2> QED BY <2>1, <2>2
  <1>12. place \in [AllJobs -> DOMAIN names]
    <2>1. place = [j \in AllJobs |-> place[j]]
      OBVIOUS
    <2> HIDE DEF place, names
    <2> QED BY <1>11, <2>1
  <1> HIDE DEF place
  <1>13. ASSUME NEW i \in DOMAIN names PROVE \E j \in AllJobs : place[j] = i
    <2> HIDE DEF names, size
    <2>1. PICK j \in AllJobs : names[i] = FileOf(j)
      BY <1>4, <1>8
    <2>2. names[place[j]] = names[i] /\ place[j] \in 1..size /\ i \in 1..size
      BY <1>8, <1>11, <2>1
    <2>3. place[j] - 1 = i - 1
      BY <1>8, <2>2
    <2> QED BY <1>8, <2>2, <2>3
  <1>14. EachJobOnce(reports, place)
    <2> HIDE DEF names
    <2> QED BY <1>9, <1>10, <1>11, <1>12, <1>13, Zenon DEF EachJobOnce
  <1>15. Load(reports) = [t \in 1..Targets |-> [r \in 1..runs |-> DecodedOf(<<t, r>>)]]
    BY <1>1, <1>14, LoadOfJobs
  <1> QED BY <1>6, <1>15, Zenon DEF Directory, reports

-----------------------------------------------------------------------------
(* The theorems *)

\* The inductive invariant of a batch.
THEOREM BatchInvariant == Spec => []BatchInv
PROOF BY BatchStart, BatchStep, PTL DEF Spec

\* Every variable of a batch keeps its type.
THEOREM BatchTypeCorrect == Spec => []TypeOK
PROOF
  <1>1. BatchInv => TypeOK
    BY DEF BatchInv
  <1> QED BY <1>1, BatchInvariant, PTL

\* When the batch exits every job has been counted once, and each that is ok
\* has its own report under its name.
THEOREM ExitAccountsAlways == Spec => []ExitAccounts
PROOF
  <1>1. BatchInv => ExitAccounts
    BY DEF BatchInv
  <1> QED BY <1>1, BatchInvariant, PTL

\* No line of the stream speaks of a report that is not in its file.
THEOREM LineMeansReportAlways == Spec => []LineMeansReport
PROOF
  <1>1. BatchInv => LineMeansReport
    <2> SUFFICES ASSUME BatchInv, NEW i \in DOMAIN stream,
                        stream[i] # Torn, stream[i].body # NoReport
                 PROVE  files[FileOf(stream[i].job)] = [batch |-> "this", body |-> stream[i].body]
      BY DEF LineMeansReport
    <2>1. i \in 1..Len(stream)
      BY Types
    <2>2. PICK j \in AllJobs : stream[i] = [job |-> j, body |-> found[j]] /\ Told(j, found[j])
      BY <2>1 DEF BatchInv, LineOfJob
    <2>3. stream[i].job = j /\ stream[i].body = found[j]
      BY <2>2
    <2> QED BY <2>2, <2>3 DEF Told, Report
  <1> QED BY <1>1, BatchInvariant, PTL

\* The invariant of a batch and its stream.
LEMMA StreamInvariant == Spec => [](BatchInv /\ StreamWhole)
PROOF BY BatchStart, BatchStep, StreamStart, StreamStep, PTL DEF Spec

\* Whatever the order in which the surveys of a batch end, the directory and
\* the stream are the same set of reports to compare.
THEOREM StreamMatchesDirectoryAlways == Spec => []StreamMatchesDirectory
PROOF
  <1>1. BatchInv /\ StreamWhole => StreamMatchesDirectory
    BY SpotlessStream, SpotlessDirectory DEF StreamMatchesDirectory, Spotless
  <1> QED BY <1>1, StreamInvariant, PTL

\* fairy compare tells the same differences whichever set comes first: of the
\* directory a batch leaves, and of any two sets of reports.
THEOREM CompareIsDualAlways == Spec => []CompareIsDual
PROOF
  <1>1. CompareIsDual
    BY CompareDual, Zenon DEF CompareIsDual
  <1> QED BY <1>1, PTL
=============================================================================
