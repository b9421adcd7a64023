------------------------------- MODULE Batch -------------------------------
(***************************************************************************)
(* The batch command (cmd/fairy/batch.go): every target of a file surveyed *)
(* so many times, a few surveys at a time, one goroutine for each.  A      *)
(* goroutine writes its report to a file of its own, saves the survey's    *)
(* state, adds a line to the stream all share, and is counted.             *)
(*                                                                         *)
(* A job is a pair <<target, run>>.  The directory may hold what an        *)
(* earlier batch has left there; the process may be interrupted, and may   *)
(* die, at any step.                                                       *)
(***************************************************************************)
EXTENDS Integers, Sequences, FiniteSets

CONSTANTS
    Targets,    \* how many targets the file names
    MaxRuns,    \* --runs is at most this
    MaxJobs,    \* --jobs
    Surveys,    \* what a survey that is left alone may report
    Cuts,       \* what one that is interrupted may report
    NoReport,   \* a survey that reports nothing
    Absent,     \* no such file
    Torn,       \* a part of what was to be written
    MaxFaults   \* bound: so many surveys and writes may fail

ASSUME BatchAssumption ==
    /\ Targets \in Nat \ {0}
    /\ MaxRuns \in Nat \ {0}
    /\ MaxJobs \in Nat \ {0}
    /\ MaxFaults \in Nat
    /\ NoReport \notin Surveys \cup Cuts
    /\ Absent # Torn
    /\ \A b \in {"earlier", "this"}, o \in Surveys \cup Cuts :
          [batch |-> b, body |-> o] \notin {Absent, Torn}
    /\ \A t \in 1..Targets, r \in 1..MaxRuns, o \in Surveys \cup Cuts :
          [job |-> <<t, r>>, body |-> o] # Torn

VARIABLES
    runs,         \* --runs
    next,         \* the next job to be started
    stage,        \* what the goroutine of each job is at
    found,        \* what its survey has reported
    files,        \* the directory: what is under each name, Absent or Torn
    states,       \* the saved state of each job
    stream,       \* the JSONL lines: a job and its report, or Torn
    okCount,
    failures,     \* the jobs counted as failed, in that order
    interrupted,  \* the signal has come in
    faults,       \* how many surveys and writes have failed
    exit          \* the exit code, or Running, or Dead

jobVars == <<runs, next, found>>
outVars == <<files, states, stream>>
countVars == <<okCount, failures>>

vars == <<jobVars, stage, outVars, countVars, interrupted, faults, exit>>

Running == -1
Dead    == -2

AllJobs == (1..Targets) \X (1..runs)

\* The names in the directory, those of another --runs included.
Names == (1..Targets) \X (0..MaxRuns)

\* Mutant: the run number is left out.
FileOfTarget(j) == <<j[1], 0>>

\* <slug>.json, or <slug>-run<n>.json with more than one run.
FileOf(j) == IF runs > 1 THEN j ELSE <<j[1], 0>>

\* What an earlier batch of r runs has left, its first file perhaps torn.
Left(r) == IF r = 1 THEN (1..Targets) \X {0} ELSE (1..Targets) \X (1..r)

LeftOver(r, body, torn) ==
    [n \in Names |-> IF n \notin Left(r) THEN Absent
                      ELSE IF torn /\ n[1] = 1 THEN Torn
                      ELSE [batch |-> "earlier", body |-> body]]

Init ==
    /\ runs \in 1..MaxRuns
    /\ next = <<1, 1>>
    /\ stage = [j \in AllJobs |-> "queued"]
    /\ found = [j \in AllJobs |-> NoReport]
    /\ \E r \in 0..MaxRuns, body \in Surveys, torn \in BOOLEAN : files = LeftOver(r, body, torn)
    /\ states = [j \in AllJobs |-> Absent]
    /\ stream = << >>
    /\ okCount = 0
    /\ failures = << >>
    /\ interrupted = FALSE
    /\ faults = 0
    /\ exit = Running

-----------------------------------------------------------------------------
(* The main goroutine *)

\* Mutant: a goroutine that returns early keeps its slot.
BusyHeld ==
    {j \in AllJobs : stage[j] \notin {"queued", "done"} \/ \E i \in DOMAIN failures : failures[i] = j}

\* The goroutines that hold a slot.
Busy == {j \in AllJobs : stage[j] \notin {"queued", "done"}}

\* Mutant: one run more of each target than there is.
AfterOneMore(j) == IF j[2] <= runs THEN <<j[1], j[2] + 1>> ELSE <<j[1] + 1, 1>>

\* The runs of a target follow one another.
After(j) == IF j[2] < runs THEN <<j[1], j[2] + 1>> ELSE <<j[1] + 1, 1>>

\* sem <- struct{}{} and go: an interrupt does not end the loop.
Launch ==
    /\ exit = Running
    /\ next \in AllJobs
    /\ Cardinality(Busy) < MaxJobs
    /\ stage' = [stage EXCEPT ![next] = "survey"]
    /\ next' = After(next)
    /\ UNCHANGED <<runs, found, outVars, countVars, interrupted, faults, exit>>

ExitCode == IF failures = << >> THEN 0 ELSE 1

\* wg.Wait and the exit code.
Exit ==
    /\ exit = Running
    /\ next \notin AllJobs
    /\ Busy = {}
    /\ exit' = ExitCode
    /\ UNCHANGED <<jobVars, stage, outVars, countVars, interrupted, faults>>

-----------------------------------------------------------------------------
(* The goroutine of a job *)

Move(j, from, to) ==
    /\ exit = Running
    /\ stage[j] = from
    /\ stage' = [stage EXCEPT ![j] = to]
    /\ UNCHANGED <<runs, next, interrupted, exit>>

Fault == faults < MaxFaults /\ faults' = faults + 1

SurveyReports(j) ==
    /\ Move(j, "survey", "create")
    /\ \E body \in IF interrupted THEN Surveys \cup Cuts ELSE Surveys :
          found' = [found EXCEPT ![j] = body]
    /\ UNCHANGED <<outVars, countVars, faults>>

\* A survey may return no report, although with the built-in policies none does.
SurveyFails(j) ==
    /\ Move(j, "survey", "complain")
    /\ Fault
    /\ failures' = Append(failures, j)
    /\ UNCHANGED <<found, outVars, okCount>>

\* writeJSONL, under its mutex.
AddLine(j) == stream' = Append(stream, [job |-> j, body |-> found[j]])

\* The JSONL record of a failure.
Complain(j) ==
    /\ Move(j, "complain", "done")
    /\ AddLine(j)
    /\ UNCHANGED <<found, files, states, countVars, faults>>

\* os.Create, which empties what is there under that name.
Create(j) ==
    /\ Move(j, "create", "write")
    /\ files' = [files EXCEPT ![FileOf(j)] = Torn]
    /\ UNCHANGED <<found, states, stream, countVars, faults>>

CreateFails(j) ==
    /\ Move(j, "create", "done")
    /\ Fault
    /\ failures' = Append(failures, j)
    /\ UNCHANGED <<found, outVars, okCount>>

Write(j) ==
    /\ Move(j, "write", "save")
    /\ files' = [files EXCEPT ![FileOf(j)] = [batch |-> "this", body |-> found[j]]]
    /\ UNCHANGED <<found, states, stream, countVars, faults>>

\* Mutant: the failure is counted but the goroutine goes on.
WriteFailsOn(j) ==
    /\ Move(j, "write", "save")
    /\ Fault
    /\ failures' = Append(failures, j)
    /\ UNCHANGED <<found, outVars, okCount>>

WriteFails(j) ==
    /\ Move(j, "write", "done")
    /\ Fault
    /\ failures' = Append(failures, j)
    /\ UNCHANGED <<found, outVars, okCount>>

\* SaveState and os.WriteFile.
SaveState(j) ==
    /\ Move(j, "save", "line")
    /\ states' = [states EXCEPT ![j] = "this"]
    /\ UNCHANGED <<found, files, stream, countVars, faults>>

\* The error is ignored: the file is what it was, or torn.
SaveStateFails(j) ==
    /\ Move(j, "save", "line")
    /\ Fault
    /\ states' \in {states, [states EXCEPT ![j] = Torn]}
    /\ UNCHANGED <<found, files, stream, countVars>>

WriteLine(j) ==
    /\ Move(j, "line", "count")
    /\ AddLine(j)
    /\ UNCHANGED <<found, files, states, countVars, faults>>

\* Ignored, too: of a failure's line or a report's there is nothing, or a part.
WriteLineFails(j) ==
    /\ Move(j, "line", "count") \/ Move(j, "complain", "done")
    /\ Fault
    /\ stream' \in {stream, Append(stream, Torn)}
    /\ UNCHANGED <<found, files, states, countVars>>

\* The job is counted, and its slot released.
Count(j) ==
    /\ Move(j, "count", "done")
    /\ okCount' = okCount + 1
    /\ UNCHANGED <<found, outVars, failures, faults>>

-----------------------------------------------------------------------------

\* signal.NotifyContext: the surveys' context ends, and nothing else does.
Interrupt ==
    /\ exit = Running
    /\ ~interrupted
    /\ interrupted' = TRUE
    /\ UNCHANGED <<jobVars, stage, outVars, countVars, faults, exit>>

\* The process dies, perhaps half-way through a line or a state file.
Crash ==
    /\ exit = Running
    /\ exit' = Dead
    /\ states' = [j \in AllJobs |-> IF stage[j] = "save" THEN Torn ELSE states[j]]
    /\ stream' \in {stream} \cup {Append(stream, Torn) : j \in {j \in AllJobs : stage[j] = "line"}}
    /\ UNCHANGED <<jobVars, stage, files, countVars, interrupted, faults>>

Step(j) ==
    \/ SurveyReports(j) \/ Complain(j)
    \/ Create(j) \/ Write(j)
    \/ SaveState(j) \/ WriteLine(j)
    \/ Count(j)

Fails(j) ==
    \/ SurveyFails(j)
    \/ CreateFails(j) \/ WriteFails(j)
    \/ SaveStateFails(j) \/ WriteLineFails(j)

Next ==
    \/ Launch \/ Exit
    \/ \E j \in AllJobs : Step(j) \/ Fails(j)
    \/ Interrupt \/ Crash

Spec == Init /\ [][Next]_vars

\* Surveys return, and the goroutines and the main loop go on.
Fairness ==
    /\ WF_vars(Launch \/ Exit)
    /\ \A t \in 1..Targets, n \in 1..MaxRuns : WF_vars(n <= runs /\ Step(<<t, n>>))

FairSpec == Spec /\ Fairness
-----------------------------------------------------------------------------

Stages == {"queued", "survey", "complain", "create", "write", "save", "line", "count", "done"}

Body == Surveys \cup Cuts

\* What a file and a line may hold.
Contents == {Absent, Torn} \cup [batch : {"earlier", "this"}, body : Body]
Lines    == {Torn} \cup [job : AllJobs, body : Body \cup {NoReport}]

\* Every variable holds what the code's declaration of it allows.
TypeOK ==
    /\ runs \in 1..MaxRuns
    /\ next \in (1..(Targets + 1)) \X (1..runs)
    /\ stage \in [AllJobs -> Stages]
    /\ found \in [AllJobs -> Body \cup {NoReport}]
    /\ files \in [Names -> Contents]
    /\ states \in [AllJobs -> {Absent, Torn, "this"}]
    /\ stream \in Seq(Lines)
    /\ okCount \in Nat
    /\ failures \in Seq(AllJobs)
    /\ interrupted \in BOOLEAN
    /\ faults \in 0..MaxFaults
    /\ exit \in {Running, Dead, 0, 1}

Failed == {failures[i] : i \in DOMAIN failures}

\* "batch owns ... deterministic file names ... and error accounting"
\* (README.md): when the batch exits every job has been counted once, as ok or
\* as failed, and each that is ok has its own report, whole, under its name.
ExitAccounts ==
    exit \in {0, 1} =>
        /\ okCount + Len(failures) = Targets * runs
        /\ Cardinality(Failed) = Len(failures)
        /\ exit = 0 <=> failures = << >>
        /\ \A j \in AllJobs \ Failed :
              files[FileOf(j)] = [batch |-> "this", body |-> found[j]]

\* The stream never runs ahead of the directory: whoever follows it finds the
\* report of a line in its file, and the same in both, after a crash as well.
LineMeansReport ==
    \A i \in DOMAIN stream :
        stream[i] # Torn /\ stream[i].body # NoReport =>
            files[FileOf(stream[i].job)] = [batch |-> "this", body |-> stream[i].body]
=============================================================================
