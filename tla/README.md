# FairySDK in TLA+

FairySDK surveys the network path to a target: it proposes small experiments
(a DNS lookup, a TCP connection, a TLS handshake, an HTTP request, a UDP
datagram, a QUIC handshake), runs them concurrently, records what they observed,
lets a policy choose the next ones from what is known, and at the end infers
what is wrong with the path. A survey's state can be saved and resumed.

This directory holds TLA+ models of that program, TLC configurations that check
them on small instances, and TLAPS proofs, for all instances, of the safety of the
runner, the policies, the inference, every probe, the batch and the comparison, and of the
two refinements: no safety property that a run finds to hold is left without its theorem. Every definition is translated from the Go source; `PROJECT.json` names the lines behind each one.

    tlc -config MCRunner.cfg MCRunner        # a run; the table below lists all
    tlapm RunnerProofs.tla                   # proofs; likewise the other modules *Proofs

## 1. The system

| Component | State | Operations | Modelled in |
|---|---|---|---|
| survey runner `internal/runner.go` | the locals of `RunSurvey` (budget, round, batch, result slots) and the `SurveyState` it owns | `RunSurvey`, `dedupe`, `runBatch`, `makeReport` | Runner |
| SDK facade `fairy.go`, `state.go` | none of its own; the options | `Survey`, `Resume`, `SaveState`, `LoadState` | Runner, Survey, SharedState (partly) |
| survey command `cmd/fairy/main.go` | the state file | `--resume`, `--save`, interrupt | Runner (partly) |
| state and observations `internal/model/types.go` | `SurveyState{Observations, Rounds, Round}` | `HasExperiment`, `AddObservation` | Runner, Experiments (partly) |
| experiment identity `internal/model/experiment.go` | none (a hash of the normalized fields) | `Normalize`, the constructors | Experiments |
| policies `policy/*.go` | none: functions of the state | `Propose`, `Done` of fast, adaptive, factorial, taguchi | Policies |
| inference `infer/infer.go` | none: a function of the observations | `Infer` | Infer |
| fan-out over addresses `probe/common.go`, `tcp.go`, `tls.go`, `quic.go` | goroutines, a semaphore, a channel, connections | `attemptAddresses`, `connectAll`, `attemptTLS`, `attemptQUIC`, `aggregateStatus` | Attempts |
| UDP probe `probe/udp.go` | a socket with a deadline of its own | `Run` | UDPProbe |
| DNS probe `probe/dns.go` | two lookups within one budget | `runSystem`, `runPublic`, `combineFamilyErrors` | DNSProbe |
| HTTP probe `probe/http.go` | sequential failover, a slice of the budget for each address | `Run`, `classifyHTTPError` | HTTPProbe |
| batch command `cmd/fairy/batch.go` | a pool of goroutines, counters under a mutex, the report and state files, a JSONL stream | `runBatch` | Batch |
| compare command `cmd/fairy/compare.go` | none | `loadReportSet`, `views`, `compareSets`, `instability` | Reports |
| rendering and report files `report.go`, `cmd/fairy/report.go` | none | the report envelope | Batch, BatchProps (partly) |
| flags, aliases, version | none | | no: wording |

### How they interact

The command builds a `Fairy` and calls `Survey` or, on a loaded state, `Resume`.
Both call `RunSurvey`, which loops: ask the policy whether it is `Done`, else
let it `Propose`; drop what is recorded or repeated and cap the rest at the
budget (`dedupe`); run what is left in an `errgroup` with a limit, each goroutine
writing its own slot; append the round to the state, then its observations in
proposal order. The loop ends with the policy, the budget, the round limit or
the context, and the report is made from the recorded observations by the
inference. A probe goroutine hands its experiment to the probe of its layer,
under that layer's budget; the probe resolves the target, tries its addresses
(all at once, or one after the other for HTTP) and returns one observation. The
policy and the inference see nothing but the recorded observations, in order;
the next process sees nothing but the state file.

A batch runs such surveys over one `Fairy`, a few at a time, for every target of
a file and every run. Each leaves a report file, a state file and a line in a stream,
and compare reads either the files or the stream back.

### What is hard

* Goroutines of one batch of probes, of one probe's addresses, and of one batch
  of surveys finish in any order.
* The survey's deadline, a layer's budget, a cancellation or a crash may fall
  between any two steps, in particular while something waits for a slot, or
  between a report, its state file and its line.
* A policy may repeat itself within a batch, between rounds and after a resume,
  and two drafts written differently may be one experiment.
* A state recorded under one policy and budget is resumed under another; one value
  of a state may be resumed twice in one process.
* `Done` and `Propose` are separate readings of one plan; the adaptive plan
  unlocks follow-ups over several rounds; the inference reads every variant, and so
  does compare.
* Timeouts and definite failures mean different things to policy and inference,
  and several functions merge many outcomes into one status.
* Budgets are divided: between two lookups in sequence, and into slices for
  addresses in sequence, with a least slice that may not fit.
* A directory of reports may have been used before, with another number of runs.

### What makes each part correct

* Runner: no experiment is run or recorded twice, the budget holds across
  resumes, the state explains itself, history never changes, a survey returns.
* Policies: proposals are new; done exactly when nothing is left; dependent
  probes only after their prerequisites; a failure is followed up to the end; a
  finished Taguchi survey really has its orthogonal design.
* Inference: no failure goes unnamed, a variant does not erase a verdict,
  "healthy" means healthy.
* Every probe: it reports once, a status that something it has heard supports, and
  it returns whatever the network does.
* Fan-out: the report does not depend on completion order, the connection used
  works, every other one is closed, strong evidence beats weak.
* UDP: silence is a timeout and never a failure.
* DNS: one family does not spoil the other, NXDOMAIN is only claimed when both
  families were told so, timeouts stay timeouts.
* HTTP: a stalled address does not cost the others their turn; the slices fit in
  the budget; the last verdict is reached within it.
* Batch: every survey is accounted for once, under its own name; the stream is
  never ahead of the directory and ends up saying the same; the batch returns.
* Compare: the order of the operands does not matter; what stands for a layer is
  the default experiment.

## 2. The modules

### The survey

**SurveyLog** is the abstract specification: a log of experiments that is begun
or continued, grows by whole rounds of new experiments within a cap, and at the
end is kept or dropped. It knows nothing of goroutines, policies, or files.

**Runner** is `RunSurvey` and the command around it. The policy is arbitrary:
each round it may say done, fail, or propose any sequence of `Proposals`
(`PolicyDone`, `PolicyFails`, `PolicyProposes`). `Dedupe` is one turn of the loop
in `dedupe`; `Dispatch` its return and the allocation of the result slots;
`Spawn` is `g.Go`, which starts goroutines in order and blocks at the limit;
`Finish` a goroutine's write; `Wait` the return of `g.Wait` with the append to
`state.Rounds`; `AddObservation` one turn of the recording loop; `EndRound` the
end of the body; `MakeReport` the report. `Survey`/`Resume` start a process,
`Truncate`/`Save` are the two halves of `os.WriteFile`, `Crash` loses all
memory. A result is abstracted to *answered*, *cut* (overtaken by the dead
context) or *unattempted* (started after it). `Deadline` and `Cancel` are one
step each, at any time.

**RunnerProps** adds the properties that need sequence operators and the
refinement mapping to SurveyLog: the log is the recorded experiments without
those of a round still being recorded; `kept` is the saved state; `open` is
"a process runs".

**SharedState** is what Runner leaves out: several resumes of one `SurveyState`
value, whose slices share an array. Slices are modelled as Go has them, an array and a
length, and `append` by what it does with and without room.

**Experiments** has experiments and observations. An experiment is the record of
its canonical fields after `Normalize`, so equal records are equal IDs: SHA-256
is taken as injective. What policies and inference ask of an observation's
evidence is a set of *marks*.

**Policies** has the four policies as pure functions. The adaptive ranking keeps
its score and the order of the canonical strings, which breaks ties; of the sorted
candidates only the first two are ever looked at (`TopTwo`).

**Infer** has the inference: findings with kind, confidence and the experiments
cited. The text of the evidence lines is left out.

**Survey** composes the three: a survey by one policy, observation by
observation, with any outcome a layer may have, resumed under any policy and
budget. Runner has shown that concurrency does not matter to the recorded
state (results are recorded in proposal order, `LogFollowsRounds`), so this loop
is sequential. **SurveyProps** has its properties.

### The probes

**Probe** has what all probes share: the layer, the context, which may expire or be
cancelled at any step, how far the probe has come, the classification of
errors into a status and a kind of evidence, and a name that does not resolve.
Each probe's module extends it with variables of its own.

**Attempts** is one TCP, TLS or QUIC probe over the addresses of a name: per
address a goroutine (`Acquire` the semaphore, dial, handshake, send), the
collecting goroutine (`Receive`, `SettleFailed`/`SettlePassed`, `Return`), and QUIC's
HTTP/3 request. A dial that starts on a dead context can only fail with it.

**UDPProbe** is one datagram. The socket's deadline is a timer of its own: it may
fire a little before or after the context ends, and only it ends the read.

**DNSProbe** is the DNS probe with both resolvers: what the network has for each
family is fixed at the start, a lookup overtaken by the end of its context may
still return its answer, a later one may not. Whose resolver it is (`platform`) is fixed
as well: `mapDNSError` asks `IsNotFound` before the "no data" text, and off Windows that is set
for a name without records too, so there `Answer` turns the system resolver's `no_data` into
`not_found`. `not_found` and `temporary` stand for every rcode that is an error: with any
other (REFUSED, say) the public lookup stops and fails in the same way.

**HTTPProbe** is the failover, in discrete time: resolution takes some of the budget, the
rest is divided into slices (`Slice`, whole ticks, at least `MinSlice`), and each
address answers, fails, or is silent, after so many ticks. What an address would do is fixed
when the name resolves, so that a property can say who deserved to be heard.

**ProbeSet** composes the four behind the runner's dispatch: a behaviour is one
experiment of any layer. **ProbeContract** is the abstract specification of
`docs/probe-contract.md`: a probe hears things and reports once, a status
something it has heard supports. `ImplementsContract` says that each probe refines
it, where `AllHeard` collects what each has been told so far. Two laxities are part of
the contract, for they are what the DNS probe does: with both families asked for,
the system resolver *merges* (two timeouts make a failure, section 4) and
the public one *spoils* (one family's failure loses the other's answer).

### The batch

**Batch** is `fairy batch`: `Launch` is the main loop taking a slot, `Exit` the
end of `wg.Wait`; the goroutine of a job surveys, creates its report (which
empties what was there), writes it, saves the state, writes its line, is counted.
Every one of these may fail; creating and writing a report count the job as failed,
the state file's and the line's errors are dropped. `Interrupt` ends the surveys'
context and nothing else; `Crash` may leave a state file or a line torn. The
directory may hold the reports of an earlier batch, with another number of
runs, and a torn one.

**Reports** is compare as operators: loading (the runs of each host in the order of their
numbers, `ByRun`), the view of a report (the first observation of a key stands for it), the changes of
observations and findings, the instability between runs. A sort is `Ordered`: a set put one
after another as a set of pairs says, which is what can be proved about.
**BatchProps** reads the directory and the stream of a batch as compare does
(`DirectoryLoads` and `StreamLoads` say whether it can: one torn file or line is an error),
and compares them with each other and with the reports of another network.

**RunnerProofs**, **SurveyProofs**, **AttemptsProofs**, **UDPProofs**, **DNSProofs**, **HTTPProofs**,
**ProbeSetProofs** (which takes the four before it) and **BatchProofs** hold the
theorems (section 5).
**MCRunner**, **MCSurvey**, **MCBatch** define the instances for TLC; ProbeSet,
DNSProbe and SharedState need only constants from their `.cfg`.

## 3. What is checked

Each run has one `.cfg`. "finds" marks a run whose property the code violates;
section 4 says how.

| Run (`.cfg`) | Asks | Distinct states |
|---|---|---|
| runner (MCRunner) | does anything a policy, a deadline, a cancellation, a crash or a resume may do break the recorded state, the budget or the promise of SurveyLog, and does every survey return? | 16 000 |
| runner_interrupted (MCRunnerInterrupted) | are recorded experiments complete? finds | |
| resume_shared (MCSharedState) | do two resumes of one value leave each other alone? finds | |
| survey (MCSurvey) | fast and adaptive on an https target, resumed under either with any budget | 125 000 |
| survey_mixed (MCSurveyMixed) | all four policies, resumed under one another, on an http target | 16 000 |
| prerequisites (MCSurveyPrerequisites) | do dependent probes run only when their prerequisites pass? finds | |
| masked (MCSurveyMasked) | does a variant never erase a verdict? finds | |
| healthy (MCSurveyHealthy) | does "healthy" mean that everything passed? finds | |
| probes (MCProbes) | every probe, every order of answers, every end of the context: is the report supported, the budget kept, everything closed, and does the probe return? | 237 000 |
| dns_timeout (MCDNSProbeTimeout) | is a timeout a timeout? finds | |
| batch (MCBatch) | a batch on a used directory, with failures, an interrupt and a crash: the accounts, the stream, the comparison, the end | 628 000 |
| batch_interrupted (MCBatchInterrupted) | does exit code 0 mean that every target was surveyed? finds | |

### The properties

*Runner.* `RecordedOnce` (in memory and on disk), `NeverRerun` (a running probe's
experiment is neither recorded, saved nor running twice), `NoDuplicateError`
(the error return that would throw the report away), `WithinBudget` (the batch
in flight included), `LogFollowsRounds` (read in order, the rounds' proposals
name the observations, and rounds are numbered across resumes),
`HistoryImmutable` (no step changes an observation; a save continues the saved
state), `SurveyReturns` (liveness), `ImplementsLog` (refinement).

*Policies.* `DoneExactly`, `ProposalsAreNew`, `FastPrerequisitesMet`,
`FastTakesOnePath`, `AdaptiveExplains`, `TaguchiCovers`.

`AdaptiveExplains` and the two of the inference are about every survey that the fast and the
adaptive policy have run, one after the other in any order: a design of variants may hold a TLS row
without the TCP connection beside it that follow-ups and findings ask for. `TaguchiCovers` asks that the
bound on a design admit the nine rows of the table.

*Inference and compare's views.* `FailuresAreNamed` (no failure of a default TLS, UDP or QUIC
probe goes without a finding, but where a default handshake was skipped: the adaptive policy
then handshakes on the other family, and a failure there is counted only where TCP passed),
`VerdictsStandOnPort` (on the target's own port what the defaults alone would have told is told);
`ViewsAreDefault`: the first observation of each layer and family, which is all compare looks
at, is that of the default experiment on the survey's own target, however often the
survey was cut and resumed (the factorial and the Taguchi policy are designs of variants, and
are left out).

*Probes.* `ProbeReturns` (liveness) and `ImplementsContract` (refinement), for every layer.
Fan-out: `ReportIsOrdered`, `PassMeansConnected`, `NoConnectionLeft`,
`FailureWinsByAggregate`. UDP: `SilenceIsNoFailure`. DNS: `NXDOMAINIsCertain`
(every family asked for was told so by the network, or, off Windows, that it has no records: what
answered with addresses, failed or ran out of time is never called NXDOMAIN; that a name
without records is, section 4 says),
`AAAASparesA`, `TimeoutIsTimeoutElsewhere`. HTTP: `StalledSparesOthers` (whoever would
answer within its slice is heard, if the budget has room for its turn),
`EveryAddressGetsItsSlice`, `WithinLayerBudget`.

*Batch.* `ExitAccounts` (each job counted once, and under the name of each that is ok its own
report, whole), `LineMeansReport` (a line is never ahead of its file, after a crash as
well), `StreamMatchesDirectory` (after a batch that failed at nothing both can be loaded, and are the
same set of reports for compare, in whatever order surveys ended), `CompareIsDual`, `BatchReturns` (liveness).

Every one of them, and each system's `TypeOK`, has a mutant of the code it
catches; mutants stand before the definition they change.

### Bounds, and why they are enough

* runner: three processes (a fresh survey, a resume, a resume of a resume or of
  a lost one); three experiments, one of them with two spellings, so that a batch
  can repeat itself within, across rounds and across resumes; budgets of 2 and of
  the default, 3 (`MaxProbes` 0 stands for it), so that a resumed state may already exceed
  the new budget and a proposal the rest of it; a limit of two in a batch of
  up to three, so that something waits for a slot when the deadline falls; two
  rounds, so that the round limit, the budget and the policy each end a survey.
* survey: the target, the control and port 80; every status a layer's policy
  branch or inference branch tells apart; budgets 2 and 3, which cut a survey in
  the middle of each of its stages, and the default 16, which never cuts (the
  longest adaptive survey of one https target has 14 experiments). One
  resume: the next run sees nothing but the recorded state, and two runs already
  cut and continue a survey at every place; a second resume would add only
  further switches between policies. `MaxRounds` is 16
  (the code's is 64): every round records something and a run has at most 16
  experiments, so neither is reached. `MaxCandidates` is 32 for both designs (in
  the code 64 for the factorial one), and they have 8 and 9 rows.
* survey_mixed: two outcomes for a layer, since its properties are about what
  is proposed; budgets 4 and 16, so that a design is cut or finished.
* probes: three addresses are the fewest of which one waits at two slots while
  two others disagree; the code's `addrAttemptLimit` is 4, and its role is the
  same. A failure of each class. For the failover, up to three addresses and budgets of 4 and 7 ticks
  with a least slice of 2, so that the equal share is above the least one, at it
  and below it (three times 2 do not fit in 4), with a remainder, and answers after 1
  tick and after 3, within a slice and beyond it. DNS: all values; nothing is bounded.
* batch: two targets, one run or two, and two goroutines at a time, so that up to four jobs
  compete and one waits; one failure (`MaxFaults`): a failure concerns one job and what it
  shares with others is the stream, the counters and the directory, which one
  already spoils. A survey ends whole or cut, two reports that compare tells apart; the
  other network's hosts overlap in one, which has two runs that disagree.
* resume_shared: a slice with room and one without.

Deadlock is not checked: a survey, a probe, a batch and the processes of a run end.

### Fairness, and why the code justifies it

* `Runner!Fairness`: the goroutine of `RunSurvey` runs, and so does the goroutine
  of each probe: every probe is given the budget of its layer
  (`context.WithTimeout`) and gives up when it is spent. Nothing is assumed of the
  deadline of the survey, the caller, the policy's choice (which may propose
  forever) or of a second process being started. `ProbeReturns` is what this rests on.
* `ProbeSet!Fairness`: the timer of the budget fires, and so does the socket's; the
  collector and a goroutine that finds a free slot run; a dial, a handshake, a resolution,
  a lookup, a request returns once its context is dead (`DialContext`, `HandshakeContext` and the like
  promise it). While the context lives nothing is assumed: an address may stay silent.
* `Batch!Fairness`: the main loop and each goroutine go on, a survey returns (`SurveyReturns`).
  Failures, the interrupt and the crash are never assumed.

## 4. Where the code and its documents disagree

* **An experiment that never started is recorded as complete** (`runner.go:103`). When the
  deadline falls while a batch waits for slots, `g.Go` still starts the rest on a dead
  context; they report timed out or skipped without having touched the network,
  and are recorded. A resumed survey never runs them. `types.go:318`: "AddObservation
  records a completed observation".
* **Two resumes of one state overwrite each other** (`fairy.go:94`). `st := state` copies the
  struct and not the array behind `Observations`; with room in the slice, as decoding a saved
  state leaves it, the second resume writes its observation over the first one's. `types.go`: "Every
  completed observation is immutable".
* **A prerequisite on another port counts** (`fast.go:67`). All TCP connections to
  443 fail, the adaptive follow-up on port 80 passes: `latest`
  does not look at the port, and TLS is proposed on 443. `fast.go:13`: "Dependent
  probes run only when their prerequisites pass".
* **A variant erases a verdict** (`infer.go:294`). In the same survey
  `tcp_unreachable` becomes `path_healthy` or nothing: a different port is
  "canonical". `infer.go:258`: a variant "must not erase the verdict of the default
  experiment".
* **"Healthy" with a failed probe** (`infer.go:235`). IPv4 fails, IPv6 passes, no
  finding names it: the path is healthy. `infer.go:52`: "All probed layers passed".
* **Two timeouts make a failure** (`dns.go:79`), against
  `docs/probe-contract.md:15`: "Timeouts become `Status: Timeout`. Not `Status: Fail`."
* **An interrupted batch exits with 0** (`batch.go:135`). The surveys that are left are started
  on the dead context, each cut report replaces what was there and counts as ok.
  `CHANGELOG.md:30`: batch "reports per-target failures with a non-zero exit code".

One more has no run of its own, for the code's comments know of a part of it; the model has it
(`platform`, `Answer`), and `NXDOMAINIsCertain` is stated around it:

* **A name that exists is called NXDOMAIN** (`dns.go:182`). The pure Go resolver sets `IsNotFound`
  for a name without records of the family too, and `mapDNSError` tests it before the "no data"
  text: off Windows two such answers make NXDOMAIN, one is enough when one family is asked for.
  `dns.go:138`: "NXDOMAIN is only claimed when BOTH families were told the name does not exist;
  a "no data" answer means the name exists". The comment at `dns.go:171` admits that the Go
  resolver conflates both, but says that `no_data` is still "detected only via the error text or
  inferred when the other family resolved the same name": the text is never reached, and
  nothing infers a label. With `net[f] = "not_found"` alone on its right-hand side
  `NXDOMAINIsCertain` fails in three steps: both lookups return `not_found` for `no_data`,
  and the verdict says NXDOMAIN.

## 5. What is proved

Each theorem holds for every value of the constants, under the assumption its module names and no other.

| Theorem | Property | Assumption |
|---|---|---|
| `RunnerInvariant`, `TypeCorrect` | the inductive invariant `IInv`; `TypeOK` | `RunnerAssumption`: each draft has an identity; budgets are integers; the default budget, the limit and the round bound are positive |
| `RecordedOnceAlways` | `RecordedOnce` | |
| `DuplicateUnreachable` | `NoDuplicateError` | |
| `NeverRerunAlways` | `NeverRerun` | |
| `WithinBudgetAlways` | `WithinBudget` | |
| `HistoryIsImmutable` | `HistoryImmutable` | |
| `LogFollowsRoundsAlways` | `LogFollowsRounds` | |
| `RunnerImplementsLog` | `ImplementsLog` | |
| `SurveyTyped` | `TypeOK`, by the inductive invariant `Typed` | `SurveyAssumption`, `PoliciesAssumption`, `TargetAssumption`: first and next policies are of the four, budgets natural, bounds positive, an outcome has a status and marks, the control is another host than the target |
| `ProposalsAreNewAlways` | `ProposalsAreNew` | |
| `DoneExactlyAlways` | `DoneExactly` | |
| `ViewsAreDefaultAlways` | `ViewsAreDefault` | |
| `FastPrerequisitesMetAlways` | `FastPrerequisitesMet` | |
| `FastTakesOnePathAlways` | `FastTakesOnePath` | |
| `AdaptiveExplainsAlways` | `AdaptiveExplains` | |
| `NoRepeatsAlways` | (no experiment is recorded twice, under any policies) | |
| `FailuresAreNamedAlways` | `FailuresAreNamed` | |
| `VerdictsStandOnPortAlways` | `VerdictsStandOnPort` | |
| `TaguchiCoversAlways` | `TaguchiCovers` | |
| `AttemptsInvariant`, `AttemptsTyped` | the inductive invariant `AttInv`; `AttemptsTypeOK` | `AttemptsAssumption`: addresses and slots are positive, and what a dial and a handshake fail with is among `Errors` |
| `NoConnectionLeftAlways` | `NoConnectionLeft` | |
| `PassMeansConnectedAlways` | `PassMeansConnected` | |
| `ReportIsOrderedAlways` | `ReportIsOrdered` | |
| `FailureWinsAlways` | `FailureWinsByAggregate` | |
| `HTTPInvariant` | the inductive invariant `HTTPInv`, types included | `HTTPAssumption`: budgets and the least slice are positive, delays natural, and a timeout is not among the network's errors |
| `StalledSparesOthersAlways` | `StalledSparesOthers` | |
| `EveryAddressGetsItsSliceAlways` | `EveryAddressGetsItsSlice` | |
| `WithinLayerBudgetAlways` | `WithinLayerBudget` | |
| `DNSInvariant` | the inductive invariant `DNSInv`, types included | `DNSAssumption`: resolvers and families are of those there are |
| `NXDOMAINIsCertainAlways` | `NXDOMAINIsCertain` | |
| `AAAASparesAAlways` | `AAAASparesA` | |
| `TimeoutIsTimeoutElsewhereAlways` | `TimeoutIsTimeoutElsewhere` | |
| `UDPInvariant` | the inductive invariant `UDPInv`, types included | `UDPAssumption`: what the network reports is among `Errors`, and neither a timeout nor a cancellation |
| `SilenceIsNoFailureAlways` | `SilenceIsNoFailure` | |
| `ProbeSetInvariant`, `ProbesTyped` | the inductive invariant `ProbeInv`; `TypeOK` | those of the four probes |
| `ProbesSafe` | the eleven safety properties of the probes, of ProbeSet | |
| `ProbesImplementContract` | `ImplementsContract` | |
| `BatchInvariant`, `BatchTypeCorrect` | the inductive invariant `BatchInv`; `TypeOK` | `BatchAssumption`: targets, runs and jobs are positive, the model values differ, and a torn file or line is none that was written whole |
| `ExitAccountsAlways` | `ExitAccounts` | |
| `LineMeansReportAlways` | `LineMeansReport` | |
| `StreamMatchesDirectoryAlways` | `StreamMatchesDirectory` | |
| `CompareIsDualAlways` | `CompareIsDual` | |

The theorems on one probe are about `AttemptsSpec`, `UDPSpec`, `HTTPSpec` and `DNSSpec`, of which a behaviour of
ProbeSet takes one; ProbeSetProofs carries them over to ProbeSet's own `Spec`.

*Runner.* `RecordedOnce` is not inductive: that `AddObservation` meets no duplicate
depends on what `dedupe` let through several steps before. `IInv` therefore adds

* `RoundShape`: the round's locals exist only while it does, and the goroutines,
  slots and proposals are equally many;
* `ResultsInPlace`: a finished goroutine has filled its own slot with its own
  experiment, so what is recorded is what was proposed;
* `ProposedNew`: the proposals of a round are distinct, and those not yet recorded
  are not in the state;
* `ContinuesSaved`: the state underway continues the saved one, so what is not
  in the first is not in the second;
* `Accounting`: what is recorded, in flight and left never exceeds the budget, nor
  a resumed state that already did.

Each conjunct has a lemma with one step per action that can disturb it
(`TypeStep`, `ShapeStep`, `ResultsStep`, `ProposedStep`, `RecordedOnceStep`,
`ContinuesStep`, `AccountingStep`); `InvStep` puts them together. The refinement
(`StepRefines`) maps starting a process to `Begin` or `Continue`, `EndRound` to
`Grow`, `Save` to `Keep`, every other end of a process to `Drop`, and all else to a
stutter. `IInv` is what makes `Grow` legal: new experiments, within the cap.

`LogFollowsRounds` says nothing while a round is being recorded, when the rounds are ahead of the
observations; `Explained` does: what is recorded is the rounds before the current one, flattened, followed by
as many of the current round's proposals as are recorded. The flattening of a sequence with one
more element (`FlattenAppend`) is proved of the function by which the fold is defined: that it exists and is
unique is an induction over the set of the lengths for which it does (`NatSetInduction`), a set
instead of the operator that the library's induction theorems ask for.

*Survey.* The proofs go from the operators up. `DedupeAndCap` is a fold, of which
nothing can be proved before the table it is defined by is known to exist (`TakesExists`, an
induction over a set like that of the runner). What such a table takes is then fixed (`Selects`): each taken experiment is new, comes after all that
stand before it, and is left out only when it is known or the budget is full. With
what the constructors make (`Constructors`) and what `Latest` finds (`LatestSeen`) they give
`FastPlanIs`, the steps a fast plan may have in each state, the same for the follow-ups of the
adaptive policy, and the rows of the two designs. From these:

* `Typed` is `TypeOK` with `RoundInv` (a batch is left only while it is being recorded, and within the
  budget). `ProposalsAreNew` and `DoneExactly` hold in every state of the right types,
  reachable or not: no history is needed for them.
* `NoRepeats`: recorded experiments differ, and from those about to be recorded.
* `FastInv`: DNS is recorded first, and every later observation was due by those before it: TCP on a family
  after TCP on the preferred one (`Tried`), all else on the first family that TCP reached
  (`OnPath`, `MayFollow`); and so is every experiment in the batch (`FastDue`), for what is
  recorded while a batch is under way must not take its path away. `FastPrerequisitesMet` reads off
  what passed before; `FastTakesOnePath` needs that a later round
  cannot find another first family (`ReachedOnPath`), which is where the order of the dialling counts: a
  budget may cut a TCP round short but never turns it around.
* `ViewInv`: a variant is recorded, or about to be, only after a default experiment of its
  layer and family (`Shown`). A follow-up's default has been recorded in an earlier round, because it
  answers to it.
* `TreeInv`: each TCP and TLS observation is on a family of the last DNS observation, and TCP to another port
  comes after it failed everywhere on the target's own (`Suited`). DNS may be asked again of the
  public resolver, which may change the families, but only before it passed. So the family
  of a failed handshake is still among those the policy looks at when it says that it is done,
  and `Done` means that its follow-ups are recorded (`AdaptiveExplains`).
* `GroundInv`: what is behind every probe above DNS (`Grounded`). A default handshake follows a
  TCP connection on its family, or a handshake on the other family that did not pass over TCP that did; UDP and QUIC to a DNS answer,
  and there is one of each. With it a failure has the ground the inference asks for: a failed handshake is named over its TCP
  connection, or else the one on the other family failed over its own and is named, unless it was skipped
  (`TLSKind`, `UDPKind`, `NamedKinds`). That is how the exception in `FailuresAreNamed`
  was found: without it the invariant does not give the property, and neither does the code.
* `VerdictsStandOnPort` compares the inference of all observations with that of the default ones
  alone. On the target's own port the first observation of each key is a default (`Homely`, by `ViewInv`),
  so that for each layer and family both pick the same observation (`DefaultsPick`) and agree on whether all TCP
  failed (`DefaultsTCP`); only what is said of health and of a partial path may differ, and
  `DefaultsInferred` goes through the findings one by one.
* `RowsInv`: a Taguchi survey records nothing but rows of its table. `Done` means that all nine are
  recorded, however the budget cut them; the table is orthogonal (`L9Orthogonal`), and its levels are told
  apart by the experiments they make (`RowLevels`), so `PairsOfRows` counts nine pairs.

*Fan-out.* None of its properties is inductive: each speaks of a settled probe, and what makes it
true happens in any order before. `Delivered` says that an address has sent its result exactly when
the result is in the channel or among the outcomes, and once; `Collecting` that, until the probe settles,
the open connections are those of addresses in a handshake, of the successes still in the channel, and
the winner (for TLS: of every success). When the channel is closed and empty the first makes the outcomes name every
address once, so that sorting them (`SortedOutcomes`, which needs that a bijection keeps the cardinality)
puts the outcome of address `a` in place `a`, and the second leaves the winner alone open
(`AllIn`, `SettlePassedStep`). `Judged` and `Evident` are what the verdict then says, by `FirstIsLeast`
for the outcome that decides. One lemma for each action, and `AttemptsStep` puts them together.

*HTTP.* The argument is that the turn of address `p` comes after at most `p - 1`
slices (`Underway`), so that an address the budget has room for finds its slice whole
(`SliceLeft`), and that an address which `Deserves` to be heard is therefore never passed over
(`AttemptFails`). `SharesFit` is the arithmetic: as many equal shares as there are addresses fit
in what is divided, because the share is rounded down.

*UDP.* `Heeded` ties the status to what the socket said, and a timeout to its own timer: between the
two deadlines only the socket's ends a read.

*Probe set and contract.* `ProbeInv` is the invariant of the layer's probe, with what the contract needs of it
besides: which lookups have been made (`Asked`), and that all addresses before the last have not
answered (`LastDecides`). The layer never changes (`LayerOf`), so a step of the set is a step of
its probe, and each probe's invariant gives its properties (`...ByInv`). In the refinement, what has been heard only
grows, every step that settles nothing is `Hear` or a stutter, and the step that returns is
`Report`, whose guard (`Supported`) is one lemma for each layer.

*DNS.* `OvertakenDead` says when the context died, `NotFoundIsTold` that no lookup says of a
name that it is not there unless it was told so (`NoName`, with the platform's conflation), `ARecordsKept` that an A lookup with time to spare has its addresses, and
`VerdictMeans` what the two verdicts (`SystemVerdictMeans`, `PublicVerdictMeans`) make of that.

*Batch.* `ExitAccounts` rests on `QueuedAhead` (the jobs not started are those from the next one on, so
that none is left when the loop ends), `FailedOnce` and `CountsAddUp` (the counters are the
jobs past being counted), and `FileHolds` (from the write on, a job's file holds its
report, which needs that names differ: `NamesDiffer`). `LineMeansReport` rests on `LineOfJob`: every
whole line names a job past its line, with what that job has found. One lemma per conjunct says what
a goroutine's step leaves true (`StillAhead`, `NotCounted`, `CountedAsFailed`, `CountedAsOk`, `StillHeld`,
`LineAdded` and so on), one per kind of step puts them together, and `BatchStep` these.

`StreamMatchesDirectory` is about two ways of loading. A strict total order on a finite set gives each member a
rank of its own, and every rank is taken (`RankTaken`, because an injection between sets of one size is onto);
so `Ordered` lists each member once (`OrderedIs`). Whatever holds the report of each job once, in any order, is therefore
loaded as the same function from targets to runs (`LoadOfJobs`). The directory of a batch that failed at
nothing does, by `FileHolds` and `NamesDiffer`; that the stream does is an invariant of its own:
`StreamWhole`, which says that as long as nothing has failed no line is torn, and that each job past its
line has exactly one. It needs `LineOfJob`, for a job's line must be the first of that job. That every
job is done when the batch exits follows from the counters (`CountsAddUp` against `ExitAccounts`).

*Comparison.* `CompareDual` holds of any two sets of reports, well formed or not: change by change
(`ChangesAtDual`, one case for each kind), finding by finding, and disputed key by
disputed key. `CompareIsDual` is its instance for the directory a batch leaves.

Only model-checked:

* the liveness properties `SurveyReturns`, `ProbeReturns` and `BatchReturns`: fairness and ENABLED are beyond the prover;
* what the fairness of one component takes from another (that a probe returns, that a survey does): the
  liveness property of the other says it;
* the violations of section 4: a counterexample is a behaviour of a small instance, and it needs no theorem.

## 6. What is not modelled

* The early-return mode of `attemptAddresses`: only an HTTP dial that is not pinned
  would use it, and every HTTP dial is.
* Which connection is kept when several succeed at once, and what quic-go does
  with the UDP socket it is given: no verdict depends on the first, and `src/` does not
  show the second.
* The HTTP probe's redirects, headers and TLS facts; the facts that make up a view's detail in
  compare: data no property tells apart.
* `parseTargets`, which refuses a file that names one slug or one target twice: Batch
  starts from targets with slugs of their own. A slug of the file's own choosing that is the
  name of another target's state file is left out.
* JSON, text output, arguments, option validation, `ParseTarget`, timings and
  durations: conversions, wording and layout. A hash collision of experiment IDs.
* Type aliases, constants and the version: no behaviour.

`PROJECT.json` lists each hazard at its line, with the properties that watch it
or the reason why none does.

## 7. Plan

Done: SurveyLog, Runner, RunnerProps, SharedState; Experiments, Policies, Infer,
Survey, SurveyProps; Probe, Attempts, UDPProbe, DNSProbe, HTTPProbe, ProbeContract, ProbeSet;
Batch, Reports, BatchProps; the proofs of section 5.

What would come next:

* That Survey refines SurveyLog. Runner does, and a survey's recorded experiments are shown to be new
  (`NoRepeatsAlways`) and within the budget (`SurveyTyped`); but Survey begins with a survey underway and does not
  keep where its run began, so that the mapping needs a history variable for the kept log.
* That Runner, under a built-in policy, refines Survey: Runner's results do not have the statuses a
  policy reads, so its slots and observations would have to carry them. Until then the step from one to the other rests on
  `LogFollowsRounds`: results are recorded in the order of their proposals, whatever ends first.
