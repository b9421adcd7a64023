----------------------------- MODULE RunnerProps -----------------------------
(***************************************************************************)
(* The properties of the runner that relate its history to its state, the  *)
(* liveness of a survey, and the refinement of SurveyLog.                  *)
(***************************************************************************)
EXTENDS Runner, SequencesExt

\* The state is explained by its rounds: read one after the other, the
\* rounds' proposals name the observations in order (results are recorded in
\* proposal order, never in completion order; no observation is lost or left
\* at its zero value), and the rounds are numbered 0, 1, 2, ... across
\* resumes.  This is so wherever the state can be seen outside RunSurvey.
RoundsExplain(s) ==
    /\ FlattenSeq([k \in DOMAIN s.rounds |-> s.rounds[k].proposed])
          = [i \in DOMAIN s.observations |-> s.observations[i].id]
    /\ \A k \in DOMAIN s.rounds : s.rounds[k].index = k - 1
    /\ s.round = Len(s.rounds)

LogFollowsRounds ==
    /\ pc \in {"idle", "loop", "report", "reported", "saving", "failed"}
          => RoundsExplain([observations |-> observations, rounds |-> rounds, round |-> counter])
    /\ RoundsExplain(saved)

\* "Completed experiments are immutable" (fairy.go): while a process lives
\* no observation it has recorded changes or goes away, and a state written
\* over an earlier one continues it.
HistoryImmutable ==
    [][/\ pc # "idle" /\ pc' # "idle" =>
              IsPrefix(observations, observations')
       /\ pc = "saving" /\ file' = "whole" =>
              IsPrefix(saved.observations, saved'.observations)]_vars

\* A survey comes back to its caller whatever the policy does: the policy
\* may propose forever, and the deadline need not pass.
SurveyReturns ==
    pc \in {"loop", "dedupe", "batch", "record", "report"}
        ~> pc \in {"reported", "failed", "idle"}

\* "AddObservation records a completed observation" (internal/model/types.go).
OnlyCompletedRecorded ==
    \A i \in DOMAIN observations :
        observations[i].how # "unattempted"

-----------------------------------------------------------------------------
(* The runner implements SurveyLog. The log grows when a round ends: the   *)
(* observations recorded since the round's Wait are not part of it yet.    *)

Committed ==
    [i \in 1..(Len(observations) - recorded) |-> observations[i].id]

Log == INSTANCE SurveyLog WITH
          Caps <- {Fill(n) : n \in MaxProbesGiven},
          open <- pc # "idle",
          log  <- Committed,
          kept <- [i \in DOMAIN saved.observations |-> saved.observations[i].id]

\* What the runner does is what a restartable log may do.
ImplementsLog == Log!Spec

=============================================================================
