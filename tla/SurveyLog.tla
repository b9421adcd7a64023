----------------------------- MODULE SurveyLog -----------------------------
(***************************************************************************)
(* What a restartable survey promises its caller, with nothing of how it   *)
(* is run.  A survey is a log of experiments, each recorded at most once.  *)
(* While a survey is open its log grows by whole rounds only; what is kept *)
(* between two processes is always such a log, and a later process only    *)
(* ever continues it.  Runner.tla is shown to implement this module.       *)
(***************************************************************************)
EXTENDS Integers, Sequences, FiniteSets

CONSTANTS
    Ids,   \* the experiment identities
    Caps   \* the probe budgets a survey may be opened with

VARIABLES
    open,  \* is a survey underway?
    cap,   \* the longest log the survey underway may reach
    log,   \* the experiments the survey underway has recorded, oldest first
    kept   \* the experiments of the state on disk

svars == <<open, cap, log, kept>>

IsLog(s) ==
    /\ s \in Seq(Ids)
    /\ \A i, j \in 1..Len(s) : s[i] = s[j] => i = j

Extends(s, t) ==
    /\ Len(s) <= Len(t)
    /\ \A i \in 1..Len(s) : t[i] = s[i]

Init ==
    /\ open = FALSE
    /\ cap = 0
    /\ log = << >>
    /\ kept = << >>

\* A survey starts from nothing: whatever was kept is abandoned.
Begin ==
    /\ ~open
    /\ open' = TRUE
    /\ cap' \in Caps
    /\ log' = << >>
    /\ kept' = << >>

\* A survey continues the kept log.
Continue ==
    /\ ~open
    /\ open' = TRUE
    /\ cap' \in Caps
    /\ log' = kept
    /\ UNCHANGED kept

\* One round: at least one experiment, none of them recorded before, within
\* the budget, all of them at once.
Grow ==
    /\ open
    /\ IsLog(log')
    /\ Extends(log, log')
    /\ Len(log) < Len(log')
    /\ Len(log') <= cap
    /\ UNCHANGED <<open, cap, kept>>

\* The survey ends and its log replaces the kept one, which it continues.
Keep ==
    /\ open
    /\ kept' = log
    /\ open' = FALSE
    /\ cap' = 0
    /\ log' = << >>

\* The survey ends (or its process dies) and what it recorded since is lost.
Drop ==
    /\ open
    /\ open' = FALSE
    /\ cap' = 0
    /\ log' = << >>
    /\ UNCHANGED kept

Next == Begin \/ Continue \/ Grow \/ Keep \/ Drop

Spec == Init /\ [][Next]_svars
=============================================================================
