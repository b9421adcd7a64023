---------------------------- MODULE SharedState ----------------------------
(***************************************************************************)
(* Several resumes of one SurveyState value (fairy.go).  Resume copies the *)
(* struct, but the copy's slice of observations still points to the same   *)
(* array: append writes into it while its capacity lasts, and only then    *)
(* moves to an array of its own.                                           *)
(***************************************************************************)
EXTENDS Integers, Sequences

CONSTANTS
    Value,        \* the state passed to Resume
    Resumes,      \* the resumes of it
    Experiments,  \* what a policy may propose
    Results,      \* what a probe may observe
    Capacities,   \* of the value's slice, as decoding a saved state leaves it
    Unused        \* a cell nothing has been written to

VARIABLES
    arrays,  \* the arrays that have been allocated, each a sequence of cells
    slice,   \* the observations of each state: [array, len], array 0 before
    report   \* Report.Observations of each resume, << >> before

vars == <<arrays, slice, report>>

Observation == [exp : Experiments, result : Results]

\* The observations a state shows.
Shown(s) == IF slice[s].array = 0 THEN << >> ELSE SubSeq(arrays[slice[s].array], 1, slice[s].len)

\* LoadState has decoded a state with some observations.
Init ==
    /\ \E cap \in Capacities, o \in Observation :
          arrays = <<[i \in 1..cap |-> IF i = 1 THEN o ELSE Unused]>>
    /\ slice = [s \in Resumes \cup {Value} |->
                   IF s = Value THEN [array |-> 1, len |-> 1] ELSE [array |-> 0, len |-> 0]]
    /\ report = [s \in Resumes |-> << >>]

\* st := state
Resume(s) ==
    /\ slice[s].array = 0
    /\ slice' = [slice EXCEPT ![s] = slice[Value]]
    /\ UNCHANGED <<arrays, report>>

HasExperiment(s, e) == \E i \in 1..Len(Shown(s)) : Shown(s)[i].exp = e

\* append, with room ...
Written(a, n, o) == [arrays EXCEPT ![a][n] = o]

\* ... and without: a copy, twice as long.
Grown(a, n, o) ==
    Append(arrays, [i \in 1..(2 * n) |-> CASE i < n -> arrays[a][i] [] i = n -> o [] OTHER -> Unused])

\* AddObservation
AddObservation(s, o) ==
    LET a == slice[s].array
        n == slice[s].len + 1
    IN  /\ a # 0 /\ report[s] = << >>
        /\ ~HasExperiment(s, o.exp)
        /\ IF n <= Len(arrays[a])
           THEN /\ arrays' = Written(a, n, o)
                /\ slice' = [slice EXCEPT ![s].len = n]
           ELSE /\ arrays' = Grown(a, n, o)
                /\ slice' = [slice EXCEPT ![s] = [array |-> Len(arrays) + 1, len |-> n]]
        /\ UNCHANGED report

\* The report's own observations are a copy; its state is the slice.
Return(s) ==
    /\ slice[s].array # 0
    /\ report[s] = << >>
    /\ report' = [report EXCEPT ![s] = Shown(s)]
    /\ UNCHANGED <<arrays, slice>>

Next ==
    \E s \in Resumes :
        \/ Resume(s) \/ Return(s)
        \/ \E o \in Observation : AddObservation(s, o)

Spec == Init /\ [][Next]_vars
-----------------------------------------------------------------------------

\* "Every completed observation is immutable" (internal/model/types.go): what
\* a state shows once it shows for ever, whoever else goes on from the same
\* value.
RecordedStays ==
    [][\A s \in Resumes \cup {Value} :
          /\ Len(Shown(s)) <= Len(Shown(s)')
          /\ Shown(s) = SubSeq(Shown(s)', 1, Len(Shown(s)))]_vars
=============================================================================
