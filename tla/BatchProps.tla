----------------------------- MODULE BatchProps -----------------------------
(***************************************************************************)
(* What a batch leaves behind, and what fairy compare reads in it.         *)
(***************************************************************************)
EXTENDS Batch, Reports

CONSTANTS
    Other   \* the reports of the same targets on another network

\* A report as it is decoded: host and run come from its metadata.  The record
\* of a failure decodes, too, as a report without observations.
Decoded(t, r, body) ==
    [slug |-> t, run |-> r,
     obs      |-> IF body = NoReport THEN << >> ELSE body.obs,
     findings |-> IF body = NoReport THEN {} ELSE body.findings]

\* sort.Strings(files): "-run1.json" comes before ".json".
NamesInOrder ==
    {p \in Names \X Names :
        \/ p[1][1] < p[2][1]
        \/ p[1][1] = p[2][1] /\ p[1][2] # 0 /\ (p[2][2] = 0 \/ p[1][2] < p[2][2])}

Present == {n \in Names : files[n] # Absent}

\* One file that does not parse makes the directory unreadable, and so does
\* finding none.
DirectoryLoads == Present # {} /\ \A n \in Present : files[n] # Torn

\* The set of reports the directory holds.
Directory ==
    LET names    == Ordered(Present, NamesInOrder)
        RunOf(n) == IF n[2] = 0 THEN 1 ELSE n[2]
    IN  Load([i \in DOMAIN names |->
                 Decoded(names[i][1], RunOf(names[i]), files[names[i]].body)])

\* One line that does not parse makes the stream unreadable.
StreamLoads == \A i \in DOMAIN stream : stream[i] # Torn

\* The set of reports in the stream.
Streamed ==
    Load([i \in DOMAIN stream |->
             Decoded(stream[i].job[1], stream[i].job[2], stream[i].body)])

-----------------------------------------------------------------------------

\* Whatever the order in which the surveys of a batch end, the directory and
\* the stream are the same set of reports to compare: if the batch has failed
\* at nothing, not even at what it ignores, and the directory held no report
\* under a name the batch does not use.
StreamMatchesDirectory ==
    exit = 0 /\ faults = 0
        /\ (\A n \in Names \ {FileOf(j) : j \in AllJobs} : files[n] = Absent)
        => DirectoryLoads /\ StreamLoads /\ Directory = Streamed

\* fairy compare tells the same differences whichever set comes first.
CompareIsDual ==
    exit \in {0, 1} /\ DirectoryLoads =>
        Compare(Other, Directory) = Dual(Compare(Directory, Other))

\* A batch comes to an end, interrupted or not, unless the process dies.
BatchReturns == <>(exit # Running)

\* "reports per-target failures with a non-zero exit code" (CHANGELOG.md): a
\* batch that exits with 0 has surveyed every target.
ExitTellsFailures == exit = 0 => \A j \in AllJobs : found[j] \in Surveys
=============================================================================
