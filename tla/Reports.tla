------------------------------ MODULE Reports ------------------------------
(***************************************************************************)
(* How fairy compare reads two sets of reports and what it makes of them   *)
(* (cmd/fairy/compare.go).  Pure operators: a set of reports is a function *)
(* from the hosts it holds to the runs of each, in the order of their run  *)
(* numbers, and a report is a record                                       *)
(*                                                                         *)
(*    [slug, run, obs, findings]                                           *)
(*                                                                         *)
(* whose observations are records [key, status, detail]: the key is the    *)
(* layer with the address family, if there is one.                         *)
(***************************************************************************)
EXTENDS Integers, FiniteSets

-----------------------------------------------------------------------------
(* Loading *)

\* The members of a set one after another, as a set of pairs orders them.
Ordered(S, before) ==
    [k \in 1..Cardinality(S) |->
        CHOOSE x \in S : Cardinality({y \in S : <<y, x>> \in before}) = k - 1]

\* Mutant: the runs of a host stay as they come.
ByRunUnsorted(reports) == {p \in (DOMAIN reports) \X (DOMAIN reports) : p[1] < p[2]}

\* sort.SliceStable by RunIndex.
ByRun(reports) ==
    {p \in (DOMAIN reports) \X (DOMAIN reports) :
        \/ reports[p[1]].run < reports[p[2]].run
        \/ reports[p[1]].run = reports[p[2]].run /\ p[1] < p[2]}

\* loadReportSet: the runs of each host, in the order of their numbers.
Load(reports) ==
    LET RunsOf(s) == {i \in DOMAIN reports : reports[i].slug = s}
        Sorted(s) == Ordered(RunsOf(s), ByRun(reports))
    IN  [s \in {reports[i].slug : i \in DOMAIN reports} |->
            [k \in DOMAIN Sorted(s) |-> reports[Sorted(s)[k]]]]

-----------------------------------------------------------------------------
(* Comparing *)

Keys(report) == {report.obs[i].key : i \in DOMAIN report.obs}

\* views: the first observation of each key stands for it.
View(report, k) ==
    LET first == CHOOSE i \in DOMAIN report.obs :
                    /\ report.obs[i].key = k
                    /\ \A j \in 1..(i - 1) : report.obs[j].key # k
    IN  [status |-> report.obs[first].status, detail |-> report.obs[first].detail]

NoView == [status |-> "", detail |-> ""]

Change(s, k, kind, va, vb) == [slug |-> s, key |-> k, kind |-> kind, a |-> va, b |-> vb]

\* Mutant: only what A has is looked at.
AllKeysOfA(ra, rb) == Keys(ra)

AllKeys(ra, rb) == Keys(ra) \cup Keys(rb)

\* What has become of a key: a change of status hides one of detail.
ChangesAt(s, k, ra, rb) ==
    IF k \notin Keys(rb) THEN {Change(s, k, "removed", View(ra, k), NoView)}
    ELSE IF k \notin Keys(ra) THEN {Change(s, k, "added", NoView, View(rb, k))}
    ELSE IF View(ra, k).status # View(rb, k).status
    THEN {Change(s, k, "status", View(ra, k), View(rb, k))}
    ELSE IF View(ra, k) # View(rb, k)
    THEN {Change(s, k, "detail", View(ra, k), View(rb, k))} ELSE {}

ObservationChanges(s, ra, rb) ==
    UNION {ChangesAt(s, k, ra, rb) : k \in AllKeys(ra, rb)}

FindingChange(s, ra, rb) ==
    [slug |-> s, added |-> rb.findings \ ra.findings, removed |-> ra.findings \ rb.findings]

\* instability: the keys on whose status the runs of a host disagree.
Unstable(side, s, runs) ==
    LET seen(k) == {View(runs[i], k).status : i \in {i \in DOMAIN runs : k \in Keys(runs[i])}}
        keys    == UNION {Keys(runs[i]) : i \in DOMAIN runs}
    IN  {[side |-> side, slug |-> s, key |-> k, statuses |-> seen(k)] :
            k \in {k \in keys : Cardinality(seen(k)) > 1}}

\* compareSets: the first run of each host in A against its first run in B;
\* a host of one set only is named and left at that.
Compare(A, B) ==
    LET both == DOMAIN A \cap DOMAIN B
        moved == {s \in both : A[s][1].findings # B[s][1].findings}
    IN  [changes  |-> UNION {ObservationChanges(s, A[s][1], B[s][1]) : s \in both},
         onlyInA  |-> DOMAIN A \ DOMAIN B,
         onlyInB  |-> DOMAIN B \ DOMAIN A,
         findings |-> {FindingChange(s, A[s][1], B[s][1]) : s \in moved},
         unstable |-> UNION {Unstable("A", s, A[s]) \cup Unstable("B", s, B[s]) : s \in both}]

-----------------------------------------------------------------------------
(* What a comparison should be *)

OtherKind(kind) ==
    IF kind = "added" THEN "removed" ELSE IF kind = "removed" THEN "added" ELSE kind
OtherSide(side) == IF side = "A" THEN "B" ELSE "A"

\* A comparison read from the other side.
Dual(c) ==
    [changes  |-> {Change(d.slug, d.key, OtherKind(d.kind), d.b, d.a) : d \in c.changes},
     onlyInA  |-> c.onlyInB,
     onlyInB  |-> c.onlyInA,
     findings |-> {[slug |-> f.slug, added |-> f.removed, removed |-> f.added] : f \in c.findings},
     unstable |-> {[side |-> OtherSide(u.side), slug |-> u.slug, key |-> u.key,
                    statuses |-> u.statuses] : u \in c.unstable}]
=============================================================================
