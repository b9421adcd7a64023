------------------------------ MODULE MCBatch ------------------------------
(* Two targets and another network to compare with. *)
EXTENDS BatchProps

Obs(k, s, d) == [key |-> k, status |-> s, detail |-> d]

Whole == [obs |-> <<Obs("dns", "pass", "a"), Obs("tls", "pass", "x"), Obs("tls", "fail", "")>>,
          findings |-> {"healthy"}]
Cut   == [obs |-> <<Obs("dns", "pass", "a")>>, findings |-> {}]

MCSurveys == {Whole}
MCCuts == {Cut}

\* The other network: the first target twice, and a host of its own.
Flaky(r, s) ==
    [slug |-> 1, run |-> r, findings |-> {"tls_failure"},
     obs |-> <<Obs("dns", s, "b"), Obs("tls", "fail", "x"), Obs("udp", "timeout", "")>>]

MCOther ==
    [s \in {1, 3} |->
        IF s = 1 THEN <<Flaky(1, "pass"), Flaky(2, "fail")>>
        ELSE <<[slug |-> 3, run |-> 1, obs |-> << >>, findings |-> {}]>>]
=============================================================================
