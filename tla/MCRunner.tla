------------------------------ MODULE MCRunner ------------------------------
(* Instances of the runner for TLC. *)
EXTENDS RunnerProps

CONSTANTS dns, dnsAgain, tcp4, tcp6

\* dns and dnsAgain are written differently and normalize to one experiment.
MCDrafts == {dns, dnsAgain, tcp4, tcp6}
MCIdOf   == [d \in MCDrafts |-> IF d = dnsAgain THEN dns ELSE d]

\* Nothing, a repetition within the batch, and two overlapping batches.
MCProposals ==
    {<< >>, <<dns, dnsAgain, tcp4>>, <<tcp6, tcp4>>, <<tcp4, tcp6, dnsAgain>>}
=============================================================================
