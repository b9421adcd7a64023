--------------------------- MODULE ProbeContract ---------------------------
(***************************************************************************)
(* What a probe promises the runner (docs/probe-contract.md): it gathers   *)
(* what the network tells it and reports once, a status that something it  *)
(* has heard supports.                                                     *)
(***************************************************************************)
EXTENDS Integers

VARIABLES
    heard,     \* what has been heard: pass, fail, timeout, unknown
    verdict,   \* the status reported, "none" before
    laxity     \* none, or what the probe may get wrong: one that merges may
               \* call timeouts a failure, one that spoils may lose an answer

vars == <<heard, verdict, laxity>>

Heard == {"pass", "fail", "timeout", "unknown"}

Init ==
    /\ heard = {}
    /\ verdict = "none"
    /\ laxity \in {"none", "merges", "spoils"}

Hear ==
    /\ verdict = "none"
    /\ heard' \in SUBSET Heard
    /\ heard \subseteq heard'
    /\ UNCHANGED <<verdict, laxity>>

\* An answer is never lost, a failure or a timeout never invented, and
\* without a word from the network the probe has been skipped.
Supported(v, h) ==
    /\ v = "skipped" <=> h = {}
    /\ v = "pass" => "pass" \in h
    /\ "pass" \in h => v = "pass" \/ laxity = "spoils"
    /\ v = "fail" => "fail" \in h \/ laxity = "merges"
    /\ v = "timeout" => "timeout" \in h
    /\ v = "unknown" => "unknown" \in h

Report ==
    /\ verdict = "none"
    /\ \E more \in SUBSET Heard :
          /\ heard' = heard \cup more
          /\ verdict' \in Heard \cup {"skipped"}
          /\ Supported(verdict', heard')
    /\ UNCHANGED laxity

Next == Hear \/ Report

Spec == Init /\ [][Next]_vars
=============================================================================
