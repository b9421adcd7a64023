------------------------------ MODULE ProbeSet ------------------------------
(***************************************************************************)
(* The probe set of a survey (internal/runner.go): an experiment goes to   *)
(* the probe of its layer, and whichever it is comes back with one         *)
(* observation.                                                            *)
(***************************************************************************)
EXTENDS Attempts, UDPProbe, DNSProbe, HTTPProbe

vars == <<probeVars, attemptVars, udpOwnVars, queryVars, failoverVars>>

Init ==
    \/ AttemptsInit /\ UDPIdle /\ DNSIdle /\ HTTPIdle
    \/ UDPInit /\ AttemptsIdle /\ DNSIdle /\ HTTPIdle
    \/ DNSInit /\ AttemptsIdle /\ UDPIdle /\ HTTPIdle
    \/ HTTPInit /\ AttemptsIdle /\ UDPIdle /\ DNSIdle

Next ==
    \/ AttemptsNext /\ UNCHANGED <<udpOwnVars, queryVars, failoverVars>>
    \/ UDPNext /\ UNCHANGED <<attemptVars, queryVars, failoverVars>>
    \/ DNSNext /\ UNCHANGED <<attemptVars, udpOwnVars, failoverVars>>
    \/ HTTPNext /\ UNCHANGED <<attemptVars, udpOwnVars, queryVars>>

Spec == Init /\ [][Next]_vars

\* What each probe does without the help of the network, and the timer of
\* its layer's budget.
Fairness ==
    /\ WF_vars(AttemptsProgress /\ UNCHANGED <<udpOwnVars, queryVars, failoverVars>>)
    /\ WF_vars(UDPProgress /\ UNCHANGED <<attemptVars, queryVars, failoverVars>>)
    /\ WF_vars(DNSProgress /\ UNCHANGED <<attemptVars, udpOwnVars, failoverVars>>)
    /\ WF_vars(HTTPProgress /\ UNCHANGED <<attemptVars, udpOwnVars, queryVars>>)
    /\ WF_vars(layer \in AttemptLayers \cup {"udp"} /\ Deadline
               /\ UNCHANGED <<attemptVars, udpOwnVars, queryVars, failoverVars>>)

FairSpec == Spec /\ Fairness
-----------------------------------------------------------------------------

\* Every variable holds what the code's declaration of it allows.
TypeOK ==
    /\ layer \in AttemptLayers => AttemptsTypeOK
    /\ layer = "udp" => UDPTypeOK
    /\ layer = "dns" => DNSTypeOK
    /\ layer = "http" => HTTPTypeOK

\* A probe comes back although every address may be silent, there are more of
\* them than may be tried at once, and nobody interrupts the survey.
ProbeReturns == <>(pc = "returned")

\* What the network has told a probe so far, in the contract's words.
WordOf(r) == IF r = "addresses" THEN "pass" ELSE IF r = "timeout" THEN "timeout" ELSE "fail"

AllHeard ==
    CASE layer \in AttemptLayers ->
            {StatusOf(r.err) : r \in Outcomes(results) \cup Outcomes(outcomes)}
      [] layer = "udp"  -> IF heard = "silence" THEN {} ELSE {StatusOf(heard)}
      [] layer = "dns"  -> {WordOf(result[f]) : f \in {f \in Families : result[f] # "none"}}
      [] layer = "http" -> {HTTPStatusOf(tried[i]) : i \in DOMAIN tried}

\* Two lookups of the system resolver that both time out make a failure, and
\* a lookup of the public one that fails spoils the other.
Laxity ==
    IF layer # "dns" \/ want # "any" THEN "none"
    ELSE IF resolver = "system" THEN "merges" ELSE "spoils"

Contract == INSTANCE ProbeContract WITH
    heard   <- AllHeard,
    verdict <- IF pc = "returned" THEN status ELSE "none",
    laxity  <- Laxity

\* Every probe keeps the contract: it reports once, and a status that what it
\* has heard supports.
ImplementsContract == Contract!Spec
=============================================================================
