----------------------------- MODULE SurveyProps -----------------------------
(***************************************************************************)
(* What the policies, the runner's loop and the inference promise together.*)
(***************************************************************************)
EXTENDS Survey

\* Every variable holds what the code's declaration of it allows.
TypeOK ==
    /\ pc \in {"loop", "record", "reported"}
    /\ policy \in PolicyNames
    /\ observations \in Seq(Observation)
    /\ batch \in Seq(Experiment)
    /\ budget \in Nat
    /\ round \in 0..MaxRounds
    /\ findings \subseteq Finding
    /\ ran \subseteq PolicyNames
    /\ resumes \in 0..MaxResumes

-----------------------------------------------------------------------------
(* The policies *)

\* A policy is done exactly when it has nothing to propose, in every state a
\* survey reaches, one begun under another policy included.  So the loop's
\* "nothing new to learn; avoid spinning" exit is never what ends a survey,
\* and no survey ends with an experiment still to run.
DoneExactly ==
    pc = "loop" /\ budget > 0 => (Done(policy, observations) <=> Proposal = << >>)

\* "Proposals already recorded in the state are never repeated"
\* (policy/policy.go): what a policy proposes is new, free of repetitions and
\* within the budget, so the runner's own filter has nothing left to drop.
ProposalsAreNew ==
    pc = "loop" /\ budget > 0 =>
        /\ IsInjective(Proposal)
        /\ Len(Proposal) <= budget
        /\ \A i \in DOMAIN Proposal : ~HasExperiment(observations, Proposal[i])

\* An earlier observation of the layer, on this target and family, passed.
PassedBefore(n, layer) ==
    \E i \in 1..(n - 1) :
        /\ Passed(observations[i])
        /\ observations[i].exp.layer = layer
        /\ observations[i].exp.target = observations[n].exp.target
        /\ layer # "dns" => observations[i].exp.family = observations[n].exp.family

\* What has to pass before a probe of a layer makes sense.
Prerequisite ==
    [l \in Layers |-> IF l = "dns" THEN {}
                      ELSE IF l = "tls" THEN {"tcp"}
                      ELSE IF l = "http" THEN {IF Target.https THEN "tls" ELSE "tcp"}
                      ELSE {"dns"}]

\* "Dependent probes run only when their prerequisites pass" (policy/fast.go).
PrerequisitesMet ==
    \A n \in DOMAIN observations :
        \A l \in Prerequisite[observations[n].exp.layer] : PassedBefore(n, l)

\* ... in a survey that only the fast policy has run.
FastPrerequisitesMet == ran = {"fast"} => PrerequisitesMet

\* A survey by the fast policy settles on one family above TCP: it never
\* runs a second TLS handshake, HTTP request or QUIC handshake, however its
\* budget has cut its rounds and however often it was resumed.
FastTakesOnePath ==
    ran = {"fast"} =>
        \A l \in {"tls", "http", "quic"} : Cardinality(Of(observations, l, "")) <= 1

\* An adaptive survey that is done has explained each TLS failure over a
\* working TCP path, those of a fast survey it has resumed included: some
\* variant of the handshake passed there, or both the handshake without SNI
\* and the one without h2 failed as well.
AdaptiveExplains ==
    /\ ran \subseteq {"fast", "adaptive"} /\ policy = "adaptive"
    /\ pc = "loop" /\ Done(policy, observations)
    =>
        \A n \in Of(observations, "tls", "") :
            LET family   == observations[n].exp.family
                variants == Of(observations, "tls", family)
            IN  Failed(observations[n]) /\ PassedBefore(n, "tcp") =>
                    \/ \E i \in variants : Passed(observations[i])
                    \/ \A e \in {NewTLS(Target, family, "", "none"),
                                 NewTLS(Target, family, "http/1.1", "")} :
                          HasExperiment(observations, e)

\* "Pairwise orthogonal: every pair of columns covers all 9 level
\* combinations exactly once" (policy/taguchi.go), of the experiments a
\* finished Taguchi survey has recorded, and not only of the table: neither
\* the mapping onto experiments nor the identities lose one.  A bound under
\* the nine rows of the table cuts the design short.
TaguchiLevel(e, column) ==
    IF column = 1 THEN e.family ELSE IF column = 2 THEN e.transport
    ELSE IF column = 3 THEN e.sni ELSE e.payload

TaguchiCovers ==
    MaxCandidates >= Len(L9) /\ ran = {"taguchi"} /\ pc = "loop" /\ Done(policy, observations) =>
        \A a, b \in 1..4 : a < b =>
            Cardinality({<<TaguchiLevel(observations[i].exp, a),
                           TaguchiLevel(observations[i].exp, b)>> : i \in DOMAIN observations})
                = 9

\* What fairy compare keys an observation by: its layer and address family
\* (cmd/fairy/compare.go).
ViewKey(e) == <<e.layer, IF e.family = "any" THEN "" ELSE e.family>>

\* The first observation of each key is what fairy compare takes of a report:
\* that of the default experiment on the survey's own target, and never of a
\* variant, another port or the control target, however often the survey was
\* cut short and resumed.
ViewsAreDefault ==
    ran \subseteq {"fast", "adaptive"} =>
        \A n \in DOMAIN observations :
            LET e == observations[n].exp
            IN  \/ IsCanonical(e) /\ e.target = Target
                \/ \E i \in 1..(n - 1) : ViewKey(observations[i].exp) = ViewKey(e)

-----------------------------------------------------------------------------
(* The inference *)

\* The experiments an ordinary survey of the target runs.
IsDefault(e) == IsCanonical(e) /\ e.target = Target

\* A default TLS handshake was not even attempted.
TLSSkipped ==
    \E i \in DOMAIN observations :
        /\ observations[i].exp.layer = "tls"
        /\ IsDefault(observations[i].exp)
        /\ observations[i].status = "skipped"

\* No failure is passed over in silence: a report on a default TLS, UDP or
\* QUIC probe that failed has some finding, and not a healthy path, whatever
\* the budgets and resumptions have left out and whatever was found of the
\* other layers.  The exception is a skipped handshake, which the adaptive
\* policy follows up like a failed one and the inference does not count: the
\* default handshake on the other family may then fail without its TCP.
FailuresAreNamed ==
    /\ pc = "reported" /\ ran \subseteq {"fast", "adaptive"} /\ ~TLSSkipped
    /\ \E i \in DOMAIN observations :
          /\ observations[i].exp.layer \in {"tls", "udp", "quic"}
          /\ IsDefault(observations[i].exp)
          /\ Failed(observations[i])
    => KindsOf(findings) \notin {{}, {"path_healthy"}}

\* "A follow-up variant that happens to pass must not erase the verdict of
\* the default experiment" (infer/infer.go): what the default experiments
\* alone, in their order, would have told is still among the findings.
VerdictsStand ==
    pc = "reported" =>
        KindsOf(Inferred(RestrictValues(observations, LAMBDA o : IsDefault(o.exp))))
            \ {"path_healthy"}
        \subseteq KindsOf(findings)

\* ... but for the connection to port 80: a survey of the fast and the
\* adaptive policy that never left the target's own port keeps them all.
VerdictsStandOnPort ==
    /\ ran \subseteq {"fast", "adaptive"}
    /\ \A i \in DOMAIN observations : observations[i].exp.target = Target
    => VerdictsStand

\* "All probed layers passed" (infer/infer.go) is what path_healthy says.
HealthyMeansPassed ==
    "path_healthy" \in KindsOf(findings) =>
        \A i \in DOMAIN observations : Passed(observations[i])
=============================================================================
