-------------------------------- MODULE Infer --------------------------------
(***************************************************************************)
(* The inference of findings from a survey's observations (infer/infer.go).*)
(* A finding is its kind, its confidence and the experiments it cites.     *)
(***************************************************************************)
EXTENDS Experiments

FindingKinds ==
    {"dns_failure", "ipv6_path_failure", "tcp_unreachable", "tls_specific_failure",
     "udp_unavailable", "quic_unavailable", "http_application_rejection",
     "possible_proxy_interference", "partial_address_failure", "path_healthy"}

Confidences == {"confirmed", "likely", "possible"}

Finding == [kind : FindingKinds, confidence : Confidences, evidence : SUBSET Experiment]

\* A finding, in a set of its own where it applies.
Find(applies, kind, confidence, cited) ==
    IF ~applies THEN {}
    ELSE {[kind |-> kind, confidence |-> confidence,
           evidence |-> {o.exp : o \in {o \in cited : Seen(o)}}]}

\* The default variant of a layer, whatever its target.
IsCanonical(e) ==
    /\ e.sni = ""
    /\ IF e.layer = "dns" THEN e.resolver \in {"", "system"}
       ELSE IF e.layer = "quic" THEN e.alpn \in {"", "h3"}
       ELSE e.alpn = ""

\* Mutant: the most recent observation wins.
PickLatest(obs, layer, family) == LastOf(obs, Of(obs, layer, family))

\* The last canonical observation or, without one, the last.
Pick(obs, layer, family) ==
    LET all       == Of(obs, layer, family)
        canonical == {i \in all : IsCanonical(obs[i].exp)}
    IN  LastOf(obs, IF canonical = {} THEN all ELSE canonical)

Attempted(o) == o.status \notin {"skipped", "unknown"}

TCPAllFailed(obs) ==
    LET attempted == {i \in Of(obs, "tcp", "") : Attempted(obs[i])}
    IN  /\ attempted # {}
        /\ \A i \in attempted : ~Passed(obs[i])

FamilyPairFails(v4, v6) == Passed(v4) /\ v6.status \in {"fail", "timeout"}

PassCount(obs) == Cardinality({i \in DOMAIN obs : Passed(obs[i])})

Failed(o) == Seen(o) /\ ~Passed(o) /\ o.status # "skipped"

-----------------------------------------------------------------------------

DNSFailure(dns) ==
    Find(TRUE, "dns_failure",
         IF "authoritative" \in dns.marks THEN "confirmed" ELSE "likely", {dns})

TCPUnreachable(obs) ==
    Find(TRUE, "tcp_unreachable",
         IF \E i \in Of(obs, "tcp", "") : "refused" \in obs[i].marks
         THEN "confirmed" ELSE "likely",
         {Pick(obs, "tcp", "ipv4"), Pick(obs, "tcp", "ipv6")})

\* The first of TCP, TLS and QUIC whose IPv6 half fails.
IPv6PathFailure(obs) ==
    LET fails(l) == FamilyPairFails(Pick(obs, l, "ipv4"), Pick(obs, l, "ipv6"))
        layer == IF fails("tcp") THEN "tcp" ELSE IF fails("tls") THEN "tls" ELSE "quic"
    IN  Find(fails(layer), "ipv6_path_failure", "likely",
             {Pick(obs, layer, "ipv6"), Pick(obs, layer, "ipv4")})

TLSFailure(obs, family) ==
    LET tcp == Pick(obs, "tcp", family)
        tls == Pick(obs, "tls", family)
        fails == Passed(tcp) /\ Failed(tls)
    IN  Find(fails, "tls_specific_failure",
             IF tls.marks \cap {"alert", "certificate"} # {} THEN "confirmed" ELSE "likely",
             {tcp, tls})
        \cup Find(fails /\ tls.marks \cap {"reset", "unknown_authority"} # {},
                  "possible_proxy_interference", "possible", {tcp, tls})

UDPUnavailable(obs) ==
    LET udp == Pick(obs, "udp", "")
    IN  Find(Failed(udp), "udp_unavailable",
             IF udp.status = "fail" THEN "confirmed" ELSE "possible", {udp})

\* Mutant: a timeout is no failure.
QUICUnavailableFail(obs) ==
    LET quic == Pick(obs, "quic", "")
    IN  Find(quic.status = "fail", "quic_unavailable", "likely", {quic})

QUICUnavailable(obs) ==
    LET quic == Pick(obs, "quic", "")
        tcp(f) == Pick(obs, "tcp", f)
    IN  Find(Failed(quic), "quic_unavailable",
             IF "refused" \in quic.marks THEN "confirmed"
             ELSE IF Passed(tcp("ipv4")) \/ Passed(tcp("ipv6")) THEN "likely"
             ELSE "possible", {quic})

HTTPRejection(obs, family) ==
    LET http == Pick(obs, "http", family)
    IN  Find(http.status = "fail" /\ "rejected" \in http.marks,
             "http_application_rejection", "confirmed", {http})

\* The evidence of this one names layers and addresses, no experiment.
PartialAddressFailure(obs) ==
    LET partial == {i \in DOMAIN obs : obs[i].marks \cap {"partly_failed", "partly_timed_out"} # {}}
    IN  Find(partial # {}, "partial_address_failure",
             IF \E i \in partial : "partly_failed" \in obs[i].marks
             THEN "confirmed" ELSE "likely", {})

\* What is found where names resolve and some TCP connection was made.
PathFindings(obs) ==
    IPv6PathFailure(obs)
    \cup TLSFailure(obs, "ipv4") \cup TLSFailure(obs, "ipv6")
    \cup UDPUnavailable(obs) \cup QUICUnavailable(obs)
    \cup HTTPRejection(obs, "ipv4") \cup HTTPRejection(obs, "ipv6")
    \cup PartialAddressFailure(obs)

PathHealthy(obs) ==
    LET dns == Pick(obs, "dns", "")
    IN  Find(/\ Passed(dns)
             /\ Passed(Pick(obs, "tcp", "ipv4")) \/ Passed(Pick(obs, "tcp", "ipv6"))
             /\ PassCount(obs) >= 3,
             "path_healthy", "confirmed",
             {obs[i] : i \in {i \in DOMAIN obs : Passed(obs[i])}})

Inferred(obs) ==
    LET dns == Pick(obs, "dns", "")
    IN  IF obs = << >> THEN {}
        ELSE IF Seen(dns) /\ ~Passed(dns) THEN DNSFailure(dns)
        ELSE IF TCPAllFailed(obs) THEN TCPUnreachable(obs)
        ELSE IF PathFindings(obs) # {} THEN PathFindings(obs)
        ELSE PathHealthy(obs)

KindsOf(findings) == {f.kind : f \in findings}
=============================================================================
