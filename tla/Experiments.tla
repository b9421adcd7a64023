---------------------------- MODULE Experiments ----------------------------
(***************************************************************************)
(* Experiments and what a survey records of them (internal/model).         *)
(*                                                                         *)
(* An experiment is a record of its canonical fields.  Its ID is a hash of *)
(* exactly those fields, so here the record is its own identity.  A target *)
(* is a host, a port and whether its scheme implies TLS.                   *)
(*                                                                         *)
(* An observation keeps of its evidence and address outcomes only what the *)
(* policies and the inference ask of them: a set of marks.                 *)
(***************************************************************************)
EXTENDS Integers, Sequences, FiniteSets

CONSTANTS
    Target,     \* the survey's target: [host, port, https]
    Control     \* the control target of the factorial policy

ASSUME TargetAssumption ==
    /\ Target \in [host : {"target"}, port : 0..65535, https : BOOLEAN]
    /\ Control \in [host : {"control"}, port : 0..65535, https : BOOLEAN]

Layers   == {"dns", "tcp", "tls", "http", "udp", "quic"}
Statuses == {"pass", "fail", "timeout", "skipped", "unknown"}
Families == {"ipv4", "ipv6", "any"}

\* Mutant: QUIC is forgotten.
DefaultTransportNoQUIC ==
    [l \in Layers |-> CASE l \in {"dns", "udp"} -> "udp"
                        [] l \in {"tcp", "tls", "http"} -> "tcp"
                        [] OTHER -> ""]

DefaultTransport ==
    [l \in Layers |-> IF l \in {"dns", "udp"} THEN "udp"
                      ELSE IF l = "quic" THEN "quic" ELSE "tcp"]

\* The defaults Normalize fills in before it derives the ID.
Normalize(e) ==
    [layer |-> e.layer, target |-> e.target, alpn |-> e.alpn, sni |-> e.sni,
     family    |-> IF e.family # "" THEN e.family
                   ELSE IF e.layer = "dns" THEN "any" ELSE "ipv4",
     transport |-> IF e.transport # "" THEN e.transport ELSE DefaultTransport[e.layer],
     resolver  |-> IF e.resolver # "" \/ e.layer # "dns" THEN e.resolver ELSE "system",
     payload   |-> IF e.payload # 0 \/ e.layer # "udp" THEN e.payload ELSE 16]

Draft(layer, target, family, resolver, alpn, sni, payload) ==
    [layer |-> layer, target |-> target, family |-> family, transport |-> "",
     resolver |-> resolver, alpn |-> alpn, sni |-> sni, payload |-> payload]

NewDNS(t, resolver) == Normalize(Draft("dns", t, "any", resolver, "", "", 0))
NewTCP(t, f)        == Normalize(Draft("tcp", t, f, "", "", "", 0))
NewTLS(t, f, alpn, sni) == Normalize(Draft("tls", t, f, "", alpn, sni, 0))
NewHTTP(t, f, alpn)     == Normalize(Draft("http", t, f, "", alpn, "", 0))
NewUDP(t, f, payload)   == Normalize(Draft("udp", t, f, "", "", "", payload))
NewQUIC(t, f, sni)      == Normalize(Draft("quic", t, f, "", "h3", sni, 0))

WithPort(t, port) == [t EXCEPT !.port = port]

Targets    == {Target, Control, WithPort(Target, 80)}
Transports == {"tcp", "udp", "quic"}
Resolvers  == {"", "system", "public"}
ALPNs      == {"", "h3", "http/1.1"}
SNIs       == {"", "none", "www.example.com"}
Payloads   == {0, 16, 512, 1400}

Experiment ==
    [layer : Layers, target : Targets, family : Families, transport : Transports,
     resolver : Resolvers, alpn : ALPNs, sni : SNIs, payload : Payloads]

-----------------------------------------------------------------------------

(* The marks an observation may carry:                                     *)
(*   v4, v6              families with an address in a DNS answer          *)
(*   authoritative       a DNS error with rcode NXDOMAIN or SERVFAIL       *)
(*   refused             tcp_refused, or udp_refused on QUIC               *)
(*   alert, reset        a TLS alert; a reset during the handshake         *)
(*   certificate, unknown_authority  a certificate error, and its class    *)
(*   rejected            an http_status of 400 or more                     *)
(*   partly_failed, partly_timed_out  some addresses passed, others not    *)
Marks == {"v4", "v6", "authoritative", "refused", "alert", "reset", "certificate",
          "unknown_authority", "rejected", "partly_failed", "partly_timed_out"}

Observation == [exp : Experiment, status : Statuses, marks : SUBSET Marks]

\* What stands for the nil observation.
Nothing == [exp |-> Draft("dns", Target, "", "", "", "", 0), status |-> "none", marks |-> {}]

Seen(o)   == o.status # "none"
Passed(o) == o.status = "pass"

HasExperiment(obs, e) == \E i \in DOMAIN obs : obs[i].exp = e

\* The observations of a layer and, unless it is "", of one family.
Of(obs, layer, family) ==
    {i \in DOMAIN obs : /\ obs[i].exp.layer = layer
                        /\ family = "" \/ obs[i].exp.family = family}

\* The last of some observations.
LastOf(obs, is) ==
    IF is = {} THEN Nothing
    ELSE obs[CHOOSE i \in is : \A j \in is : j <= i]
=============================================================================
