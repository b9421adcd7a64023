------------------------------ MODULE Policies ------------------------------
(***************************************************************************)
(* The built-in policies (policy/*.go): pure functions of the recorded     *)
(* observations, in their order.                                           *)
(***************************************************************************)
EXTENDS Experiments, SequencesExt

CONSTANTS
    PreferIPv6,     \* the families are dialled IPv6 first
    MaxCandidates   \* the bound on a factorial or Taguchi design

\* The constructors put a default in the place of a bound that is not positive.
ASSUME PoliciesAssumption ==
    /\ PreferIPv6 \in BOOLEAN
    /\ MaxCandidates \in Nat /\ MaxCandidates >= 1

Latest(obs, layer, family) == LastOf(obs, Of(obs, layer, family))

\* The families a DNS observation has addresses for: IPv4, conservatively,
\* for an observation without an answer.
ResolvedFamilies(dns) ==
    IF Passed(dns)
    THEN {f \in {"ipv4", "ipv6"} : (IF f = "ipv4" THEN "v4" ELSE "v6") \in dns.marks}
    ELSE {"ipv4"}

One(condition, e) == IF condition THEN <<e>> ELSE << >>

OtherFamily(f) == IF f = "ipv4" THEN "ipv6" ELSE "ipv4"

\* The families to dial, the preferred one first.
OrderedFamilies(resolved) ==
    LET first == IF PreferIPv6 THEN "ipv6" ELSE "ipv4"
    IN  One(first \in resolved, first)
        \o One(OtherFamily(first) \in resolved, OtherFamily(first))

\* Mutant: what is recorded is proposed again.
DedupeBatch(obs, exps, budget) ==
    LET Take(out, e) ==
            IF Len(out) >= budget \/ Contains(out, e) THEN out ELSE Append(out, e)
    IN  FoldLeft(Take, << >>, exps)

\* What is neither recorded nor repeated, in order, up to the budget.  The
\* runner filters a second time in the same way.
DedupeAndCap(obs, exps, budget) ==
    LET Take(out, e) ==
            IF Len(out) >= budget \/ HasExperiment(obs, e) \/ Contains(out, e)
            THEN out ELSE Append(out, e)
    IN  FoldLeft(Take, << >>, exps)

-----------------------------------------------------------------------------
(* Fast: DNS, then TCP on every resolved family and QUIC, then TLS, then    *)
(* HTTP.                                                                    *)

\* TCP on each family that was not tried, in order.
TCPRound(obs, fams) ==
    LET Try(i) == One(i \in DOMAIN fams /\ ~Seen(Latest(obs, "tcp", fams[i])),
                      NewTCP(Target, fams[i]))
    IN  Try(1) \o Try(2)

\* The places of the families that TCP reaches.
Reached(obs, fams) == {i \in DOMAIN fams : Passed(Latest(obs, "tcp", fams[i]))}

\* Mutant: the last family that TCP reaches.
AfterTCPLast(obs, fams) ==
    LET reached == Reached(obs, fams)
        fam     == fams[Max(reached)]
    IN  IF reached = {} THEN << >>
        ELSE IF Target.https /\ ~Seen(Latest(obs, "tls", fam))
        THEN <<NewTLS(Target, fam, "", "")>>
        ELSE One((Target.https => Passed(Latest(obs, "tls", fam)))
                     /\ ~Seen(Latest(obs, "http", fam)),
                 NewHTTP(Target, fam, ""))

\* Mutant: HTTP once TLS was tried.
AfterTCPTried(obs, fams) ==
    LET reached == Reached(obs, fams)
        fam     == fams[Min(reached)]
    IN  IF reached = {} THEN << >>
        ELSE IF Target.https /\ ~Seen(Latest(obs, "tls", fam))
        THEN <<NewTLS(Target, fam, "", "")>>
        ELSE One(~Seen(Latest(obs, "http", fam)), NewHTTP(Target, fam, ""))

\* After the first family, in order, that TCP reaches: TLS, then HTTP.
AfterTCP(obs, fams) ==
    LET reached == Reached(obs, fams)
        fam     == fams[Min(reached)]
        tls     == Latest(obs, "tls", fam)
    IN  IF reached = {} THEN << >>
        ELSE IF Target.https /\ ~Seen(tls) THEN <<NewTLS(Target, fam, "", "")>>
        ELSE One((Target.https => Passed(tls)) /\ ~Seen(Latest(obs, "http", fam)),
                 NewHTTP(Target, fam, ""))

FastPlan(obs) ==
    LET dns  == Latest(obs, "dns", "")
        fams == OrderedFamilies(ResolvedFamilies(dns))
    IN  IF ~Seen(dns) THEN <<NewDNS(Target, "system")>>
        ELSE IF ~Passed(dns) \/ fams = << >> THEN << >>
        ELSE TCPRound(obs, fams)
             \o One(Target.https /\ ~Seen(Latest(obs, "quic", fams[1])),
                    NewQUIC(Target, fams[1], ""))
             \o AfterTCP(obs, fams)

-----------------------------------------------------------------------------
(* Adaptive: the fast tree, then whatever tells apart the explanations of   *)
(* a failure, the cheapest first.                                           *)

\* Mutant: only the preferred family is followed up.
TLSFollowUpsFirst(obs, fams) ==
    IF Passed(Latest(obs, "tcp", fams[1])) /\ Latest(obs, "tls", fams[1]).status = "fail"
    THEN {NewTLS(Target, fams[1], "", "none"), NewTLS(Target, fams[1], "http/1.1", "")}
    ELSE {}

\* Mutant: the other family is tried without SNI.
TLSFollowUpsBare(obs, fams) ==
    UNION {LET other == OtherFamily(f)
           IN  {NewTLS(Target, f, "", "none"), NewTLS(Target, f, "http/1.1", "")}
               \cup IF ~Seen(Latest(obs, "tls", other)) /\ Contains(fams, other)
                    THEN {NewTLS(Target, other, "", "none")} ELSE {}
           : f \in {f \in ToSet(fams) :
                       /\ Passed(Latest(obs, "tcp", f))
                       /\ Seen(Latest(obs, "tls", f))
                       /\ ~Passed(Latest(obs, "tls", f))}}

TLSFollowUps(obs, fams) ==
    UNION {LET other == OtherFamily(f)
           IN  {NewTLS(Target, f, "", "none"), NewTLS(Target, f, "http/1.1", "")}
               \cup IF ~Seen(Latest(obs, "tls", other)) /\ Contains(fams, other)
                    THEN {NewTLS(Target, other, "", "")} ELSE {}
           : f \in {f \in ToSet(fams) :
                       /\ Passed(Latest(obs, "tcp", f))
                       /\ Seen(Latest(obs, "tls", f))
                       /\ ~Passed(Latest(obs, "tls", f))}}

UDPFollowUp(obs, fams) ==
    LET quic == Latest(obs, "quic", fams[1])
    IN  IF Seen(quic) /\ ~Passed(quic) THEN {NewUDP(Target, fams[1], 0)} ELSE {}

HTTPFollowUps(obs, fams) ==
    {NewHTTP(Target, f, "http/1.1")
     : f \in {f \in ToSet(fams) :
                 /\ Target.https => Passed(Latest(obs, "tls", f))
                 /\ Seen(Latest(obs, "http", f))
                 /\ ~Passed(Latest(obs, "http", f))}}

TCPFollowUp(obs, fams) ==
    IF /\ Len(fams) > 1
       /\ Seen(Latest(obs, "tcp", fams[1])) /\ ~Passed(Latest(obs, "tcp", fams[1]))
       /\ ~Seen(Latest(obs, "tcp", fams[2]))
    THEN {NewTCP(Target, fams[2])} ELSE {}

\* Every follow-up of the failures seen so far.
FollowUps(obs) ==
    LET dns  == Latest(obs, "dns", "")
        fams == OrderedFamilies(ResolvedFamilies(dns))
        tcp  == [f \in ToSet(fams) |-> Latest(obs, "tcp", f)]
        reached == \E i \in DOMAIN fams :
                      /\ Passed(tcp[fams[i]])
                      /\ \A j \in 1..i : Seen(tcp[fams[j]])
        askedPublic == \E i \in DOMAIN obs :
                          obs[i].exp.layer = "dns" /\ obs[i].exp.resolver = "public"
    IN  IF ~Seen(dns) THEN {}
        ELSE IF ~Passed(dns)
        THEN IF askedPublic THEN {} ELSE {NewDNS(Target, "public")}
        ELSE TCPFollowUp(obs, fams) \cup
             (IF fams # << >> /\ \A f \in ToSet(fams) : Seen(tcp[f]) /\ ~Passed(tcp[f])
              THEN {NewTCP(WithPort(Target, 80), fams[1])}
              ELSE (IF reached /\ Target.https
                    THEN TLSFollowUps(obs, fams) \cup UDPFollowUp(obs, fams) ELSE {})
                   \cup (IF reached THEN HTTPFollowUps(obs, fams) ELSE {}))

\* Mutant: follow-ups that are recorded count again.
CandidatesAll(obs) == FollowUps(obs)

Candidates(obs) == {e \in FollowUps(obs) : ~HasExperiment(obs, e)}

CostOf(e) == IF e.layer \in {"tls", "http"} THEN 2 ELSE IF e.layer = "quic" THEN 3 ELSE 1

\* Every candidate separates one hypothesis and none is recorded.
Score(e) == 10 - CostOf(e)

\* The order of the canonical strings, where it separates two candidates.
\* A field is followed by '|', which sorts after every letter: so "" is the
\* last of a field's values.
CanonicalRank(e) ==
    LET Rank(s, v) == CHOOSE i \in DOMAIN s : s[i] = v
    IN  1000 * Rank(<<"dns", "http", "quic", "tcp", "tls", "udp">>, e.layer)
        + 100 * Rank(<<"any", "ipv4", "ipv6">>, e.family)
        + 10 * Rank(<<"h3", "http/1.1", "">>, e.alpn)
        + Rank(<<"none", "www.example.com", "">>, e.sni)

Better(a, b) ==
    \/ Score(a) > Score(b)
    \/ Score(a) = Score(b) /\ CanonicalRank(a) < CanonicalRank(b)

\* The first of some candidates in that order, and the first two.
Best(es) == CHOOSE e \in es : \A other \in es : ~Better(other, e)

TopTwo(es) ==
    IF es = {} THEN << >>
    ELSE LET rest == es \ {Best(es)}
         IN  <<Best(es)>> \o One(rest # {}, Best(rest))

AdaptiveProposal(obs, budget) ==
    LET base == DedupeAndCap(obs, FastPlan(obs), budget)
    IN  IF base # << >> THEN base
        ELSE DedupeAndCap(obs, TopTwo(Candidates(obs)), budget)

-----------------------------------------------------------------------------
(* Factorial and Taguchi: fixed designs.                                    *)

Bounded(exps) == IF Len(exps) > MaxCandidates THEN SubSeq(exps, 1, MaxCandidates) ELSE exps

\* family x transport x {target, control}, in the order of the loops.
FactorialPlan ==
    LET Cell(f, tr, t) == IF tr = "tcp" THEN NewTCP(t, f) ELSE NewQUIC(t, f, "")
        Row(f) == <<Cell(f, "tcp", Target), Cell(f, "tcp", Control),
                    Cell(f, "quic", Target), Cell(f, "quic", Control)>>
    IN  Bounded(Row("ipv4") \o Row("ipv6"))

\* Mutant: a level of the orthogonal array is wrong.
L9Wrong ==
    <<<<1, 1, 1, 1>>, <<1, 2, 2, 2>>, <<1, 3, 3, 3>>,
      <<2, 1, 2, 3>>, <<2, 2, 3, 1>>, <<2, 3, 1, 2>>,
      <<3, 1, 3, 2>>, <<3, 2, 1, 3>>, <<3, 3, 2, 2>>>>

L9 ==
    <<<<1, 1, 1, 1>>, <<1, 2, 2, 2>>, <<1, 3, 3, 3>>,
      <<2, 1, 2, 3>>, <<2, 2, 3, 1>>, <<2, 3, 1, 2>>,
      <<3, 1, 3, 2>>, <<3, 2, 1, 3>>, <<3, 3, 2, 1>>>>

TaguchiFamilies   == <<"ipv4", "ipv6", "any">>
TaguchiTransports == <<"tcp", "udp", "quic">>
TaguchiSNI        == <<"", "none", "www.example.com">>
TaguchiPayloads   == <<16, 512, 1400>>

\* The layer of a row is named like its transport.
TaguchiRow(levels) ==
    LET tr == TaguchiTransports[levels[2]]
        row == Draft(tr, Target, TaguchiFamilies[levels[1]], "",
                     IF tr = "quic" THEN "h3" ELSE "",
                     TaguchiSNI[levels[3]], TaguchiPayloads[levels[4]])
    IN  Normalize([row EXCEPT !.transport = tr])

TaguchiPlan == Bounded([r \in DOMAIN L9 |-> TaguchiRow(L9[r])])

-----------------------------------------------------------------------------

PolicyNames == {"fast", "adaptive", "factorial", "taguchi"}

Plan(policy, obs) ==
    IF policy = "fast" THEN FastPlan(obs)
    ELSE IF policy = "factorial" THEN FactorialPlan
    ELSE TaguchiPlan

Propose(policy, obs, budget) ==
    IF policy = "adaptive" THEN AdaptiveProposal(obs, budget)
    ELSE DedupeAndCap(obs, Plan(policy, obs), budget)

\* Done asks the plans themselves, not what is left of them within a budget.
Done(policy, obs) ==
    IF policy = "fast" THEN FastPlan(obs) = << >>
    ELSE IF policy = "adaptive" THEN FastPlan(obs) = << >> /\ Candidates(obs) = {}
    ELSE DedupeAndCap(obs, Plan(policy, obs), MaxCandidates) = << >>
=============================================================================
