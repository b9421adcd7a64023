------------------------------ MODULE DNSProbe ------------------------------
(***************************************************************************)
(* The DNS probe (probe/dns.go): one lookup for each wanted family, A      *)
(* before AAAA, all within one budget, by the system resolver or by a      *)
(* public server, and the verdict on the name.                             *)
(***************************************************************************)
EXTENDS Probe

CONSTANTS
    Resolvers,   \* of {"system", "public"}
    Wants        \* the families an experiment may ask for

\* What the network has for a query: addresses, an rcode, or no answer.
Answers == {"addresses", "no_data", "not_found", "temporary", "error", "silent"}

\* What a lookup returns.  A silent resolver gives up by itself or with the
\* context; a cancelled lookup is an error like any other.
Results == {"none", "addresses", "no_data", "not_found", "temporary", "error", "timeout"}

\* Whose resolver the system's is.  Windows tells a name without records of the
\* family from a name that is not there; the pure Go resolver does not.
Platforms == {"windows", "other"}

ASSUME DNSAssumption ==
    /\ Resolvers \subseteq {"system", "public"}
    /\ Wants \subseteq {"any", "ipv4", "ipv6"}

Families == {"ipv4", "ipv6"}

VARIABLES
    platform,  \* the host the program runs on
    resolver,  \* Experiment.Resolver
    want,      \* Experiment.IPFamily
    net,       \* what the network has for each family
    overtaken, \* history: the lookup during which the context died
    result,    \* what each lookup returned, "none" before
    rcode      \* the rcode of the observation's evidence

queryVars == <<platform, resolver, want, net, overtaken, result, rcode>>

dnsVars == <<probeVars, queryVars>>

Wanted == IF want = "any" THEN Families ELSE {want}

DNSIdle ==
    /\ platform = "other"
    /\ resolver = "system"
    /\ want = "any"
    /\ net = [f \in Families |-> "silent"]
    /\ overtaken = "none"
    /\ result = [f \in Families |-> "none"]
    /\ rcode = ""

DNSInit ==
    /\ layer = "dns"
    /\ platform \in Platforms
    /\ resolver \in Resolvers
    /\ want \in Wants
    /\ net \in [Families -> Answers]
    /\ ctx = "live"
    /\ overtaken = "none"
    /\ pc = IF want = "ipv6" THEN "ipv6" ELSE "ipv4"
    /\ result = [f \in Families |-> "none"]
    /\ status = "unknown"
    /\ kind = ""
    /\ rcode = ""

\* mapDNSError: what a lookup that is given the time is taken to say.  IsNotFound
\* is asked before the text that tells "no data", and the pure Go resolver sets
\* it for both.
Answer(f) ==
    IF net[f] = "silent" THEN "timeout"
    ELSE IF net[f] = "no_data" /\ resolver = "system" /\ platform = "other" THEN "not_found"
    ELSE net[f]

\* What a lookup may come to, now: once the context is dead an answer that
\* has already come in races with it, and a later lookup has no chance.
Returned(f) ==
    (IF ctx = "live" \/ overtaken = f THEN {Answer(f)} ELSE {})
    \cup CASE ctx = "live"      -> {}
           [] ctx = "expired"   -> {"timeout"}
           [] ctx = "cancelled" -> {"error"}

\* The public lookup stops at the first answer that carries an rcode.
Stops(r) == resolver = "public" /\ r \in {"not_found", "temporary"}

Lookup(f) ==
    /\ pc = f
    /\ \E r \in Returned(f) :
          /\ result' = [result EXCEPT ![f] = r]
          /\ pc' = IF f = "ipv4" /\ want = "any" /\ ~Stops(r) THEN "ipv6" ELSE "verdict"
    /\ UNCHANGED <<layer, ctx, status, kind, platform, resolver, want, net, overtaken, rcode>>

-----------------------------------------------------------------------------

Found == {f \in Wanted : result[f] = "addresses"}
Some(r) == \E f \in Wanted : result[f] = r
All(rs) == \A f \in Wanted : result[f] \in rs

\* fillDNSError: a timeout has no rcode.
ErrorRcode(r) == CASE r = "not_found" -> "NXDOMAIN" [] r = "temporary" -> "SERVFAIL"
                   [] r = "no_data" -> "NOERROR" [] r = "timeout" -> "" [] OTHER -> "ERROR"

\* Mutant: an error is an error.
ErrorStatusFail(r) == "fail"

ErrorStatus(r) == IF r = "timeout" THEN "timeout" ELSE "fail"

\* Mutant: one family's word is taken for both.
CombinedRcodeAny ==
    IF Some("timeout") THEN "TIMEOUT"
    ELSE IF Some("temporary") THEN "SERVFAIL"
    ELSE IF Some("not_found") THEN "NXDOMAIN" ELSE "NOERROR"

\* combineFamilyErrors
CombinedRcode ==
    IF Some("timeout") THEN "TIMEOUT"
    ELSE IF Some("temporary") THEN "SERVFAIL"
    ELSE IF All({"not_found"}) THEN "NXDOMAIN"
    ELSE IF All({"no_data"}) THEN "NOERROR" ELSE "ERROR"

\* Mutant: a family without an answer spoils the other one's.
SystemVerdictAll ==
    IF Found = Wanted
    THEN status' = "pass" /\ rcode' = "NOERROR"
    ELSE status' = "fail" /\ rcode' = CombinedRcode

\* runSystem: an address of either family is enough.
SystemVerdict ==
    IF Found # {}
    THEN status' = "pass" /\ rcode' = "NOERROR"
    ELSE IF want = "any"
    THEN status' = "fail" /\ rcode' = CombinedRcode
    ELSE status' = ErrorStatus(result[want]) /\ rcode' = ErrorRcode(result[want])

\* The lookup whose failure runPublic reports: the last to fail.
LastError ==
    LET failed == {f \in Wanted : result[f] \in {"timeout", "error"}}
    IN  IF failed = {} THEN "none" ELSE IF "ipv6" \in failed THEN result["ipv6"] ELSE result["ipv4"]

\* runPublic: an rcode or an error of either family decides.
PublicVerdict ==
    LET coded == {f \in Wanted : result[f] \in {"not_found", "temporary"}}
    IN  IF coded # {}
        THEN status' = "fail" /\ rcode' = ErrorRcode(result[CHOOSE f \in coded : TRUE])
        ELSE IF LastError # "none"
        THEN status' = ErrorStatus(LastError) /\ rcode' = ErrorRcode(LastError)
        ELSE IF Found = {} THEN status' = "fail" /\ rcode' = "NOERROR"
        ELSE status' = "pass" /\ rcode' = "NOERROR"

Verdict ==
    /\ pc = "verdict"
    /\ pc' = "returned"
    /\ IF resolver = "system" THEN SystemVerdict ELSE PublicVerdict
    /\ UNCHANGED <<layer, ctx, kind, platform, resolver, want, net, overtaken, result>>

\* The context dies during a lookup.
Overtake ==
    /\ pc \in Families
    /\ Deadline \/ Cancel
    /\ overtaken' = pc
    /\ UNCHANGED <<platform, resolver, want, net, result, rcode>>

DNSNext ==
    /\ layer = "dns"
    /\ Lookup("ipv4") \/ Lookup("ipv6") \/ Verdict \/ Overtake

DNSSpec == DNSInit /\ [][DNSNext]_dnsVars

\* A lookup returns once its context is dead, at the latest.
DNSProgress ==
    /\ layer = "dns"
    /\ Lookup("ipv4") \/ Lookup("ipv6") \/ Verdict
-----------------------------------------------------------------------------

\* Every variable holds what the code's declaration of it allows.
DNSTypeOK ==
    /\ layer = "dns"
    /\ platform \in Platforms /\ resolver \in Resolvers /\ want \in Wants
    /\ net \in [Families -> Answers]
    /\ ctx \in {"live", "expired", "cancelled"}
    /\ overtaken \in Families \cup {"none"}
    /\ pc \in Families \cup {"verdict", "returned"}
    /\ result \in [Families -> Results]
    /\ status \in Statuses
    /\ kind = ""
    /\ rcode \in {"", "NOERROR", "NXDOMAIN", "SERVFAIL", "TIMEOUT", "ERROR"}

Resolved == layer = "dns" /\ pc = "returned"

\* "NXDOMAIN is only claimed when BOTH families were told the name does not
\* exist" (probe/dns.go): the system resolver's verdict says NXDOMAIN only when
\* each family asked for was told so by the network, or, where the resolver does
\* not tell the two apart, that it has no records.  Addresses, a failure and a
\* lookup that ran out of time are never called NXDOMAIN, of either family.
NXDOMAINIsCertain ==
    Resolved /\ resolver = "system" /\ rcode = "NXDOMAIN" =>
        \A f \in Wanted :
            net[f] = "not_found" \/ (platform = "other" /\ net[f] = "no_data")

\* "A broken or filtered AAAA path never corrupts the verdict for A records"
\* (probe/dns.go): a name whose A records the system resolver has is resolved,
\* whatever comes of the AAAA lookup that follows, its time running out or the
\* survey being cancelled included.
AAAASparesA ==
    Resolved /\ resolver = "system" /\ "ipv4" \in Wanted
        /\ net["ipv4"] = "addresses" /\ overtaken # "ipv4"
        => status = "pass"

\* "Timeouts become Status: Timeout. Not Status: Fail." (docs/probe-contract.md):
\* a probe all of whose lookups timed out says so.
TimeoutIsTimeout ==
    Resolved /\ (\A f \in Wanted : result[f] = "timeout") => status = "timeout"

\* ... when a single family was asked for, or the public resolver.
TimeoutIsTimeoutElsewhere ==
    want # "any" \/ resolver = "public" => TimeoutIsTimeout

=============================================================================
