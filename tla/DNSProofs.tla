----------------------------- MODULE DNSProofs -----------------------------
(***************************************************************************)
(* The verdict of the DNS probe, whenever its time runs out.               *)
(***************************************************************************)
EXTENDS DNSProbe, TLAPS

\* The context is dead from the lookup on that it overtook.
OvertakenDead ==
    /\ ctx = "live" <=> overtaken = "none"
    /\ pc = "ipv4" => overtaken \in {"none", "ipv4"}

\* The network has said that there is no name, or, to a resolver that does not
\* tell the two apart, no records of the family.
NoName(f) == net[f] = "not_found" \/ (platform = "other" /\ net[f] = "no_data")

\* A lookup says that a name does not exist only if it was told so.
NotFoundIsTold == \A f \in Families : result[f] = "not_found" => NoName(f)

\* An A lookup that had the time has returned the addresses there are.
ARecordsKept ==
    "ipv4" \in Wanted /\ net["ipv4"] = "addresses" /\ overtaken # "ipv4" =>
        pc = "ipv4" \/ result["ipv4"] = "addresses"

\* What the verdict makes of the results.
VerdictMeans ==
    pc = "returned" =>
        /\ resolver = "system" /\ rcode = "NXDOMAIN" => \A f \in Wanted : result[f] = "not_found"
        /\ resolver = "system" /\ (\E f \in Wanted : result[f] = "addresses") => status = "pass"
        /\ want # "any" \/ resolver = "public" => TimeoutIsTimeout

DNSInv ==
    /\ DNSTypeOK
    /\ OvertakenDead
    /\ NotFoundIsTold
    /\ ARecordsKept
    /\ VerdictMeans

-----------------------------------------------------------------------------

\* The families asked for are families, and some are.
LEMMA WantedTyped ==
    ASSUME DNSTypeOK
    PROVE  Wanted \subseteq Families /\ Wanted # {}
PROOF
  <1>1. want \in {"any", "ipv4", "ipv6"}
    BY DNSAssumption DEF DNSTypeOK, DNSAssumption
  <1> QED BY <1>1 DEF Wanted, Families

\* Only a lookup that was told so has the code of a name that is not there.
LEMMA RcodeOfError ==
    ASSUME NEW r \in Results
    PROVE  /\ ErrorRcode(r) \in {"", "NOERROR", "NXDOMAIN", "SERVFAIL", "TIMEOUT", "ERROR"}
           /\ ErrorRcode(r) = "NXDOMAIN" => r = "not_found"
           /\ ErrorStatus(r) \in Statuses
           /\ r = "timeout" => ErrorStatus(r) = "timeout"
PROOF
  <1>1. ErrorStatus(r) \in Statuses /\ (r = "timeout" => ErrorStatus(r) = "timeout")
    BY DEF ErrorStatus, Statuses
  <1>2. CASE r = "not_found"
    BY <1>1, <1>2, Zenon DEF ErrorRcode
  <1>3. CASE r = "temporary"
    <2>1. ErrorRcode(r) = "SERVFAIL"
      BY <1>3 DEF ErrorRcode
    <2> QED BY <1>1, <2>1
  <1>4. CASE r = "no_data"
    <2>1. ErrorRcode(r) = "NOERROR"
      BY <1>4 DEF ErrorRcode
    <2> QED BY <1>1, <2>1
  <1>5. CASE r = "timeout"
    <2>1. ErrorRcode(r) = ""
      BY <1>5 DEF ErrorRcode
    <2> QED BY <1>1, <2>1
  <1>6. CASE r \notin {"not_found", "temporary", "no_data", "timeout"}
    <2>1. ErrorRcode(r) = "ERROR"
      BY <1>6, Zenon DEF ErrorRcode
    <2> QED BY <1>1, <2>1
  <1> QED BY <1>2, <1>3, <1>4, <1>5, <1>6

\* Both families' errors: one that is not certain hides one that is.
LEMMA RcodeOfBoth ==
    /\ CombinedRcode \in {"", "NOERROR", "NXDOMAIN", "SERVFAIL", "TIMEOUT", "ERROR"}
    /\ CombinedRcode = "NXDOMAIN" => \A f \in Wanted : result[f] = "not_found"
PROOF BY DEF CombinedRcode, Some, All

\* A lookup returns what the network has, or that its context is dead.
LEMMA ReturnedTyped ==
    ASSUME DNSInv, NEW f \in Families, NEW r \in Returned(f)
    PROVE  /\ r \in Results
           /\ r = "not_found" => NoName(f)
           /\ f = "ipv4" /\ pc = "ipv4" /\ net[f] = "addresses" /\ overtaken # f => r = "addresses"
PROOF
  <1>1. ctx \in {"live", "expired", "cancelled"} /\ net[f] \in Answers
    BY DEF DNSInv, DNSTypeOK
  <1>2. Answer(f) \in Results /\ (Answer(f) = "not_found" => NoName(f))
        /\ (net[f] = "addresses" => Answer(f) = "addresses")
    BY <1>1 DEF Answer, Answers, Results, NoName
  <1>3. r = Answer(f) \/ (ctx = "expired" /\ r = "timeout") \/ (ctx = "cancelled" /\ r = "error")
    BY <1>1 DEF Returned
  <1>4. f = "ipv4" /\ pc = "ipv4" /\ overtaken # f => ctx = "live"
    BY DEF DNSInv, OvertakenDead
  <1> QED BY <1>2, <1>3, <1>4 DEF Results

-----------------------------------------------------------------------------
(* The steps *)

\* The invariant holds of a probe that begins.
LEMMA DNSStart == DNSInit => DNSInv
PROOF
  <1> SUFFICES ASSUME DNSInit PROVE DNSInv
    OBVIOUS
  <1>1. want \in {"any", "ipv4", "ipv6"}
    BY DNSAssumption DEF DNSInit, DNSAssumption
  <1>2. DNSTypeOK
    BY DEF DNSInit, DNSTypeOK, Families, Results, Statuses
  <1>3. OvertakenDead /\ NotFoundIsTold /\ VerdictMeans
    BY DEF DNSInit, OvertakenDead, NotFoundIsTold, VerdictMeans, Families
  <1>4. ARecordsKept
    BY <1>1 DEF DNSInit, ARecordsKept, Wanted
  <1> QED BY <1>2, <1>3, <1>4 DEF DNSInv

\* A lookup returns.
LEMMA LookupStep ==
    ASSUME DNSInv, NEW f \in Families, Lookup(f)
    PROVE  DNSInv'
PROOF
  <1>1. PICK r \in Returned(f) :
            /\ result' = [result EXCEPT ![f] = r]
            /\ pc' = IF f = "ipv4" /\ want = "any" /\ ~Stops(r) THEN "ipv6" ELSE "verdict"
    BY DEF Lookup
  <1>2. /\ pc = f
        /\ UNCHANGED <<layer, ctx, status, kind, platform, resolver, want, net, overtaken, rcode>>
    BY DEF Lookup
  <1>3. DNSTypeOK /\ OvertakenDead /\ NotFoundIsTold /\ ARecordsKept
    BY DEF DNSInv
  <1>4. /\ r \in Results /\ (r = "not_found" => NoName(f))
        /\ f = "ipv4" /\ net[f] = "addresses" /\ overtaken # f => r = "addresses"
    BY <1>2, ReturnedTyped
  <1>5. pc' \in {"ipv6", "verdict"} /\ (f = "ipv6" => pc' = "verdict")
    BY <1>1
  <1>6. result' \in [Families -> Results] /\ result'[f] = r
        /\ \A g \in Families : g # f => result'[g] = result[g]
    BY <1>1, <1>3, <1>4 DEF DNSTypeOK
  <1>7. DNSTypeOK'
    BY <1>2, <1>3, <1>5, <1>6 DEF DNSTypeOK, Families
  <1>8. OvertakenDead'
    BY <1>2, <1>3, <1>5 DEF OvertakenDead
  <1>9. NotFoundIsTold'
    BY <1>2, <1>3, <1>4, <1>6 DEF NotFoundIsTold, NoName
  <1>10. Wanted' = Wanted
    BY <1>2 DEF Wanted
  <1>11. ARecordsKept'
    BY <1>2, <1>3, <1>4, <1>6, <1>10 DEF ARecordsKept, Families
  <1>12. VerdictMeans'
    BY <1>5 DEF VerdictMeans
  <1> QED BY <1>7, <1>8, <1>9, <1>11, <1>12 DEF DNSInv

\* The system resolver's verdict.
LEMMA SystemVerdictMeans ==
    ASSUME DNSTypeOK, SystemVerdict
    PROVE  /\ status' \in Statuses
           /\ rcode' \in {"", "NOERROR", "NXDOMAIN", "SERVFAIL", "TIMEOUT", "ERROR"}
           /\ rcode' = "NXDOMAIN" => \A f \in Wanted : result[f] = "not_found"
           /\ (\E f \in Wanted : result[f] = "addresses") => status' = "pass"
           /\ want # "any" /\ (\A f \in Wanted : result[f] = "timeout") => status' = "timeout"
PROOF
  <1>1. Wanted \subseteq Families /\ Wanted # {} /\ result \in [Families -> Results]
    BY WantedTyped DEF DNSTypeOK
  <1>2. CASE Found # {}
    BY <1>1, <1>2 DEF SystemVerdict, Found, Statuses
  <1>3. CASE Found = {} /\ want = "any"
    BY <1>3, RcodeOfBoth DEF SystemVerdict, Found, Statuses
  <1>4. CASE Found = {} /\ want # "any"
    <2>1. Wanted = {want} /\ result[want] \in Results
      BY <1>1, <1>4 DEF Wanted
    <2>2. status' = ErrorStatus(result[want]) /\ rcode' = ErrorRcode(result[want])
      BY <1>4 DEF SystemVerdict
    <2> QED BY <1>4, <2>1, <2>2, RcodeOfError DEF Found
  <1> QED BY <1>2, <1>3, <1>4

\* The public resolver's verdict.
LEMMA PublicVerdictMeans ==
    ASSUME DNSTypeOK, PublicVerdict
    PROVE  /\ status' \in Statuses
           /\ rcode' \in {"", "NOERROR", "NXDOMAIN", "SERVFAIL", "TIMEOUT", "ERROR"}
           /\ (\A f \in Wanted : result[f] = "timeout") => status' = "timeout"
PROOF
  <1>1. Wanted \subseteq Families /\ Wanted # {} /\ result \in [Families -> Results]
    BY WantedTyped DEF DNSTypeOK
  <1> DEFINE coded == {f \in Wanted : result[f] \in {"not_found", "temporary"}}
  <1>2. CASE coded # {}
    <2>1. PICK g \in Wanted : result[g] \in {"not_found", "temporary"}
                              /\ status' = "fail" /\ rcode' = ErrorRcode(result[g])
      BY <1>2 DEF PublicVerdict
    <2> QED BY <1>1, <2>1, RcodeOfError DEF Statuses
  <1>3. CASE coded = {} /\ LastError # "none"
    <2>1. status' = ErrorStatus(LastError) /\ rcode' = ErrorRcode(LastError)
      BY <1>3 DEF PublicVerdict
    <2>2. LastError \in Results
      BY <1>1, <1>3 DEF LastError, Families
    <2>3. (\A f \in Wanted : result[f] = "timeout") => LastError = "timeout"
      BY <1>1, <1>3 DEF LastError, Families
    <2> QED BY <2>1, <2>2, <2>3, RcodeOfError
  <1>4. CASE coded = {} /\ LastError = "none"
    <2>1. status' \in {"pass", "fail"} /\ rcode' = "NOERROR"
      BY <1>4 DEF PublicVerdict
    <2>2. ~\A f \in Wanted : result[f] = "timeout"
      BY <1>1, <1>4 DEF LastError, Families
    <2> QED BY <2>1, <2>2 DEF Statuses
  <1> QED BY <1>2, <1>3, <1>4

\* The verdict.
LEMMA VerdictStep ==
    ASSUME DNSInv, Verdict
    PROVE  DNSInv'
PROOF
  <1>1. /\ pc = "verdict" /\ pc' = "returned"
        /\ UNCHANGED <<layer, ctx, kind, platform, resolver, want, net, overtaken, result>>
        /\ resolver = "system" => SystemVerdict
        /\ resolver # "system" => PublicVerdict
    BY DEF Verdict
  <1>2. DNSTypeOK /\ OvertakenDead /\ NotFoundIsTold /\ ARecordsKept
    BY DEF DNSInv
  <1>3. resolver \in {"system", "public"}
    BY <1>2, DNSAssumption DEF DNSTypeOK, DNSAssumption
  <1>4. Wanted' = Wanted
    BY <1>1 DEF Wanted
  <1>5. status' \in Statuses
        /\ rcode' \in {"", "NOERROR", "NXDOMAIN", "SERVFAIL", "TIMEOUT", "ERROR"}
    BY <1>1, <1>2, SystemVerdictMeans, PublicVerdictMeans
  <1>6. DNSTypeOK'
    BY <1>1, <1>2, <1>5 DEF DNSTypeOK
  <1>7. OvertakenDead' /\ NotFoundIsTold'
    BY <1>1, <1>2 DEF OvertakenDead, NotFoundIsTold, NoName
  <1>8. ARecordsKept'
    BY <1>1, <1>2, <1>4 DEF ARecordsKept
  <1>9. VerdictMeans'
    <2>1. CASE resolver = "system"
      BY <1>1, <1>2, <1>4, <2>1, SystemVerdictMeans DEF VerdictMeans, TimeoutIsTimeout
    <2>2. CASE resolver = "public"
      BY <1>1, <1>2, <1>4, <2>2, PublicVerdictMeans DEF VerdictMeans, TimeoutIsTimeout
    <2> QED BY <1>3, <2>1, <2>2
  <1> QED BY <1>6, <1>7, <1>8, <1>9 DEF DNSInv

\* The context dies during a lookup.
LEMMA OvertakeStep ==
    ASSUME DNSInv, Overtake
    PROVE  DNSInv'
PROOF
  <1>1. /\ pc \in Families /\ overtaken' = pc
        /\ ctx = "live" /\ ctx' \in {"expired", "cancelled"}
        /\ UNCHANGED <<layer, pc, status, kind, platform, resolver, want, net, result, rcode>>
    BY DEF Overtake, Deadline, Cancel
  <1>2. DNSTypeOK /\ OvertakenDead /\ NotFoundIsTold /\ ARecordsKept
    BY DEF DNSInv
  <1>3. DNSTypeOK'
    BY <1>1, <1>2 DEF DNSTypeOK
  <1>4. OvertakenDead' /\ NotFoundIsTold'
    BY <1>1, <1>2 DEF OvertakenDead, NotFoundIsTold, NoName, Families
  <1>5. ARecordsKept'
    <2>1. Wanted' = Wanted /\ overtaken = "none"
      BY <1>1, <1>2 DEF Wanted, OvertakenDead
    <2> QED BY <1>1, <1>2, <2>1 DEF ARecordsKept
  <1>6. VerdictMeans'
    BY <1>1 DEF VerdictMeans, Families
  <1> QED BY <1>3, <1>4, <1>5, <1>6 DEF DNSInv

\* Every step of the probe keeps the invariant.
LEMMA DNSStep == DNSInv /\ [DNSNext]_dnsVars => DNSInv'
PROOF
  <1> SUFFICES ASSUME DNSInv, [DNSNext]_dnsVars PROVE DNSInv'
    OBVIOUS
  <1>1. CASE Lookup("ipv4") \/ Lookup("ipv6")
    BY <1>1, LookupStep DEF Families
  <1>2. CASE Verdict
    BY <1>2, VerdictStep
  <1>3. CASE Overtake
    BY <1>3, OvertakeStep
  <1>4. CASE UNCHANGED dnsVars
    BY <1>4, ZenonT(30)
       DEF dnsVars, probeVars, queryVars, DNSInv, DNSTypeOK, OvertakenDead, NotFoundIsTold, NoName,
           ARecordsKept, VerdictMeans, TimeoutIsTimeout, Wanted, Resolved
  <1> QED BY <1>1, <1>2, <1>3, <1>4 DEF DNSNext

-----------------------------------------------------------------------------
(* The theorems *)

\* The inductive invariant of the lookups.
THEOREM DNSInvariant == DNSSpec => []DNSInv
PROOF BY DNSStart, DNSStep, PTL DEF DNSSpec

\* NXDOMAIN is claimed by every lookup, and each of them was told so.
LEMMA NXDOMAINIsCertainByInv == DNSInv => NXDOMAINIsCertain
PROOF
  BY WantedTyped DEF DNSInv, VerdictMeans, NotFoundIsTold, NoName, NXDOMAINIsCertain, Resolved

\* NXDOMAIN is claimed only when the network has said of each family asked for
\* that there is no name, or, off Windows, no records: never of addresses, a
\* failure or a lookup that ran out of time.
THEOREM NXDOMAINIsCertainAlways == DNSSpec => []NXDOMAINIsCertain
PROOF BY NXDOMAINIsCertainByInv, DNSInvariant, PTL

\* Addresses that the A lookup has returned make the name pass.
LEMMA AAAASparesAByInv == DNSInv => AAAASparesA
PROOF
  BY DEF DNSInv, VerdictMeans, ARecordsKept, AAAASparesA, Resolved

\* A name whose A records the system resolver has is resolved, whatever comes
\* of the AAAA lookup that follows.
THEOREM AAAASparesAAlways == DNSSpec => []AAAASparesA
PROOF BY AAAASparesAByInv, DNSInvariant, PTL

\* A single lookup that timed out, or two of the public resolver, say so.
LEMMA TimeoutIsTimeoutByInv == DNSInv => TimeoutIsTimeoutElsewhere
PROOF
  BY DEF DNSInv, VerdictMeans, TimeoutIsTimeoutElsewhere, TimeoutIsTimeout, Resolved

\* A probe of one family, or by the public resolver, all of whose lookups
\* timed out says so.
THEOREM TimeoutIsTimeoutElsewhereAlways == DNSSpec => []TimeoutIsTimeoutElsewhere
PROOF BY TimeoutIsTimeoutByInv, DNSInvariant, PTL
=============================================================================
