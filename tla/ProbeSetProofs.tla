--------------------------- MODULE ProbeSetProofs ---------------------------
(***************************************************************************)
(* Every probe of the set keeps the contract of the probes, whatever its   *)
(* layer and whatever the network, its budget and the survey do to it.     *)
(***************************************************************************)
EXTENDS ProbeSet, AttemptsProofs, UDPProofs, DNSProofs, HTTPProofs

\* The outcomes a fan-out has, on the channel and off.
Pool == Outcomes(results) \cup Outcomes(outcomes)

\* The lookups that have been made: those before the current one, and in the
\* end all that are wanted, unless one has stopped the others.
Asked ==
    /\ \A f \in Families : f \notin Wanted => result[f] = "none"
    /\ pc = "ipv4" => \A f \in Families : result[f] = "none"
    /\ pc = "ipv6" => /\ result["ipv6"] = "none"
                      /\ \A f \in Wanted : f # "ipv6" => result[f] # "none"
    /\ pc \in Families => pc \in Wanted
    /\ pc \in {"verdict", "returned"} =>
          /\ \E f \in Wanted : result[f] # "none"
          /\ (\A f \in Wanted : result[f] # "none") \/ (\E f \in Wanted : Stops(result[f]))

\* The addresses tried before the last have not answered, and the last one's
\* word is the verdict.
LastDecides ==
    /\ pc = "try" => \A i \in 1..Len(tried) : tried[i] \notin HTTPAnswers
    /\ pc = "returned" =>
          \/ status = "skipped" /\ tried = << >>
          \/ /\ tried # << >>
             /\ status = HTTPStatusOf(tried[Len(tried)])
             /\ \A i \in 1..Len(tried) : i < Len(tried) => tried[i] \notin HTTPAnswers

\* A probe that has returned supports its status.
Keeps == pc = "returned" => Contract!Supported(status, AllHeard)

ProbeInv ==
    \/ AttInv
    \/ UDPInv
    \/ DNSInv /\ Asked /\ Keeps
    \/ HTTPInv /\ LastDecides

-----------------------------------------------------------------------------
(* What has been heard, layer by layer *)

\* Each layer's probe has an ear of its own.
LEMMA AllHeardOf ==
    /\ layer \in AttemptLayers => AllHeard = {StatusOf(r.err) : r \in Pool}
    /\ layer = "udp" => AllHeard = IF heard = "silence" THEN {} ELSE {StatusOf(heard)}
    /\ layer = "dns" => AllHeard = {WordOf(result[f]) : f \in {f \in Families : result[f] # "none"}}
    /\ layer = "http" => AllHeard = {HTTPStatusOf(tried[i]) : i \in DOMAIN tried}
PROOF
  <1>1. layer \in AttemptLayers => layer # "udp" /\ layer # "dns" /\ layer # "http"
    BY DEF AttemptLayers
  <1>2. layer = "udp" => layer \notin AttemptLayers
    BY DEF AttemptLayers
  <1>3. layer = "dns" => layer \notin AttemptLayers
    BY DEF AttemptLayers
  <1>4. layer = "http" => layer \notin AttemptLayers
    BY DEF AttemptLayers
  <1>5. ASSUME layer \in AttemptLayers PROVE AllHeard = {StatusOf(r.err) : r \in Pool}
    BY <1>1, <1>5, Zenon DEF AllHeard, Pool
  <1>6. ASSUME layer = "udp"
        PROVE  AllHeard = IF heard = "silence" THEN {} ELSE {StatusOf(heard)}
    BY <1>2, <1>6 DEF AllHeard
  <1>7. ASSUME layer = "dns"
        PROVE  AllHeard = {WordOf(result[f]) : f \in {f \in Families : result[f] # "none"}}
    BY <1>3, <1>7 DEF AllHeard
  <1>8. ASSUME layer = "http"
        PROVE  AllHeard = {HTTPStatusOf(tried[i]) : i \in DOMAIN tried}
    BY <1>4, <1>8 DEF AllHeard
  <1> QED BY <1>5, <1>6, <1>7, <1>8

-----------------------------------------------------------------------------
(* The fan-out over addresses *)

\* What joins a sequence at its end is in it, with everything before.
LEMMA AppendKeeps ==
    ASSUME NEW outs \in Seq(Outcome), NEW r \in Outcome
    PROVE  Outcomes(Append(outs, r)) = Outcomes(outs) \cup {r}
PROOF
  <1>1. /\ Len(outs) \in Nat /\ Len(Append(outs, r)) = Len(outs) + 1
        /\ DOMAIN outs = 1..Len(outs) /\ DOMAIN Append(outs, r) = 1..(Len(outs) + 1)
        /\ \A i \in 1..Len(outs) : Append(outs, r)[i] = outs[i]
        /\ Append(outs, r)[Len(outs) + 1] = r
    OBVIOUS
  <1>2. \A i : i \in 1..(Len(outs) + 1) <=> i \in 1..Len(outs) \/ i = Len(outs) + 1
    BY <1>1
  <1> QED BY <1>1, <1>2 DEF Outcomes

\* A sequence is its head and its tail.
LEMMA HeadAndTail ==
    ASSUME NEW outs \in Seq(Outcome), outs # << >>
    PROVE  Outcomes(outs) = {Head(outs)} \cup Outcomes(Tail(outs))
PROOF
  <1>1. /\ Len(outs) \in Nat /\ Len(outs) >= 1 /\ Len(Tail(outs)) = Len(outs) - 1
        /\ DOMAIN outs = 1..Len(outs) /\ DOMAIN Tail(outs) = 1..(Len(outs) - 1)
        /\ \A i \in 1..(Len(outs) - 1) : Tail(outs)[i] = outs[i + 1]
        /\ Head(outs) = outs[1]
    OBVIOUS
  <1>2. \A i \in 1..Len(outs) : i = 1 \/ (i - 1 \in 1..(Len(outs) - 1) /\ Tail(outs)[i - 1] = outs[i])
    BY <1>1
  <1>3. \A i \in 1..(Len(outs) - 1) : i + 1 \in 1..Len(outs) /\ Tail(outs)[i] = outs[i + 1]
    BY <1>1
  <1>4. 1 \in 1..Len(outs)
    BY <1>1
  <1>5. ASSUME NEW i \in 1..Len(outs) PROVE outs[i] \in {Head(outs)} \cup Outcomes(Tail(outs))
    <2>1. i # 1 => i - 1 \in DOMAIN Tail(outs) /\ Tail(outs)[i - 1] = outs[i]
      BY <1>1, <1>2
    <2>2. i # 1 => outs[i] \in Outcomes(Tail(outs))
      BY <2>1 DEF Outcomes
    <2> QED BY <1>1, <2>2
  <1>6. Head(outs) \in Outcomes(outs)
    BY <1>1, <1>4 DEF Outcomes
  <1>7. Outcomes(Tail(outs)) \subseteq Outcomes(outs)
    BY <1>1, <1>3 DEF Outcomes
  <1>8. Outcomes(outs) \subseteq {Head(outs)} \cup Outcomes(Tail(outs))
    BY <1>1, <1>5 DEF Outcomes
  <1> QED BY <1>6, <1>7, <1>8

\* Nothing that a goroutine has reported is lost, and nothing happens after
\* the probe has returned.
LEMMA AttemptsHear ==
    ASSUME AttInv, AttemptsNext
    PROVE  pc # "returned" /\ Pool \subseteq Pool'
PROOF
  <1>1. results \in Seq(Outcome) /\ outcomes \in Seq(Outcome)
    BY DEF AttInv, AttemptsTypeOK
  <1>2. CASE UNCHANGED <<results, outcomes>> /\ pc # "returned"
    BY <1>2 DEF Pool, Outcomes
  <1>3. ASSUME NEW a \in Addresses, Attempt(a)
        PROVE  pc # "returned" /\ Pool \subseteq Pool'
    <2>1. attempt[a] # "sent"
      BY <1>3 DEF Attempt, Acquire, DialFails, Connects, HandshakeFails, HandshakeSucceeds
    <2>2. pc = "collect"
      BY <2>1, Working
    <2>3. outcomes' = outcomes
      BY <1>3 DEF Attempt, Acquire, DialFails, Connects, HandshakeFails, HandshakeSucceeds
    <2>4. results' = results \/ \E err : Send(a, err)
      BY <1>3 DEF Attempt, Acquire, DialFails, Connects, HandshakeFails, HandshakeSucceeds
    <2>5. ASSUME NEW err, results' = Append(results, [addr |-> a, err |-> err])
          PROVE  Outcomes(results) \subseteq Outcomes(results')
      <3>1. /\ DOMAIN results = 1..Len(results) /\ DOMAIN results' = 1..(Len(results) + 1)
            /\ Len(results) \in Nat
            /\ \A i \in 1..Len(results) : results'[i] = results[i]
        BY <1>1, <2>5
      <3> QED BY <3>1 DEF Outcomes
    <2>6. Outcomes(results) \subseteq Outcomes(results')
      BY <2>4, <2>5 DEF Send
    <2> QED BY <2>2, <2>3, <2>6 DEF Pool, Outcomes
  <1>4. CASE Receive
    <2>1. /\ pc = "collect" /\ results # << >>
          /\ results' = Tail(results) /\ outcomes' = Append(outcomes, Head(results))
      BY <1>4 DEF Receive
    <2>2. Head(results) \in Outcome
      BY <1>1, <2>1
    <2>3. Outcomes(results) = {Head(results)} \cup Outcomes(results')
      BY <1>1, <2>1, HeadAndTail
    <2>4. Outcomes(outcomes') = Outcomes(outcomes) \cup {Head(results)}
      BY <1>1, <2>1, <2>2, AppendKeeps
    <2>5. Pool' = Outcomes(results') \cup Outcomes(outcomes')
      BY DEF Pool, Outcomes
    <2> QED BY <2>1, <2>3, <2>4, <2>5 DEF Pool
  <1>5. CASE SettleFailed \/ SettlePassed
    <2>1. /\ pc = "collect" /\ Closed
          /\ results' = results /\ outcomes' = Sorted(outcomes)
      BY <1>5 DEF SettleFailed, SettlePassed
    <2>2. Outcomes(outcomes) \subseteq Outcomes(Sorted(outcomes))
      BY <2>1, SortedOutcomes DEF AttInv
    <2> QED BY <2>1, <2>2 DEF Pool, Outcomes
  <1>6. CASE Return \/ RequestAnswered \/ RequestGivenUp \/ Resolve
    BY <1>2, <1>6 DEF Return, RequestAnswered, RequestGivenUp, Resolve, attemptVars
  <1>7. CASE (ResolveFails \/ Deadline \/ Cancel) /\ UNCHANGED attemptVars
    BY <1>2, <1>7 DEF ResolveFails, Deadline, Cancel, attemptVars
  <1> QED BY <1>3, <1>4, <1>5, <1>6, <1>7 DEF AttemptsNext, Collect

\* The verdict of a fan-out is what some address has come to, and a connection
\* passes.
LEMMA AttemptsKeep ==
    ASSUME AttInv, pc = "returned"
    PROVE  Contract!Supported(status, AllHeard)
PROOF
  <1>1. /\ AttemptsTypeOK /\ layer \in AttemptLayers
        /\ AllHeard = {StatusOf(r.err) : r \in Pool}
    BY AllHeardOf DEF AttInv, AttemptsTypeOK
  <1>2. CASE status = "skipped"
    <2>1. results = << >> /\ outcomes = << >>
      BY <1>2 DEF AttInv, Idle, AttemptsIdle
    <2>2. Pool = {}
      BY <2>1 DEF Pool, Outcomes
    <2>3. AllHeard = {}
      BY <1>1, <2>2
    <2> QED BY <1>2, <2>3 DEF Contract!Supported
  <1>3. CASE status # "skipped"
    <2>1. /\ Judged /\ DOMAIN outcomes = Addresses /\ addrs \in Nat
          /\ status = "pass" <=> winner # 0
          /\ status # "pass" => Evident
          /\ winner # 0 => winner \in Addresses
      BY <1>1, <1>3, SettledMeans DEF Settled
    <2>2. 1 \in Addresses /\ results = << >>
      <3>1. addrs \in Nat /\ addrs >= 1
        BY <2>1 DEF Judged
      <3>2. 1 \in Addresses
        BY <3>1 DEF Addresses
      <3> QED BY <2>1, <3>2 DEF Judged
    <2>3. Pool = {outcomes[a] : a \in Addresses}
      BY <2>1, <2>2 DEF Pool, Outcomes
    <2>4. AllHeard = {StatusOf(outcomes[a].err) : a \in Addresses}
      BY <1>1, <2>3
    <2>5. \A a \in Addresses : outcomes[a].err \in Errs
      <3>1. \A a \in Addresses : outcomes[a] \in Outcome
        BY <1>1, <2>1 DEF AttemptsTypeOK
      <3> QED BY <3>1 DEF Outcome
    <2>6. /\ AllHeard # {}
          /\ "pass" \in AllHeard <=> \E a \in Addresses : outcomes[a].err = ""
      <3>1. \A a \in Addresses : StatusOf(outcomes[a].err) = "pass" <=> outcomes[a].err = ""
        BY <2>5, ErrTyped
      <3>2. StatusOf(outcomes[1].err) \in AllHeard
        BY <2>2, <2>4
      <3>3. "pass" \in AllHeard <=> \E a \in Addresses : StatusOf(outcomes[a].err) = "pass"
        BY <2>4
      <3> QED BY <3>1, <3>2, <3>3
    <2>7. "pass" \in AllHeard <=> status = "pass"
      BY <2>1, <2>6 DEF Judged
    <2>8. status \in AllHeard
      BY <2>1, <2>4, <2>7 DEF Evident
    <2> QED BY <1>3, <2>6, <2>7, <2>8 DEF Contract!Supported
  <1> QED BY <1>2, <1>3

-----------------------------------------------------------------------------
(* The datagram *)

\* What the socket has said stays said.
LEMMA UDPHears ==
    ASSUME UDPInv, UDPNext
    PROVE  \/ pc # "returned" /\ (heard = "silence" \/ heard' = heard)
           \/ pc = "returned" /\ UNCHANGED <<pc, status, heard>>
PROOF
  BY DEF UDPNext, UDPInv, OpenSocket, OpenFails, SendDatagram, SendFails, SendExpires, Answered,
         ReadFails, ReadExpires, TimerFires, CloseSocket, ResolveFails, Deadline, Cancel,
         probeVars, udpOwnVars

\* The verdict on a datagram is what the socket has said.
LEMMA UDPKeeps ==
    ASSUME UDPInv, pc = "returned"
    PROVE  Contract!Supported(status, AllHeard)
PROOF
  <1>1. layer = "udp" /\ AllHeard = IF heard = "silence" THEN {} ELSE {StatusOf(heard)}
    BY AllHeardOf DEF UDPInv, UDPTypeOK
  <1>2. CASE Heeded
    <2>1. heard \in Errors \cup {""} /\ heard # "silence"
      BY <1>2, SocketErrors DEF Heeded, Errors
    <2>2. status \in {"pass", "fail", "timeout", "unknown"} /\ AllHeard = {status}
      BY <1>1, <1>2, <2>1, WordTyped DEF Heeded
    <2> QED BY <2>2 DEF Contract!Supported
  <1>3. CASE status = "skipped" /\ heard = "silence"
    BY <1>1, <1>3 DEF Contract!Supported
  <1> QED BY <1>2, <1>3 DEF UDPInv

-----------------------------------------------------------------------------
(* The lookups *)

\* A lookup comes to something.
LEMMA ReturnsSomething ==
    ASSUME DNSInv, NEW f \in Families, NEW r \in Returned(f)
    PROVE  r # "none"
PROOF
  <1>1. ctx \in {"live", "expired", "cancelled"} /\ net[f] \in Answers
    BY DEF DNSInv, DNSTypeOK
  <1>2. Answer(f) # "none"
    BY <1>1 DEF Answer, Answers
  <1>3. r = Answer(f) \/ r = "timeout" \/ r = "error"
    BY <1>1 DEF Returned
  <1> QED BY <1>2, <1>3

\* The first lookup is of a family that is wanted.
LEMMA FirstAsked == DNSInit => Asked
PROOF
  <1> SUFFICES ASSUME DNSInit PROVE Asked
    OBVIOUS
  <1>1. want \in {"any", "ipv4", "ipv6"}
    BY DNSAssumption DEF DNSInit, DNSAssumption
  <1> QED BY <1>1 DEF DNSInit, Asked, Wanted, Families

\* The lookups are made in turn, and each of a family that is wanted.
LEMMA AskedStep ==
    ASSUME DNSInv, Asked, DNSNext
    PROVE  Asked'
PROOF
  <1>1. /\ want \in {"any", "ipv4", "ipv6"} /\ Wanted \subseteq Families /\ Wanted # {}
        /\ result \in [Families -> Results] /\ DNSTypeOK
    BY WantedTyped, DNSAssumption DEF DNSInv, DNSTypeOK, DNSAssumption
  <1>2. ASSUME NEW f \in Families, Lookup(f) PROVE Asked'
    <2>1. PICK r \in Returned(f) :
              /\ result' = [result EXCEPT ![f] = r]
              /\ pc' = IF f = "ipv4" /\ want = "any" /\ ~Stops(r) THEN "ipv6" ELSE "verdict"
      BY <1>2 DEF Lookup
    <2>2. pc = f /\ UNCHANGED <<resolver, want>> /\ r # "none"
      BY <1>2, <2>1, ReturnsSomething DEF Lookup
    <2>3. /\ result'[f] = r
          /\ \A g \in Families : g # f => result'[g] = result[g]
          /\ Wanted' = Wanted
          /\ f \in Wanted
      BY <1>1, <2>1, <2>2 DEF Wanted, Asked
    <2>4. \A g \in Families : g \notin Wanted' => result'[g] = "none"
      BY <2>3 DEF Asked
    <2>5. CASE f = "ipv4" /\ want = "any" /\ ~Stops(r)
      <3>1. pc' = "ipv6" /\ result'["ipv6"] = "none" /\ Wanted = Families
        BY <2>1, <2>2, <2>3, <2>5 DEF Asked, Families, Wanted
      <3>2. \A g \in Wanted' : g # "ipv6" => result'[g] # "none"
        BY <2>2, <2>3, <2>5, <3>1 DEF Families
      <3> QED BY <2>3, <2>4, <3>1, <3>2 DEF Asked, Families
    <2>6. CASE ~(f = "ipv4" /\ want = "any" /\ ~Stops(r))
      <3>1. pc' = "verdict" /\ \E g \in Wanted' : result'[g] # "none"
        BY <2>1, <2>2, <2>3, <2>6
      <3>2. (\A g \in Wanted' : result'[g] # "none") \/ (\E g \in Wanted' : Stops(result[g])')
        <4>1. CASE f = "ipv6"
          BY <2>2, <2>3, <4>1 DEF Asked, Families, Wanted
        <4>2. CASE f = "ipv4" /\ want # "any"
          BY <1>1, <2>2, <2>3, <4>2 DEF Wanted
        <4>3. CASE f = "ipv4" /\ Stops(r)
          BY <2>2, <2>3, <4>3 DEF Stops
        <4> QED BY <2>6, <4>1, <4>2, <4>3 DEF Families
      <3> QED BY <2>4, <3>1, <3>2 DEF Asked, Families
    <2> QED BY <2>5, <2>6
  <1>3. CASE Verdict
    <2>1. pc = "verdict" /\ pc' = "returned" /\ UNCHANGED <<resolver, want, result>>
      BY <1>3 DEF Verdict
    <2> QED BY <2>1 DEF Asked, Wanted, Stops, Families
  <1>4. CASE Overtake
    BY <1>4 DEF Overtake, Deadline, Cancel, Asked, Wanted, Stops, Families
  <1> QED BY <1>2, <1>3, <1>4 DEF DNSNext, Families

\* What a lookup has come to stays so, and nothing happens after the verdict.
LEMMA DNSHears ==
    ASSUME DNSInv, Asked, DNSNext
    PROVE  /\ pc # "returned"
           /\ UNCHANGED <<resolver, want>>
           /\ \A f \in Families : result[f] # "none" => result'[f] = result[f]
PROOF
  <1>1. result \in [Families -> Results]
    BY DEF DNSInv, DNSTypeOK
  <1>2. ASSUME NEW f \in Families, Lookup(f)
        PROVE  /\ pc # "returned" /\ UNCHANGED <<resolver, want>>
               /\ \A g \in Families : result[g] # "none" => result'[g] = result[g]
    <2>1. PICK r \in Returned(f) : result' = [result EXCEPT ![f] = r]
      BY <1>2 DEF Lookup
    <2>2. pc = f /\ UNCHANGED <<resolver, want>>
      BY <1>2 DEF Lookup
    <2>3. result[f] = "none"
      BY <2>2 DEF Asked, Families
    <2> QED BY <1>1, <2>1, <2>2, <2>3 DEF Families
  <1> QED BY <1>2 DEF DNSNext, Verdict, Overtake, Deadline, Cancel, Families

\* The verdict is supported by what the lookups have come to, with the two
\* laxities of looking up both families.
LEMMA VerdictKeeps ==
    ASSUME DNSInv, Asked, Verdict
    PROVE  Contract!Supported(status, AllHeard)'
PROOF
  <1>1. /\ pc = "verdict" /\ layer' = "dns" /\ UNCHANGED <<resolver, want, result>>
        /\ resolver = "system" => SystemVerdict
        /\ resolver # "system" => PublicVerdict
    BY DEF Verdict, DNSInv, DNSTypeOK
  <1>2. /\ resolver \in {"system", "public"} /\ want \in {"any", "ipv4", "ipv6"}
        /\ Wanted \subseteq Families /\ Wanted # {}
        /\ result \in [Families -> Results]
    BY WantedTyped, DNSAssumption DEF DNSInv, DNSTypeOK, DNSAssumption
  <1> DEFINE H == AllHeard'
  <1>3. H = {WordOf(result[f]) : f \in {f \in Families : result[f] # "none"}}
    <2>1. (layer = "dns" =>
             AllHeard = {WordOf(result[f]) : f \in {f \in Families : result[f] # "none"}})'
      BY AllHeardOf, PTL
    <2> QED BY <1>1, <2>1 DEF WordOf
  <1> HIDE DEF H
  <1>4. /\ \A f \in Wanted : result[f] # "none" => WordOf(result[f]) \in H
        /\ \A h \in H : \E f \in Wanted : result[f] # "none" /\ h = WordOf(result[f])
    BY <1>2, <1>3 DEF Asked
  <1>5. H # {}
    BY <1>1, <1>4 DEF Asked
  <1>6. Found = {} => "pass" \notin H
    BY <1>4 DEF Found, WordOf
  <1>7. /\ Laxity' = IF want # "any" THEN "none"
                     ELSE IF resolver = "system" THEN "merges" ELSE "spoils"
    BY <1>1 DEF Laxity
  <1>8. \A r : /\ r = "timeout" => WordOf(r) = "timeout" /\ ErrorStatus(r) = "timeout"
               /\ r \notin {"timeout", "addresses"} => WordOf(r) = "fail" /\ ErrorStatus(r) = "fail"
    BY DEF WordOf, ErrorStatus
  <1>9. Found # {} => "pass" \in H
    BY <1>4 DEF Found, WordOf
  <1>10. want # "any" => Wanted = {want} /\ result[want] # "none"
    <2>1. want # "any" => Wanted = {want}
      BY DEF Wanted
    <2> QED BY <1>1, <2>1 DEF Asked
  <1>11. /\ status' \in {"pass", "fail", "timeout"}
         /\ status' = "pass" => "pass" \in H
         /\ "pass" \in H => status' = "pass" \/ Laxity' = "spoils"
         /\ status' = "fail" => "fail" \in H \/ Laxity' = "merges"
         /\ status' = "timeout" => "timeout" \in H
    <2>1. CASE resolver = "system" /\ Found # {}
      BY <1>1, <1>9, <2>1 DEF SystemVerdict
    <2>2. CASE resolver = "system" /\ Found = {} /\ want = "any"
      BY <1>1, <1>6, <1>7, <2>2 DEF SystemVerdict
    <2>3. CASE resolver = "system" /\ Found = {} /\ want # "any"
      <3>1. status' = ErrorStatus(result[want])
        BY <1>1, <2>3 DEF SystemVerdict
      <3>2. result[want] # "addresses" /\ WordOf(result[want]) \in H
        BY <1>4, <1>10, <2>3 DEF Found
      <3> QED BY <1>6, <1>8, <2>3, <3>1, <3>2
    <2>4. CASE resolver = "public"
      <3> DEFINE coded == {f \in Wanted : result[f] \in {"not_found", "temporary"}}
      <3>1. CASE coded # {}
        <4>1. status' = "fail"
          BY <1>1, <2>4, <3>1 DEF PublicVerdict
        <4>2. PICK g \in Wanted : result[g] \in {"not_found", "temporary"}
          BY <3>1
        <4>3. "fail" \in H
          BY <1>4, <1>8, <4>2
        <4>4. want # "any" => Found = {}
          BY <1>10, <4>2 DEF Found
        <4> QED BY <1>6, <1>7, <2>4, <4>1, <4>3, <4>4
      <3>2. CASE coded = {} /\ LastError # "none"
        <4>1. status' = ErrorStatus(LastError)
          BY <1>1, <2>4, <3>2 DEF PublicVerdict
        <4>2. PICK g \in Wanted : result[g] = LastError /\ result[g] \in {"timeout", "error"}
          BY <1>2, <3>2 DEF LastError, Families
        <4>3. WordOf(result[g]) \in H
          BY <1>4, <4>2
        <4>4. want # "any" => Found = {}
          BY <1>10, <4>2 DEF Found
        <4> QED BY <1>6, <1>7, <1>8, <2>4, <4>1, <4>2, <4>3, <4>4
      <3>3. CASE coded = {} /\ LastError = "none" /\ Found # {}
        BY <1>1, <1>9, <2>4, <3>3 DEF PublicVerdict
      <3>4. CASE coded = {} /\ LastError = "none" /\ Found = {}
        <4>1. status' = "fail"
          BY <1>1, <2>4, <3>4 DEF PublicVerdict
        <4>2. \A f \in Wanted : ~Stops(result[f])
          BY <3>4 DEF Stops
        <4>3. PICK g \in Wanted : result[g] # "none"
          BY <1>1 DEF Asked
        <4>4. result[g] \notin {"timeout", "error"}
          BY <1>2, <3>4, <4>3 DEF LastError, Families
        <4>5. WordOf(result[g]) = "fail" /\ WordOf(result[g]) \in H
          BY <1>4, <1>8, <3>4, <4>3, <4>4 DEF Found
        <4> QED BY <1>6, <3>4, <4>1, <4>5
      <3> QED BY <3>1, <3>2, <3>3, <3>4
    <2> QED BY <1>2, <2>1, <2>2, <2>3, <2>4
  <1> QED BY <1>5, <1>11 DEF H, Contract!Supported

-----------------------------------------------------------------------------
(* The failover *)

\* A reply passes only if it is an answer below 400.
LEMMA ReplyWord ==
    ASSUME NEW r \in Replies
    PROVE  /\ HTTPStatusOf(r) \in {"pass", "fail", "timeout", "unknown"}
           /\ HTTPStatusOf(r) = "pass" <=> r = ""
PROOF
  <1>1. CASE r = "rejected"
    <2>1. HTTPStatusOf(r) = "fail"
      BY <1>1, Zenon DEF HTTPStatusOf, StatusOf
    <2> QED BY <1>1, <2>1
  <1>2. CASE r = "alert"
    BY <1>2 DEF HTTPStatusOf
  <1>3. CASE r \in Errors \cup {""} /\ r # "alert"
    <2>1. HTTPStatusOf(r) = StatusOf(r)
      BY <1>3 DEF HTTPStatusOf
    <2>2. StatusOf(r) = "pass" <=> r = ""
      BY <1>3, ErrTyped DEF Errs
    <2> QED BY <1>3, <2>1, <2>2, WordTyped
  <1> QED BY <1>1, <1>2, <1>3 DEF Replies, HTTPAnswers

\* A request under way comes to something: an answer concludes the probe,
\* and an error goes on to the next address if there is one.
LEMMA RequestComes ==
    ASSUME HTTPInv, HTTPRequest
    PROVE  \E reply \in Replies, ticks \in Int :
              /\ Comes(reply, ticks)
              /\ \/ ConcludeWith(reply)
                 \/ reply \notin HTTPAnswers /\ UNCHANGED <<pc, status>>
PROOF
  <1>1. pc = "try"
    BY DEF HTTPRequest, PeerAnswers, PeerFails, SliceEnds, Interrupted, DeadRequest
  <1>2. TimeLeft \in Nat /\ Delay \in Nat
    BY <1>1, AttemptTyped, CurrentPeer
  <1>3. ASSUME NEW reply \in Errors, NextPeer(reply)
        PROVE  reply \in Replies /\ reply \notin HTTPAnswers
               /\ (ConcludeWith(reply) \/ UNCHANGED <<pc, status>>)
    BY <1>3 DEF NextPeer, Replies, HTTPAnswers, Errors
  <1>4. CASE PeerAnswers
    <2>1. PICK ticks \in Delay..TimeLeft : Comes(Reply, ticks)
      BY <1>4 DEF PeerAnswers
    <2>2. ConcludeWith(Reply) /\ Reply \in Replies
      BY <1>4 DEF PeerAnswers, Replies
    <2> QED BY <2>1, <2>2
  <1>5. CASE PeerFails
    <2>1. Reply \in Errors
      BY <1>5, HTTPAssumption DEF PeerFails, HTTPAssumption
    <2> QED BY <1>2, <1>3, <1>5, <2>1 DEF PeerFails
  <1>6. CASE SliceEnds
    <2>1. "timeout" \in Errors
      BY DEF Errors
    <2> QED BY <1>2, <1>3, <1>6, <2>1 DEF SliceEnds
  <1>7. CASE Interrupted
    <2>1. "canceled" \in Errors
      BY DEF Errors
    <2>2. PICK ticks \in 0..TimeLeft : Comes("canceled", ticks)
      BY <1>7 DEF Interrupted
    <2> QED BY <1>3, <1>7, <2>1, <2>2 DEF Interrupted
  <1>8. CASE DeadRequest
    <2> DEFINE reply == IF ctx = "expired" THEN "timeout" ELSE "canceled"
    <2>1. reply \in Errors
      BY DEF Errors
    <2>2. Comes(reply, 0) /\ NextPeer(reply)
      BY <1>8 DEF DeadRequest
    <2> HIDE DEF reply
    <2>3. 0 \in Int
      OBVIOUS
    <2> QED BY <1>3, <2>1, <2>2, <2>3
  <1> QED BY <1>4, <1>5, <1>6, <1>7, <1>8 DEF HTTPRequest

\* The loop goes past errors only.
LEMMA LastDecidesStep ==
    ASSUME HTTPInv, LastDecides, HTTPNext
    PROVE  LastDecides'
PROOF
  <1>1. tried \in Seq(Replies) /\ Len(tried) \in Nat
    BY DEF HTTPInv, HTTPTypeOK
  <1>2. CASE HTTPRequest
    <2>1. pc = "try"
      BY <1>2 DEF HTTPRequest, PeerAnswers, PeerFails, SliceEnds, Interrupted, DeadRequest
    <2>2. PICK reply \in Replies, ticks \in Int :
              /\ Comes(reply, ticks)
              /\ \/ ConcludeWith(reply)
                 \/ reply \notin HTTPAnswers /\ UNCHANGED <<pc, status>>
      BY <1>2, RequestComes
    <2>3. tried' = Append(tried, reply)
      BY <2>2 DEF Comes
    <2>4. /\ Len(tried') = Len(tried) + 1 /\ tried' # << >>
          /\ tried'[Len(tried')] = reply
          /\ \A i \in 1..Len(tried) : tried'[i] = tried[i]
      BY <1>1, <2>3
    <2>5. \A i \in 1..Len(tried') : i \in 1..Len(tried) \/ i = Len(tried')
      BY <1>1, <2>4
    <2>6. \A i \in 1..Len(tried') : i < Len(tried') => tried'[i] \notin HTTPAnswers
      <3>1. Len(tried') \in Nat
        BY <1>1, <2>4
      <3> QED BY <2>1, <2>4, <2>5, <3>1 DEF LastDecides
    <2>7. CASE ConcludeWith(reply)
      BY <2>4, <2>6, <2>7 DEF LastDecides, ConcludeWith
    <2>8. CASE reply \notin HTTPAnswers /\ UNCHANGED <<pc, status>>
      <3>1. \A i \in 1..Len(tried') : tried'[i] \notin HTTPAnswers
        BY <2>1, <2>4, <2>5, <2>8 DEF LastDecides
      <3> QED BY <2>1, <2>8, <3>1 DEF LastDecides
    <2> QED BY <2>2, <2>7, <2>8
  <1>3. CASE ResolvePeers
    <2>1. tried = << >> /\ tried' = tried /\ pc' = "try"
      BY <1>3 DEF ResolvePeers, HTTPInv
    <2>2. Len(tried') = 0
      BY <2>1
    <2> QED BY <2>1, <2>2 DEF LastDecides
  <1>4. CASE ResolutionEnds /\ UNCHANGED failoverVars
    <2>1. tried = << >> /\ tried' = tried
      BY <1>4 DEF ResolutionEnds, ResolveFails, HTTPInv, failoverVars
    <2>2. pc' = "resolve" \/ (pc' = "returned" /\ status' = "skipped")
      BY <1>4 DEF ResolutionEnds, ResolveFails, Cancel
    <2> QED BY <2>1, <2>2 DEF LastDecides
  <1> QED BY <1>2, <1>3, <1>4 DEF HTTPNext

\* What has come of an address stays so.
LEMMA HTTPHears ==
    ASSUME HTTPInv, HTTPNext
    PROVE  pc # "returned" /\ \A i \in DOMAIN tried : i \in DOMAIN tried' /\ tried'[i] = tried[i]
PROOF
  <1>1. tried \in Seq(Replies)
    BY DEF HTTPInv, HTTPTypeOK
  <1>2. CASE HTTPRequest
    <2>1. pc = "try"
      BY <1>2 DEF HTTPRequest, PeerAnswers, PeerFails, SliceEnds, Interrupted, DeadRequest
    <2>2. PICK reply \in Replies : tried' = Append(tried, reply)
      BY <1>2, RequestComes DEF Comes
    <2> QED BY <1>1, <2>1, <2>2
  <1>3. CASE ResolvePeers \/ (ResolutionEnds /\ UNCHANGED failoverVars)
    BY <1>3 DEF ResolvePeers, ResolutionEnds, ResolveFails, failoverVars
  <1> QED BY <1>2, <1>3 DEF HTTPNext

\* The verdict of the failover is the last address's word, and an answer is
\* the last word.
LEMMA HTTPKeeps ==
    ASSUME HTTPInv, LastDecides, pc = "returned"
    PROVE  Contract!Supported(status, AllHeard)
PROOF
  <1>1. layer = "http" /\ AllHeard = {HTTPStatusOf(tried[i]) : i \in DOMAIN tried}
    BY AllHeardOf DEF HTTPInv, HTTPTypeOK
  <1>2. tried \in Seq(Replies)
    BY DEF HTTPInv, HTTPTypeOK
  <1>3. CASE status = "skipped" /\ tried = << >>
    BY <1>1, <1>3 DEF Contract!Supported
  <1>4. CASE /\ tried # << >>
             /\ status = HTTPStatusOf(tried[Len(tried)])
             /\ \A i \in 1..Len(tried) : i < Len(tried) => tried[i] \notin HTTPAnswers
    <2>1. /\ Len(tried) \in Nat /\ Len(tried) >= 1 /\ DOMAIN tried = 1..Len(tried)
          /\ \A i \in 1..Len(tried) : tried[i] \in Replies
      BY <1>2, <1>4
    <2>2. Len(tried) \in 1..Len(tried)
      BY <2>1
    <2>3. status \in AllHeard
      BY <1>1, <1>4, <2>1, <2>2
    <2>4. status \in {"pass", "fail", "timeout", "unknown"}
      BY <1>4, <2>1, <2>2, ReplyWord
    <2>5. "pass" \in AllHeard => status = "pass"
      <3> SUFFICES ASSUME "pass" \in AllHeard PROVE status = "pass"
        OBVIOUS
      <3>0. PICK i \in DOMAIN tried : HTTPStatusOf(tried[i]) = "pass"
        BY <1>1
      <3>1. i \in 1..Len(tried) /\ HTTPStatusOf(tried[i]) = "pass"
        BY <2>1, <3>0
      <3>2. tried[i] \in HTTPAnswers
        BY <2>1, <3>1, ReplyWord DEF HTTPAnswers
      <3>3. i = Len(tried)
        BY <1>4, <2>1, <3>2
      <3> QED BY <1>4, <3>1, <3>3
    <2> QED BY <2>3, <2>4, <2>5 DEF Contract!Supported
  <1> QED BY <1>3, <1>4 DEF LastDecides

-----------------------------------------------------------------------------
(* The set *)

\* The invariant of a layer's probe is that of its layer.
LEMMA LayerOf ==
    /\ AttInv => layer \in AttemptLayers /\ layer \notin {"udp", "dns", "http"}
    /\ UDPInv => layer = "udp" /\ layer \notin AttemptLayers
    /\ DNSInv => layer = "dns" /\ layer \notin AttemptLayers
    /\ HTTPInv => layer = "http" /\ layer \notin AttemptLayers
PROOF
  BY DEF AttInv, AttemptsTypeOK, UDPInv, UDPTypeOK, DNSInv, DNSTypeOK, HTTPInv, HTTPTypeOK,
         AttemptLayers

\* A step of the set is one of the layer's probe.
LEMMA StepOf ==
    ASSUME [Next]_vars
    PROVE  /\ layer \in AttemptLayers => AttemptsNext \/ UNCHANGED attemptsVars
           /\ layer = "udp" => UDPNext \/ UNCHANGED udpVars
           /\ layer = "dns" => DNSNext \/ UNCHANGED dnsVars
           /\ layer = "http" => HTTPNext \/ UNCHANGED httpVars
PROOF
  <1>1. CASE UNCHANGED vars
    BY <1>1 DEF vars, attemptsVars, udpVars, dnsVars, httpVars
  <1>2. CASE Next
    BY <1>2 DEF Next, AttemptsNext, UDPNext, DNSNext, HTTPNext, AttemptLayers
  <1> QED BY <1>1, <1>2

\* The invariant holds when a probe of the set begins.
LEMMA ProbeStart == Init => ProbeInv
PROOF
  <1> SUFFICES ASSUME Init PROVE ProbeInv
    OBVIOUS
  <1>1. CASE AttemptsInit
    BY <1>1, AttemptsStart DEF ProbeInv
  <1>2. CASE UDPInit
    BY <1>2, UDPStart DEF ProbeInv
  <1>3. CASE DNSInit
    <2>1. pc # "returned"
      BY <1>3 DEF DNSInit
    <2> QED BY <1>3, <2>1, DNSStart, FirstAsked DEF ProbeInv, Keeps
  <1>4. CASE HTTPInit
    <2>1. pc = "resolve"
      BY <1>4 DEF HTTPInit, Begin
    <2> QED BY <1>4, <2>1, HTTPStart DEF ProbeInv, LastDecides
  <1> QED BY <1>1, <1>2, <1>3, <1>4 DEF Init

\* Every step of the set keeps it.
LEMMA ProbeStep == ProbeInv /\ [Next]_vars => ProbeInv'
PROOF
  <1> SUFFICES ASSUME ProbeInv, [Next]_vars PROVE ProbeInv'
    OBVIOUS
  <1>1. CASE AttInv
    BY <1>1, LayerOf, StepOf, AttemptsStep DEF ProbeInv
  <1>2. CASE UDPInv
    BY <1>2, LayerOf, StepOf, UDPStep DEF ProbeInv
  <1>3. CASE DNSInv /\ Asked /\ Keeps
    <2>1. DNSNext \/ UNCHANGED dnsVars
      BY <1>3, LayerOf, StepOf
    <2>2. DNSInv'
      BY <1>3, <2>1, DNSStep
    <2>3. CASE DNSNext
      <3>1. Asked'
        BY <1>3, <2>3, AskedStep
      <3>2. Keeps'
        <4>1. CASE Verdict
          BY <1>3, <4>1, VerdictKeeps DEF Keeps
        <4>2. CASE Lookup("ipv4") \/ Lookup("ipv6") \/ Overtake
          <5>1. pc' # "returned"
            BY <4>2 DEF Lookup, Overtake, Deadline, Cancel, Families
          <5> QED BY <5>1 DEF Keeps
        <4> QED BY <2>3, <4>1, <4>2 DEF DNSNext
      <3> QED BY <2>2, <3>1, <3>2 DEF ProbeInv
    <2>4. CASE UNCHANGED dnsVars
      <3>1. UNCHANGED <<layer, pc, status, want, resolver, result>>
        BY <2>4 DEF dnsVars, probeVars, queryVars
      <3>2. Asked'
        BY <1>3, <3>1 DEF Asked, Wanted, Stops, Families
      <3>3. AllHeard' = AllHeard /\ Laxity' = Laxity
        <4>1. layer = "dns"
          BY <1>3, LayerOf
        <4>2. (layer = "dns" =>
                 AllHeard = {WordOf(result[f]) : f \in {f \in Families : result[f] # "none"}})'
          BY AllHeardOf, PTL
        <4> QED BY <3>1, <4>1, <4>2, AllHeardOf DEF WordOf, Laxity
      <3>4. Keeps'
        BY <1>3, <3>1, <3>3 DEF Keeps, Contract!Supported
      <3> QED BY <2>2, <3>2, <3>4 DEF ProbeInv
    <2> QED BY <2>1, <2>3, <2>4
  <1>4. CASE HTTPInv /\ LastDecides
    <2>1. HTTPNext \/ UNCHANGED httpVars
      BY <1>4, LayerOf, StepOf
    <2>2. HTTPInv'
      BY <1>4, <2>1, HTTPStep
    <2>3. CASE UNCHANGED httpVars
      <3>1. UNCHANGED <<pc, status, tried>>
        BY <2>3 DEF httpVars, probeVars, failoverVars
      <3> QED BY <1>4, <2>2, <3>1 DEF LastDecides, ProbeInv
    <2> QED BY <1>4, <2>1, <2>2, <2>3, LastDecidesStep DEF ProbeInv
  <1> QED BY <1>1, <1>2, <1>3, <1>4 DEF ProbeInv

\* Whichever probe has returned supports its status.
LEMMA ProbeKeeps == ProbeInv => Keeps
PROOF BY AttemptsKeep, UDPKeeps, HTTPKeeps DEF ProbeInv, Keeps

\* Every variable of the probe's layer holds what its declaration allows.
LEMMA ProbeTyped == ProbeInv => TypeOK /\ status \in Statuses
PROOF
  BY LayerOf DEF ProbeInv, TypeOK, AttInv, UDPInv, DNSInv, HTTPInv,
                 AttemptsTypeOK, UDPTypeOK, DNSTypeOK, HTTPTypeOK

\* The inductive invariant of the set.
THEOREM ProbeSetInvariant == Spec => []ProbeInv
PROOF BY ProbeStart, ProbeStep, PTL DEF Spec

\* Every variable holds what the code's declaration of it allows.
THEOREM ProbesTyped == Spec => []TypeOK
PROOF BY ProbeTyped, ProbeSetInvariant, PTL

\* What each probe is to keep, it keeps in the set.
LEMMA ProbeSafe ==
    ProbeInv =>
        /\ ReportIsOrdered /\ PassMeansConnected /\ NoConnectionLeft /\ FailureWinsByAggregate
        /\ SilenceIsNoFailure
        /\ NXDOMAINIsCertain /\ AAAASparesA /\ TimeoutIsTimeoutElsewhere
        /\ StalledSparesOthers /\ EveryAddressGetsItsSlice /\ WithinLayerBudget
PROOF
  <1> SUFFICES ASSUME ProbeInv
               PROVE  /\ ReportIsOrdered /\ PassMeansConnected /\ NoConnectionLeft
                      /\ FailureWinsByAggregate
                      /\ SilenceIsNoFailure
                      /\ NXDOMAINIsCertain /\ AAAASparesA /\ TimeoutIsTimeoutElsewhere
                      /\ StalledSparesOthers /\ EveryAddressGetsItsSlice /\ WithinLayerBudget
    OBVIOUS
  <1>1. layer \notin AttemptLayers \/ AttInv
    BY LayerOf DEF ProbeInv
  <1>2. layer # "udp" \/ UDPInv
    BY LayerOf DEF ProbeInv
  <1>3. layer # "dns" \/ DNSInv
    BY LayerOf DEF ProbeInv
  <1>4. layer # "http" \/ HTTPInv
    BY LayerOf DEF ProbeInv
  <1>5. ReportIsOrdered /\ PassMeansConnected /\ NoConnectionLeft /\ FailureWinsByAggregate
    BY <1>1, ReportIsOrderedByInv, PassMeansConnectedByInv, NoConnectionLeftByInv, FailureWinsByInv
       DEF ReportIsOrdered, PassMeansConnected, NoConnectionLeft, FailureWinsByAggregate, Settled
  <1>6. SilenceIsNoFailure
    BY <1>2, SilenceIsNoFailureByInv DEF SilenceIsNoFailure
  <1>7. NXDOMAINIsCertain /\ AAAASparesA /\ TimeoutIsTimeoutElsewhere
    BY <1>3, NXDOMAINIsCertainByInv, AAAASparesAByInv, TimeoutIsTimeoutByInv
       DEF NXDOMAINIsCertain, AAAASparesA, TimeoutIsTimeoutElsewhere, TimeoutIsTimeout, Resolved
  <1>8. StalledSparesOthers /\ EveryAddressGetsItsSlice /\ WithinLayerBudget
    BY <1>4, StalledSparesOthersByInv, EveryAddressGetsItsSliceByInv, WithinLayerBudgetByInv
       DEF StalledSparesOthers, EveryAddressGetsItsSlice, WithinLayerBudget
  <1> QED BY <1>5, <1>6, <1>7, <1>8

\* Whatever the layer of the probe, it keeps what the probe of its layer is
\* to keep.
THEOREM ProbesSafe ==
    Spec => [](/\ ReportIsOrdered /\ PassMeansConnected /\ NoConnectionLeft
               /\ FailureWinsByAggregate
               /\ SilenceIsNoFailure
               /\ NXDOMAINIsCertain /\ AAAASparesA /\ TimeoutIsTimeoutElsewhere
               /\ StalledSparesOthers /\ EveryAddressGetsItsSlice /\ WithinLayerBudget)
PROOF BY ProbeSafe, ProbeSetInvariant, PTL

-----------------------------------------------------------------------------
(* The contract *)

\* A probe that begins has heard nothing.
LEMMA ContractStart == Init => Contract!Init
PROOF
  <1> SUFFICES ASSUME Init PROVE Contract!Init
    OBVIOUS
  <1>1. pc # "returned"
    BY DEF Init, AttemptsInit, UDPInit, DNSInit, HTTPInit, Begin
  <1>2. Laxity \in {"none", "merges", "spoils"}
    BY DEF Laxity
  <1>3. CASE AttemptsInit
    <2>1. layer \in AttemptLayers /\ results = << >> /\ outcomes = << >>
      BY <1>3 DEF AttemptsInit, Begin, AttemptsIdle
    <2>2. Pool = {}
      BY <2>1 DEF Pool, Outcomes
    <2> QED BY <1>1, <1>2, <2>1, <2>2, AllHeardOf DEF Contract!Init
  <1>4. CASE UDPInit
    <2>1. layer = "udp" /\ heard = "silence"
      BY <1>4 DEF UDPInit, Begin, UDPIdle
    <2> QED BY <1>1, <1>2, <2>1, AllHeardOf DEF Contract!Init
  <1>5. CASE DNSInit
    <2>1. layer = "dns" /\ \A f \in Families : result[f] = "none"
      BY <1>5 DEF DNSInit
    <2>2. {f \in Families : result[f] # "none"} = {}
      BY <2>1
    <2> QED BY <1>1, <1>2, <2>1, <2>2, AllHeardOf DEF Contract!Init
  <1>6. CASE HTTPInit
    <2>1. layer = "http" /\ tried = << >>
      BY <1>6 DEF HTTPInit, Begin
    <2> QED BY <1>1, <1>2, <2>1, AllHeardOf DEF Contract!Init
  <1> QED BY <1>3, <1>4, <1>5, <1>6 DEF Init

\* Every word is one of the contract's.
LEMMA HeardTyped == ProbeInv => AllHeard \subseteq Contract!Heard
PROOF
  <1> SUFFICES ASSUME ProbeInv PROVE AllHeard \subseteq Contract!Heard
    OBVIOUS
  <1>1. CASE AttInv
    <2>1. results \in Seq(Outcome) /\ outcomes \in Seq(Outcome)
      BY <1>1 DEF AttInv, AttemptsTypeOK
    <2>2. \A r \in Pool : r \in Outcome
      BY <2>1 DEF Pool, Outcomes
    <2>3. \A r \in Pool : StatusOf(r.err) \in {"pass", "fail", "timeout", "unknown"}
      <3>1. \A r \in Pool : r.err \in Errs
        BY <2>2 DEF Outcome
      <3> QED BY <3>1, ErrTyped
    <2> QED BY <1>1, <2>3, LayerOf, AllHeardOf DEF Contract!Heard
  <1>2. CASE UDPInv
    <2>1. heard \in Errors \cup {"", "silence"}
      BY <1>2 DEF UDPInv, UDPTypeOK
    <2> QED BY <1>2, <2>1, LayerOf, AllHeardOf, WordTyped DEF Contract!Heard
  <1>3. CASE DNSInv
    BY <1>3, LayerOf, AllHeardOf DEF Contract!Heard, WordOf
  <1>4. CASE HTTPInv
    <2>1. \A i \in DOMAIN tried : tried[i] \in Replies
      BY <1>4 DEF HTTPInv, HTTPTypeOK
    <2>2. \A i \in DOMAIN tried : HTTPStatusOf(tried[i]) \in {"pass", "fail", "timeout", "unknown"}
      BY <2>1, ReplyWord
    <2> QED BY <1>4, <2>2, LayerOf, AllHeardOf DEF Contract!Heard
  <1> QED BY <1>1, <1>2, <1>3, <1>4 DEF ProbeInv

\* What has been heard stays so, and a probe that has returned stays as it is.
LEMMA HeardGrows ==
    ASSUME ProbeInv, [Next]_vars
    PROVE  /\ Laxity' = Laxity
           /\ AllHeard \subseteq AllHeard'
           /\ pc = "returned" => UNCHANGED <<pc, status, AllHeard>>
PROOF
  <1>1. ProbeInv'
    BY ProbeStep
  <1>2. /\ (layer \in AttemptLayers => AllHeard = {StatusOf(r.err) : r \in Pool})'
        /\ (layer = "udp" =>
              AllHeard = IF heard = "silence" THEN {} ELSE {StatusOf(heard)})'
        /\ (layer = "dns" =>
              AllHeard = {WordOf(result[f]) : f \in {f \in Families : result[f] # "none"}})'
        /\ (layer = "http" => AllHeard = {HTTPStatusOf(tried[i]) : i \in DOMAIN tried})'
    BY AllHeardOf, PTL
  <1>3. CASE AttInv
    <2>1. layer \in AttemptLayers /\ (AttemptsNext \/ UNCHANGED attemptsVars)
      BY <1>3, LayerOf, StepOf
    <2>2. layer' \in AttemptLayers
      <3>1. AttInv'
        BY <1>3, <2>1, AttemptsStep
      <3> QED BY <3>1 DEF AttInv, AttemptsTypeOK
    <2>3. Laxity' = Laxity
      BY <2>1, <2>2 DEF Laxity, AttemptLayers
    <2>4. AllHeard = {StatusOf(r.err) : r \in Pool} /\ AllHeard' = {StatusOf(r.err) : r \in Pool'}
      BY <1>2, <2>1, <2>2, AllHeardOf
    <2>5. CASE AttemptsNext
      BY <1>3, <2>3, <2>4, <2>5, AttemptsHear
    <2>6. CASE UNCHANGED attemptsVars
      <3>1. Pool' = Pool /\ UNCHANGED <<pc, status>>
        BY <2>6 DEF attemptsVars, probeVars, attemptVars, Pool, Outcomes
      <3> QED BY <2>3, <2>4, <3>1
    <2> QED BY <2>1, <2>5, <2>6
  <1>4. CASE UDPInv
    <2>1. layer = "udp" /\ (UDPNext \/ UNCHANGED udpVars)
      BY <1>4, LayerOf, StepOf
    <2>2. layer' = "udp"
      BY <1>4, <2>1, UDPStep DEF UDPInv, UDPTypeOK
    <2>3. Laxity' = Laxity
      BY <2>1, <2>2 DEF Laxity
    <2>4. /\ AllHeard = IF heard = "silence" THEN {} ELSE {StatusOf(heard)}
          /\ AllHeard' = IF heard' = "silence" THEN {} ELSE {StatusOf(heard')}
      BY <1>2, <2>1, <2>2, AllHeardOf
    <2>5. \/ pc # "returned" /\ (heard = "silence" \/ heard' = heard)
          \/ UNCHANGED <<pc, status, heard>>
      BY <1>4, <2>1, UDPHears DEF udpVars, probeVars, udpOwnVars
    <2> QED BY <2>3, <2>4, <2>5
  <1>5. CASE DNSInv /\ Asked
    <2>1. layer = "dns" /\ (DNSNext \/ UNCHANGED dnsVars)
      BY <1>5, LayerOf, StepOf
    <2>2. layer' = "dns"
      BY <1>5, <2>1, DNSStep DEF DNSInv, DNSTypeOK
    <2>3. /\ UNCHANGED <<resolver, want>>
          /\ \A f \in Families : result[f] # "none" => result'[f] = result[f]
          /\ pc = "returned" => UNCHANGED <<pc, status, result>>
      <3>1. CASE DNSNext
        BY <1>5, <3>1, DNSHears
      <3>2. CASE UNCHANGED dnsVars
        BY <3>2 DEF dnsVars, probeVars, queryVars
      <3> QED BY <2>1, <3>1, <3>2
    <2>4. Laxity' = Laxity
      BY <2>1, <2>2, <2>3 DEF Laxity
    <2>5. /\ AllHeard = {WordOf(result[f]) : f \in {f \in Families : result[f] # "none"}}
          /\ AllHeard' = {WordOf(result'[f]) : f \in {f \in Families : result'[f] # "none"}}
      BY <1>2, <2>1, <2>2, AllHeardOf DEF WordOf
    <2>6. AllHeard \subseteq AllHeard'
      BY <2>3, <2>5
    <2> QED BY <2>3, <2>4, <2>5, <2>6
  <1>6. CASE HTTPInv
    <2>1. layer = "http" /\ (HTTPNext \/ UNCHANGED httpVars)
      BY <1>6, LayerOf, StepOf
    <2>2. layer' = "http"
      BY <1>6, <2>1, HTTPStep DEF HTTPInv, HTTPTypeOK
    <2>3. Laxity' = Laxity
      BY <2>1, <2>2 DEF Laxity
    <2>4. /\ AllHeard = {HTTPStatusOf(tried[i]) : i \in DOMAIN tried}
          /\ AllHeard' = {HTTPStatusOf(tried'[i]) : i \in DOMAIN tried'}
      BY <1>2, <2>1, <2>2, AllHeardOf
    <2>5. CASE HTTPNext
      BY <1>6, <2>3, <2>4, <2>5, HTTPHears
    <2>6. CASE UNCHANGED httpVars
      BY <2>3, <2>4, <2>6 DEF httpVars, probeVars, failoverVars
    <2> QED BY <2>1, <2>5, <2>6
  <1> QED BY <1>3, <1>4, <1>5, <1>6 DEF ProbeInv

\* A step of a probe is one of the contract: it hears something, or reports
\* once and for all.
LEMMA ContractStep ==
    ProbeInv /\ ProbeInv' /\ [Next]_vars => [Contract!Next]_(Contract!vars)
PROOF
  <1> SUFFICES ASSUME ProbeInv, ProbeInv', [Next]_vars
               PROVE  [Contract!Next]_(Contract!vars)
    OBVIOUS
  <1>1. /\ Laxity' = Laxity
        /\ AllHeard \subseteq AllHeard'
        /\ pc = "returned" => UNCHANGED <<pc, status, AllHeard>>
    BY HeardGrows
  <1>2. AllHeard' \subseteq Contract!Heard
    <2>1. (ProbeInv => AllHeard \subseteq Contract!Heard)'
      BY HeardTyped, PTL
    <2> QED BY <2>1 DEF Contract!Heard
  <1>3. (TypeOK /\ status \in Statuses)' /\ Keeps'
    BY ProbeTyped, ProbeKeeps, PTL
  <1>4. CASE pc = "returned"
    BY <1>1, <1>4 DEF Contract!vars
  <1>5. CASE pc # "returned" /\ pc' # "returned"
    BY <1>1, <1>2, <1>5 DEF Contract!Next, Contract!Hear, Contract!Heard
  <1>6. CASE pc # "returned" /\ pc' = "returned"
    <2>1. status' \in Contract!Heard \cup {"skipped"} /\ status' # "none"
      BY <1>3 DEF Statuses, Contract!Heard
    <2>2. Contract!Supported(status', AllHeard')
      BY <1>1, <1>3, <1>6 DEF Keeps, Contract!Supported
    <2>3. AllHeard' = AllHeard \cup AllHeard'
      BY <1>1
    <2>4. Contract!Report
      BY <1>1, <1>2, <1>6, <2>1, <2>2, <2>3 DEF Contract!Report
    <2> QED BY <2>4 DEF Contract!Next
  <1> QED BY <1>4, <1>5, <1>6

\* Every probe implements the contract of the probes: it reports once, a
\* status that what it has heard supports.
THEOREM ProbesImplementContract == Spec => ImplementsContract
PROOF BY ContractStart, ContractStep, ProbeSetInvariant, PTL
      DEF Spec, ImplementsContract, Contract!Spec
=============================================================================
