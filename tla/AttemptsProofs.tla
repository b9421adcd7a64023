--------------------------- MODULE AttemptsProofs ---------------------------
(***************************************************************************)
(* The connections and the verdict of a TCP, TLS or QUIC probe, for every  *)
(* number of addresses and slots and every order in which they answer.     *)
(***************************************************************************)
EXTENDS Attempts, FiniteSetTheorems, WellFoundedInduction, TLAPS

Carries(outs, a) == \E i \in 1..Len(outs) : outs[i].addr = a
Passes(outs, a)  == \E i \in 1..Len(outs) : outs[i].addr = a /\ outs[i].err = ""

Distinct(outs) == \A i, k \in 1..Len(outs) : outs[i].addr = outs[k].addr => i = k

\* Before the name resolves, and if it does not, there is nothing.
Idle ==
    /\ pc = "resolve" \/ status = "skipped" => AttemptsIdle
    /\ pc = "resolve" => status = "unknown"
    /\ status = "skipped" => pc = "returned"

\* Every address that has sent its result is in the channel or among the
\* outcomes, once.
Delivered ==
    /\ Distinct(results) /\ Distinct(outcomes)
    /\ \A a \in 1..MaxAddresses : ~(Carries(results, a) /\ Carries(outcomes, a))
    /\ \A a \in 1..MaxAddresses :
          Carries(results, a) \/ Carries(outcomes, a) <=> a \in Addresses /\ attempt[a] = "sent"

\* Who has an open connection while the probe collects.
Connected(a) ==
    \/ attempt[a] = "handshaking"
    \/ Passes(results, a)
    \/ IF layer = "tls" THEN Passes(outcomes, a) ELSE a = winner

Collecting ==
    pc = "collect" =>
        /\ addrs >= 1
        /\ status = "unknown"
        /\ open = {a \in Addresses : Connected(a)}
        /\ layer = "tls" => winner = 0
        /\ layer # "tls" => \A a \in Addresses : attempt[a] # "handshaking"
        /\ layer # "tls" => \A a \in Addresses : Passes(outcomes, a) => winner # 0
        /\ layer # "tls" /\ winner # 0 => Passes(outcomes, winner)

\* What the outcomes, in the resolver's order, make of the name.
Judged ==
    /\ addrs >= 1
    /\ results = << >>
    /\ Len(outcomes) = addrs
    /\ \A a \in Addresses : outcomes[a].addr = a /\ attempt[a] = "sent"
    /\ winner # 0 => outcomes[winner].err = ""
    /\ (\E a \in Addresses : outcomes[a].err = "") => winner # 0
    /\ layer = "tls" => \A b \in Addresses : b < winner => outcomes[b].err # ""

\* The evidence of a failure.
Evident ==
    /\ kind # "" =>
          \E a \in Addresses :
              /\ KindOf(outcomes[a].err) = kind
              /\ \A b \in Addresses : b < a => StatusOf(outcomes[b].err) # status
    /\ layer # "tls" =>
          \A a \in Addresses : StatusOf(outcomes[a].err) = "fail" => status = "fail"
    /\ \E a \in Addresses : StatusOf(outcomes[a].err) = status

Reported ==
    pc \in {"request", "settled", "returned"} /\ status # "skipped" =>
        /\ Judged
        /\ pc = "request" => winner # 0
        /\ pc = "returned" => open = {}
        /\ pc # "returned" => open = {a \in Addresses : a = winner}
        /\ pc # "request" => (status = "pass" <=> winner # 0)
        /\ pc # "request" /\ status # "pass" => Evident

AttInv ==
    /\ AttemptsTypeOK
    /\ Idle
    /\ Delivered
    /\ Collecting
    /\ Reported

-----------------------------------------------------------------------------
(* Lemmas on the data *)

\* A set of positions has a first.
LEMMA FirstIsLeast ==
    ASSUME NEW S, S \subseteq Nat, S # {}
    PROVE  FirstOf(S) \in S /\ \A b \in S : FirstOf(S) <= b
PROOF
  <1>1. PICK a \in S : \A b \in S : ~ (<<b, a>> \in OpToRel(<, Nat))
    BY NatLessThanWellFounded, WFMin, Zenon
  <1>2. \A b \in S : b \in Nat /\ a \in Nat
    OBVIOUS
  <1>3. \A b \in S : ~(b < a)
    BY <1>1, <1>2, Zenon DEF OpToRel
  <1>4. \A b \in S : a <= b
    BY <1>2, <1>3
  <1> QED BY <1>4 DEF FirstOf

\* The status and the kind of any outcome.
LEMMA ErrTyped ==
    ASSUME NEW e \in Errs
    PROVE  /\ StatusOf(e) \in {"pass", "fail", "timeout", "unknown"}
           /\ StatusOf(e) = "pass" <=> e = ""
           /\ KindOf(e) \in AttemptKinds
PROOF
  <1>1. CASE e = ""
    BY <1>1 DEF StatusOf, KindOf, AttemptKinds, Errs
  <1>2. CASE e \in {"timeout", "canceled"}
    BY <1>2 DEF StatusOf, KindOf, AttemptKinds, Errs, Errors
  <1>3. CASE e = "other"
    BY <1>3 DEF StatusOf, KindOf, AttemptKinds, Errs, Errors
  <1>4. CASE e \notin {"", "timeout", "canceled", "other"}
    <2>1. StatusOf(e) = "fail"
      BY <1>4, Zenon DEF StatusOf
    <2>2. KindOf(e) = e
      BY <1>4, Zenon DEF KindOf
    <2> QED BY <1>4, <2>1, <2>2 DEF AttemptKinds
  <1> QED BY <1>1, <1>2, <1>3, <1>4

\* Whatever a dial or a handshake fails with is an error.
LEMMA FailureTyped ==
    ASSUME NEW S, S \subseteq Errors, ctx \in {"live", "expired", "cancelled"},
           NEW e \in MayFail(S)
    PROVE  e \in Errs /\ e # ""
PROOF
  <1>1. e \in S \/ e = "timeout" \/ e = "canceled"
    BY DEF MayFail
  <1> QED BY <1>1 DEF Errs, Errors

\* What joins a sequence of outcomes at its end.
LEMMA Appended ==
    ASSUME NEW outs \in Seq(Outcome), NEW r \in Outcome
    PROVE  /\ Append(outs, r) \in Seq(Outcome)
           /\ \A a : Carries(Append(outs, r), a) <=> Carries(outs, a) \/ r.addr = a
           /\ \A a : Passes(Append(outs, r), a) <=>
                       Passes(outs, a) \/ (r.addr = a /\ r.err = "")
           /\ Distinct(outs) /\ ~Carries(outs, r.addr) => Distinct(Append(outs, r))
PROOF
  <1> DEFINE new == Append(outs, r)
  <1>1. /\ new \in Seq(Outcome) /\ Len(outs) \in Nat /\ Len(new) = Len(outs) + 1
        /\ \A i \in 1..Len(outs) : new[i] = outs[i]
        /\ new[Len(new)] = r
    OBVIOUS
  <1>2. \A i : i \in 1..Len(new) <=> i \in 1..Len(outs) \/ i = Len(new)
    BY <1>1
  <1>3. Len(new) \notin 1..Len(outs)
    BY <1>1
  <1> HIDE DEF new
  <1>4. \A a : Carries(new, a) <=> Carries(outs, a) \/ r.addr = a
    BY <1>1, <1>2 DEF Carries
  <1>5. \A a : Passes(new, a) <=> Passes(outs, a) \/ (r.addr = a /\ r.err = "")
    BY <1>1, <1>2 DEF Passes
  <1>6. ASSUME Distinct(outs), ~Carries(outs, r.addr) PROVE Distinct(new)
    BY <1>1, <1>2, <1>6 DEF Distinct, Carries
  <1> QED BY <1>1, <1>4, <1>5, <1>6 DEF new

\* What leaves a sequence of outcomes at its head.
LEMMA HeadTaken ==
    ASSUME NEW outs \in Seq(Outcome), outs # << >>, Distinct(outs)
    PROVE  /\ Head(outs) \in Outcome
           /\ Tail(outs) \in Seq(Outcome)
           /\ \A a : Carries(outs, a) <=> Carries(Tail(outs), a) \/ Head(outs).addr = a
           /\ \A a : Passes(outs, a) <=>
                       Passes(Tail(outs), a) \/ (Head(outs).addr = a /\ Head(outs).err = "")
           /\ ~Carries(Tail(outs), Head(outs).addr)
           /\ Distinct(Tail(outs))
PROOF
  <1> DEFINE rest == Tail(outs)
             head == Head(outs)
  <1>1. /\ rest \in Seq(Outcome) /\ Len(outs) \in Nat \ {0} /\ Len(rest) = Len(outs) - 1
        /\ \A i \in 1..Len(rest) : rest[i] = outs[i + 1]
        /\ head = outs[1] /\ head \in Outcome
    OBVIOUS
  <1> HIDE DEF rest, head
  <1>2. \A i \in 1..Len(outs) : i = 1 \/ (i - 1 \in 1..Len(rest) /\ rest[i - 1] = outs[i])
    BY <1>1
  <1>3. \A i \in 1..Len(rest) : i + 1 \in 1..Len(outs) /\ i + 1 # 1 /\ rest[i] = outs[i + 1]
    BY <1>1
  <1>4. 1 \in 1..Len(outs)
    BY <1>1
  <1>5. \A a : Carries(outs, a) <=> Carries(rest, a) \/ head.addr = a
    BY <1>1, <1>2, <1>3, <1>4 DEF Carries
  <1>6. \A a : Passes(outs, a) <=> Passes(rest, a) \/ (head.addr = a /\ head.err = "")
    BY <1>1, <1>2, <1>3, <1>4, ZenonT(30) DEF Passes
  <1>7. ~Carries(rest, head.addr)
    BY <1>1, <1>3, <1>4 DEF Carries, Distinct
  <1>8. Distinct(rest)
    BY <1>1, <1>3 DEF Distinct
  <1> QED BY <1>1, <1>5, <1>6, <1>7, <1>8 DEF rest, head

\* A passing outcome is an outcome.
LEMMA PassCarries ==
    ASSUME NEW outs, NEW a, Passes(outs, a)
    PROVE  Carries(outs, a)
PROOF
  BY DEF Passes, Carries

\* Nothing is carried by an empty sequence.
LEMMA EmptyCarries ==
    ASSUME NEW a
    PROVE  ~Carries(<< >>, a) /\ ~Passes(<< >>, a)
PROOF
  BY DEF Carries, Passes

\* Sorting outcomes that name every address once.
LEMMA SortedOutcomes ==
    ASSUME AttemptsTypeOK, Delivered, Closed
    PROVE  /\ Sorted(outcomes) \in Seq(Outcome)
           /\ Len(Sorted(outcomes)) = addrs
           /\ DOMAIN Sorted(outcomes) = Addresses
           /\ \A a \in Addresses :
                 /\ Sorted(outcomes)[a] \in Outcome
                 /\ Sorted(outcomes)[a].addr = a
                 /\ Sorted(outcomes)[a].err = "" <=> Passes(outcomes, a)
           /\ Outcomes(outcomes) \subseteq Outcomes(Sorted(outcomes))
PROOF
  <1>1. /\ outcomes \in Seq(Outcome) /\ Len(outcomes) \in Nat /\ DOMAIN outcomes = 1..Len(outcomes)
        /\ addrs \in Nat /\ results = << >>
    BY AttemptsAssumption DEF AttemptsTypeOK, AttemptsAssumption, Closed
  <1>0. \A a \in Addresses : a \in 1..MaxAddresses
    BY AttemptsAssumption DEF AttemptsTypeOK, AttemptsAssumption, Addresses
  <1>2. \A a \in Addresses : Carries(outcomes, a)
    BY <1>0, <1>1, EmptyCarries DEF Closed, Delivered
  <1>3. Len(outcomes) = addrs
    <2> DEFINE f == [i \in 1..Len(outcomes) |-> outcomes[i].addr]
    <2>1. f \in [1..Len(outcomes) -> Addresses]
      <3>1. ASSUME NEW i \in 1..Len(outcomes) PROVE outcomes[i].addr \in Addresses
        <4>0. outcomes[i] \in Outcome
          BY <1>1
        <4>1. outcomes[i].addr \in 1..MaxAddresses
          BY <4>0 DEF Outcome
        <4>2. Carries(outcomes, outcomes[i].addr)
          BY DEF Carries
        <4> QED BY <4>1, <4>2 DEF Delivered
      <3> QED BY <3>1
    <2>2. f \in Bijection(1..Len(outcomes), Addresses)
      <3>1. f \in Injection(1..Len(outcomes), Addresses)
        BY <2>1 DEF Delivered, Distinct, Injection, IsInjective
      <3>2. f \in Surjection(1..Len(outcomes), Addresses)
        BY <1>2, <2>1 DEF Carries, Surjection
      <3> QED BY <3>1, <3>2 DEF Bijection
    <2>3. ExistsBijection(1..Len(outcomes), Addresses)
      BY <2>2 DEF ExistsBijection
    <2>4. IsFiniteSet(1..Len(outcomes)) /\ Cardinality(1..Len(outcomes)) = Len(outcomes)
      <3>1. /\ IsFiniteSet(1..Len(outcomes))
            /\ Cardinality(1..Len(outcomes)) = IF 1 > Len(outcomes) THEN 0 ELSE Len(outcomes) - 1 + 1
        BY <1>1, 1 \in Int, Len(outcomes) \in Int, FS_Interval
      <3> QED BY <1>1, <3>1
    <2>5. IsFiniteSet(1..addrs) /\ Cardinality(1..addrs) = addrs
      <3>1. /\ IsFiniteSet(1..addrs)
            /\ Cardinality(1..addrs) = IF 1 > addrs THEN 0 ELSE addrs - 1 + 1
        BY <1>1, 1 \in Int, addrs \in Int, FS_Interval
      <3> QED BY <1>1, <3>1
    <2> QED BY <2>3, <2>4, <2>5, FS_Bijection DEF Addresses
  <1>4. ASSUME NEW a \in Addresses
        PROVE  \E i \in 1..Len(outcomes) :
                  /\ outcomes[i].addr = a
                  /\ (CHOOSE r \in Outcomes(outcomes) : r.addr = a) = outcomes[i]
    <2>1. PICK i \in 1..Len(outcomes) : outcomes[i].addr = a
      BY <1>2 DEF Carries
    <2>2. outcomes[i] \in Outcomes(outcomes)
      BY <1>1 DEF Outcomes
    <2>3. ASSUME NEW r \in Outcomes(outcomes), r.addr = a PROVE r = outcomes[i]
      BY <1>1, <2>1, <2>3 DEF Outcomes, Delivered, Distinct
    <2> QED BY <2>1, <2>2, <2>3
  <1>5. ASSUME NEW a \in Addresses
        PROVE  /\ Sorted(outcomes)[a] \in Outcome
               /\ Sorted(outcomes)[a].addr = a
               /\ Sorted(outcomes)[a].err = "" <=> Passes(outcomes, a)
    <2>1. PICK i \in 1..Len(outcomes) :
                  /\ outcomes[i].addr = a
                  /\ (CHOOSE r \in Outcomes(outcomes) : r.addr = a) = outcomes[i]
      BY <1>4
    <2>2. Sorted(outcomes)[a] = outcomes[i]
      BY <1>3, <2>1 DEF Sorted, Addresses
    <2>3. outcomes[i] \in Outcome
      BY <1>1
    <2>4. \A k \in 1..Len(outcomes) : outcomes[k].addr = a => k = i
      BY <2>1 DEF Delivered, Distinct
    <2> QED BY <2>1, <2>2, <2>3, <2>4 DEF Passes
  <1>6. Sorted(outcomes) = [a \in 1..addrs |-> Sorted(outcomes)[a]]
    BY <1>3 DEF Sorted
  <1>7. Sorted(outcomes) \in [1..addrs -> Outcome]
    BY <1>5, <1>6 DEF Addresses
  <1>8. Sorted(outcomes) \in Seq(Outcome) /\ Len(Sorted(outcomes)) = addrs
    BY <1>1, <1>7
  <1>9. DOMAIN Sorted(outcomes) = Addresses
    BY <1>7 DEF Addresses
  <1>10. ASSUME NEW i \in 1..Len(outcomes)
         PROVE  outcomes[i] \in Outcomes(Sorted(outcomes))
    <2> DEFINE a == outcomes[i].addr
    <2>1. a \in Addresses
      <3>0. outcomes[i] \in Outcome
        BY <1>1
      <3>1. a \in 1..MaxAddresses
        BY <3>0 DEF Outcome
      <3>2. Carries(outcomes, a)
        BY DEF Carries
      <3> QED BY <3>1, <3>2 DEF Delivered
    <2>2. PICK k \in 1..Len(outcomes) :
                  /\ outcomes[k].addr = a
                  /\ (CHOOSE r \in Outcomes(outcomes) : r.addr = a) = outcomes[k]
      BY <1>4, <2>1
    <2>3. k = i
      BY <2>2 DEF Delivered, Distinct
    <2>4. Sorted(outcomes)[a] = outcomes[i]
      BY <1>3, <2>1, <2>2, <2>3 DEF Sorted, Addresses
    <2> QED BY <1>9, <2>1, <2>4 DEF Outcomes
  <1>11. Outcomes(outcomes) \subseteq Outcomes(Sorted(outcomes))
    BY <1>1, <1>10 DEF Outcomes
  <1> QED BY <1>5, <1>8, <1>9, <1>11

-----------------------------------------------------------------------------
(* The goroutine of an address *)

\* An address that has not sent its result is one of a probe that collects.
LEMMA Working ==
    ASSUME AttInv, NEW a \in Addresses, attempt[a] # "sent"
    PROVE  pc = "collect" /\ status = "unknown"
PROOF
  <1>1. pc # "resolve" /\ status # "skipped"
    BY DEF AttInv, Idle, AttemptsIdle, Addresses
  <1>2. pc \notin {"request", "settled", "returned"}
    BY <1>1 DEF AttInv, Reported, Judged
  <1>3. pc = "collect"
    BY <1>1, <1>2 DEF AttInv, AttemptsTypeOK
  <1> QED BY <1>3 DEF AttInv, Collecting

\* An address that has not sent its result is in no sequence of them.
LEMMA Unsent ==
    ASSUME AttemptsTypeOK, Delivered, NEW a \in Addresses, attempt[a] # "sent"
    PROVE  ~Passes(results, a) /\ ~Passes(outcomes, a)
PROOF
  <1>1. a \in 1..MaxAddresses
    BY AttemptsAssumption DEF AttemptsTypeOK, AttemptsAssumption, Addresses
  <1>2. ~Carries(results, a) /\ ~Carries(outcomes, a)
    BY <1>1 DEF Delivered
  <1> QED BY <1>2, PassCarries

\* An address that sends its result.
LEMMA SendDelivers ==
    ASSUME AttemptsTypeOK, Delivered, NEW a \in Addresses, attempt[a] # "sent",
           NEW err \in Errs, Send(a, err), UNCHANGED <<addrs, outcomes>>
    PROVE  /\ Delivered'
           /\ results' \in Seq(Outcome)
           /\ attempt' \in [Addresses -> Stage]
           /\ \A b \in Addresses : attempt'[b] = IF b = a THEN "sent" ELSE attempt[b]
           /\ \A b \in Addresses :
                 Passes(results', b) <=> Passes(results, b) \/ (b = a /\ err = "")
PROOF
  <1> DEFINE r == [addr |-> a, err |-> err]
  <1>0. \A b \in Addresses : b \in 1..MaxAddresses
    BY AttemptsAssumption DEF AttemptsTypeOK, AttemptsAssumption, Addresses
  <1>1. r \in Outcome /\ r.addr = a /\ r.err = err
    BY <1>0 DEF Outcome
  <1>2. results \in Seq(Outcome) /\ results' = Append(results, r)
    BY DEF AttemptsTypeOK, Send
  <1>3. ~Carries(results, a) /\ ~Carries(outcomes, a)
    BY <1>0 DEF Delivered
  <1>4. /\ attempt' \in [Addresses -> Stage]
        /\ \A b \in Addresses : attempt'[b] = IF b = a THEN "sent" ELSE attempt[b]
    BY DEF Send, AttemptsTypeOK, Stage
  <1> HIDE DEF r
  <1>5. /\ results' \in Seq(Outcome)
        /\ \A b : Carries(results', b) <=> Carries(results, b) \/ b = a
        /\ \A b : Passes(results', b) <=> Passes(results, b) \/ (b = a /\ err = "")
        /\ Distinct(results')
    <2>1. Distinct(results) /\ ~Carries(results, r.addr)
      BY <1>1, <1>3 DEF Delivered
    <2>2. /\ Append(results, r) \in Seq(Outcome)
          /\ \A b : Carries(Append(results, r), b) <=> Carries(results, b) \/ r.addr = b
          /\ \A b : Passes(Append(results, r), b) <=>
                      Passes(results, b) \/ (r.addr = b /\ r.err = "")
          /\ Distinct(Append(results, r))
      BY <1>1, <1>2, <2>1, Appended
    <2> QED BY <1>1, <1>2, <2>2, Zenon
  <1>6. Addresses' = Addresses /\ outcomes' = outcomes
    BY DEF Addresses
  <1>7. Delivered'
    <2>1. Distinct(results') /\ Distinct(outcomes')
      BY <1>5, <1>6 DEF Delivered
    <2>2. \A b \in 1..MaxAddresses : ~(Carries(results', b) /\ Carries(outcomes', b))
      BY <1>3, <1>5, <1>6 DEF Delivered
    <2>3. \A b \in 1..MaxAddresses :
            Carries(results', b) \/ Carries(outcomes', b) <=>
            b \in Addresses' /\ attempt'[b] = "sent"
      BY <1>4, <1>5, <1>6 DEF Delivered
    <2> QED BY <2>1, <2>2, <2>3 DEF Delivered
  <1> QED BY <1>4, <1>5, <1>7

\* An address that finds room and dials.
LEMMA AcquireStep ==
    ASSUME AttInv, NEW a \in Addresses, Acquire(a)
    PROVE  AttInv'
PROOF
  <1>1. pc = "collect" /\ status = "unknown"
    BY Working DEF Acquire
  <1>2. /\ UNCHANGED <<layer, ctx, pc, status, kind, addrs, results, open, outcomes, winner>>
        /\ Addresses' = Addresses
    BY DEF Acquire, probeVars, Addresses
  <1>3. /\ attempt' \in [Addresses -> Stage]
        /\ \A b \in Addresses : attempt'[b] = "sent" <=> attempt[b] = "sent"
        /\ \A b \in Addresses : attempt'[b] = "handshaking" <=> attempt[b] = "handshaking"
    BY DEF Acquire, AttInv, AttemptsTypeOK, Stage
  <1>4. AttemptsTypeOK'
    BY <1>2, <1>3 DEF AttInv, AttemptsTypeOK
  <1>5. Delivered'
    BY <1>2, <1>3 DEF AttInv, Delivered
  <1>6. Collecting'
    <2>1. \A b \in Addresses : Connected(b)' <=> Connected(b)
      BY <1>2, <1>3 DEF Connected
    <2> QED BY <1>1, <1>2, <1>3, <2>1 DEF AttInv, Collecting
  <1>7. Idle' /\ Reported'
    BY <1>1, <1>2 DEF Idle, Reported
  <1> QED BY <1>4, <1>5, <1>6, <1>7 DEF AttInv

\* An address whose dial fails.
LEMMA DialFailsStep ==
    ASSUME AttInv, NEW a \in Addresses, DialFails(a)
    PROVE  AttInv'
PROOF
  <1>1. pc = "collect" /\ status = "unknown" /\ attempt[a] \notin {"sent", "handshaking"}
    BY Working DEF DialFails
  <1>2. /\ UNCHANGED <<layer, ctx, pc, status, kind, addrs, open, outcomes, winner>>
        /\ Addresses' = Addresses
    BY DEF DialFails, probeVars, Addresses
  <1>3. PICK err \in Errs : err # "" /\ Send(a, err)
    <2> DEFINE S == IF attempt[a] = "late" THEN {}
                    ELSE IF layer = "quic" THEN TLSErrors ELSE DialErrors
    <2>1. S \subseteq Errors
      BY AttemptsAssumption DEF AttemptsAssumption
    <2>2. PICK e \in MayFail(S) : Send(a, e)
      BY DEF DialFails
    <2>3. ctx \in {"live", "expired", "cancelled"}
      BY DEF AttInv, AttemptsTypeOK
    <2> HIDE DEF S
    <2> QED BY <2>1, <2>2, <2>3, FailureTyped
  <1>4. /\ Delivered'
        /\ results' \in Seq(Outcome)
        /\ attempt' \in [Addresses -> Stage]
        /\ \A b \in Addresses : attempt'[b] = IF b = a THEN "sent" ELSE attempt[b]
        /\ \A b \in Addresses :
              Passes(results', b) <=> Passes(results, b) \/ (b = a /\ err = "")
    BY <1>1, <1>2, <1>3, SendDelivers DEF AttInv
  <1>5. AttemptsTypeOK'
    BY <1>2, <1>4 DEF AttInv, AttemptsTypeOK
  <1>6. Collecting'
    <2>1. \A b \in Addresses : Connected(b)' <=> Connected(b)
      BY <1>1, <1>2, <1>3, <1>4 DEF Connected
    <2> QED BY <1>1, <1>2, <1>4, <2>1 DEF AttInv, Collecting
  <1>7. Idle' /\ Reported'
    BY <1>1, <1>2 DEF Idle, Reported
  <1> QED BY <1>4, <1>5, <1>6, <1>7 DEF AttInv

\* An address that connects.
LEMMA ConnectsStep ==
    ASSUME AttInv, NEW a \in Addresses, Connects(a)
    PROVE  AttInv'
PROOF
  <1>1. pc = "collect" /\ status = "unknown" /\ attempt[a] = "dialing"
    BY Working DEF Connects
  <1>2. /\ UNCHANGED <<layer, ctx, pc, status, kind, addrs, outcomes, winner>>
        /\ Addresses' = Addresses /\ open' = open \cup {a}
    BY DEF Connects, probeVars, Addresses
  <1>3. Idle' /\ Reported'
    BY <1>1, <1>2 DEF Idle, Reported
  <1>4. CASE layer = "tls"
    <2>1. /\ UNCHANGED results
          /\ attempt' \in [Addresses -> Stage]
          /\ \A b \in Addresses : attempt'[b] = IF b = a THEN "handshaking" ELSE attempt[b]
      BY <1>4 DEF Connects, AttInv, AttemptsTypeOK, Stage
    <2>2. AttemptsTypeOK'
      BY <1>2, <2>1 DEF AttInv, AttemptsTypeOK
    <2>3. Delivered'
      BY <1>1, <1>2, <2>1 DEF AttInv, Delivered
    <2>4. Collecting'
      <3>1. \A b \in Addresses : Connected(b)' <=> Connected(b) \/ b = a
        BY <1>1, <1>2, <1>4, <2>1 DEF Connected
      <3> QED BY <1>1, <1>2, <1>4, <2>1, <3>1 DEF AttInv, Collecting
    <2> QED BY <1>3, <2>2, <2>3, <2>4 DEF AttInv
  <1>5. CASE layer # "tls"
    <2>1. Send(a, "") /\ "" \in Errs
      BY <1>5 DEF Connects, Errs
    <2>2. /\ Delivered'
          /\ results' \in Seq(Outcome)
          /\ attempt' \in [Addresses -> Stage]
          /\ \A b \in Addresses : attempt'[b] = IF b = a THEN "sent" ELSE attempt[b]
          /\ \A b \in Addresses : Passes(results', b) <=> Passes(results, b) \/ b = a
      BY <1>1, <1>2, <2>1, SendDelivers DEF AttInv
    <2>3. AttemptsTypeOK'
      BY <1>2, <2>2 DEF AttInv, AttemptsTypeOK
    <2>4. Collecting'
      <3>1. \A b \in Addresses : Connected(b)' <=> Connected(b) \/ b = a
        BY <1>1, <1>2, <1>5, <2>2 DEF Connected
      <3> QED BY <1>1, <1>2, <1>5, <2>2, <3>1 DEF AttInv, Collecting
    <2> QED BY <1>3, <2>2, <2>3, <2>4 DEF AttInv
  <1> QED BY <1>4, <1>5

\* An address whose handshake fails: its connection is closed.
LEMMA HandshakeFailsStep ==
    ASSUME AttInv, NEW a \in Addresses, HandshakeFails(a)
    PROVE  AttInv'
PROOF
  <1>1. pc = "collect" /\ status = "unknown" /\ attempt[a] = "handshaking"
    BY Working DEF HandshakeFails
  <1>2. /\ UNCHANGED <<layer, ctx, pc, status, kind, addrs, outcomes, winner>>
        /\ Addresses' = Addresses /\ open' = open \ {a}
    BY DEF HandshakeFails, probeVars, Addresses
  <1>3. PICK err \in Errs : err # "" /\ Send(a, err)
    <2>1. PICK e \in MayFail(TLSErrors) : Send(a, e)
      BY DEF HandshakeFails
    <2>2. ctx \in {"live", "expired", "cancelled"} /\ TLSErrors \subseteq Errors
      BY AttemptsAssumption DEF AttInv, AttemptsTypeOK, AttemptsAssumption
    <2> QED BY <2>1, <2>2, FailureTyped
  <1>4. /\ Delivered'
        /\ results' \in Seq(Outcome)
        /\ attempt' \in [Addresses -> Stage]
        /\ \A b \in Addresses : attempt'[b] = IF b = a THEN "sent" ELSE attempt[b]
        /\ \A b \in Addresses :
              Passes(results', b) <=> Passes(results, b) \/ (b = a /\ err = "")
    BY <1>1, <1>2, <1>3, SendDelivers DEF AttInv
  <1>5. AttemptsTypeOK'
    BY <1>2, <1>4 DEF AttInv, AttemptsTypeOK
  <1>6. layer = "tls"
    BY <1>1 DEF AttInv, Collecting
  <1>7. Collecting'
    <2>1. ~Passes(results, a) /\ ~Passes(outcomes, a)
      BY <1>1, Unsent DEF AttInv
    <2>2. \A b \in Addresses : Connected(b)' <=> Connected(b) /\ b # a
      BY <1>1, <1>2, <1>3, <1>4, <1>6, <2>1 DEF Connected
    <2> QED BY <1>1, <1>2, <1>4, <1>6, <2>2 DEF AttInv, Collecting
  <1>8. Idle' /\ Reported'
    BY <1>1, <1>2 DEF Idle, Reported
  <1> QED BY <1>4, <1>5, <1>7, <1>8 DEF AttInv

\* An address whose handshake is done.
LEMMA HandshakeSucceedsStep ==
    ASSUME AttInv, NEW a \in Addresses, HandshakeSucceeds(a)
    PROVE  AttInv'
PROOF
  <1>1. pc = "collect" /\ status = "unknown" /\ attempt[a] = "handshaking"
    BY Working DEF HandshakeSucceeds
  <1>2. /\ UNCHANGED <<layer, ctx, pc, status, kind, addrs, open, outcomes, winner>>
        /\ Addresses' = Addresses
    BY DEF HandshakeSucceeds, probeVars, Addresses
  <1>3. Send(a, "") /\ "" \in Errs
    BY DEF HandshakeSucceeds, Errs
  <1>4. /\ Delivered'
        /\ results' \in Seq(Outcome)
        /\ attempt' \in [Addresses -> Stage]
        /\ \A b \in Addresses : attempt'[b] = IF b = a THEN "sent" ELSE attempt[b]
        /\ \A b \in Addresses : Passes(results', b) <=> Passes(results, b) \/ b = a
    BY <1>1, <1>2, <1>3, SendDelivers DEF AttInv
  <1>5. AttemptsTypeOK'
    BY <1>2, <1>4 DEF AttInv, AttemptsTypeOK
  <1>6. layer = "tls"
    BY <1>1 DEF AttInv, Collecting
  <1>7. Collecting'
    <2>1. \A b \in Addresses : Connected(b)' <=> Connected(b)
      BY <1>1, <1>2, <1>4, <1>6 DEF Connected
    <2> QED BY <1>1, <1>2, <1>4, <1>6, <2>1 DEF AttInv, Collecting
  <1>8. Idle' /\ Reported'
    BY <1>1, <1>2 DEF Idle, Reported
  <1> QED BY <1>4, <1>5, <1>7, <1>8 DEF AttInv

-----------------------------------------------------------------------------
(* The collecting goroutine *)

\* A result leaves the channel for the outcomes.
LEMMA Moved ==
    ASSUME AttemptsTypeOK, Delivered, results # << >>,
           results' = Tail(results), outcomes' = Append(outcomes, Head(results)),
           UNCHANGED <<addrs, attempt>>,
           NEW r, r = Head(results)
    PROVE  /\ r \in Outcome /\ r.addr \in Addresses /\ attempt[r.addr] = "sent"
           /\ results' \in Seq(Outcome) /\ outcomes' \in Seq(Outcome)
           /\ ~Passes(results', r.addr) /\ ~Passes(outcomes, r.addr)
           /\ \A a : Passes(results, a) <=> Passes(results', a) \/ (r.addr = a /\ r.err = "")
           /\ \A a : Passes(outcomes', a) <=> Passes(outcomes, a) \/ (r.addr = a /\ r.err = "")
           /\ Delivered'
PROOF
  <1>1. /\ results \in Seq(Outcome) /\ outcomes \in Seq(Outcome)
        /\ Distinct(results) /\ Distinct(outcomes)
    BY DEF AttemptsTypeOK, Delivered
  <1>2. /\ r \in Outcome
        /\ results' \in Seq(Outcome)
        /\ \A a : Carries(results, a) <=> Carries(results', a) \/ r.addr = a
        /\ \A a : Passes(results, a) <=> Passes(results', a) \/ (r.addr = a /\ r.err = "")
        /\ ~Carries(results', r.addr)
        /\ Distinct(results')
    <2>1. /\ Head(results) \in Outcome
          /\ Tail(results) \in Seq(Outcome)
          /\ \A a : Carries(results, a) <=> Carries(Tail(results), a) \/ Head(results).addr = a
          /\ \A a : Passes(results, a) <=>
                     Passes(Tail(results), a) \/ (Head(results).addr = a /\ Head(results).err = "")
          /\ ~Carries(Tail(results), Head(results).addr)
          /\ Distinct(Tail(results))
      BY <1>1, HeadTaken
    <2> QED BY <2>1, Zenon
  <1>3. r.addr \in 1..MaxAddresses
    BY <1>2 DEF Outcome
  <1>4. r.addr \in Addresses /\ attempt[r.addr] = "sent" /\ ~Carries(outcomes, r.addr)
    BY <1>2, <1>3 DEF Delivered
  <1>5. /\ outcomes' \in Seq(Outcome)
        /\ \A a : Carries(outcomes', a) <=> Carries(outcomes, a) \/ r.addr = a
        /\ \A a : Passes(outcomes', a) <=> Passes(outcomes, a) \/ (r.addr = a /\ r.err = "")
        /\ Distinct(outcomes')
    <2>1. /\ Append(outcomes, r) \in Seq(Outcome)
          /\ \A a : Carries(Append(outcomes, r), a) <=> Carries(outcomes, a) \/ r.addr = a
          /\ \A a : Passes(Append(outcomes, r), a) <=>
                     Passes(outcomes, a) \/ (r.addr = a /\ r.err = "")
          /\ Distinct(Append(outcomes, r))
      BY <1>1, <1>2, <1>4, Appended
    <2> QED BY <2>1, Zenon
  <1>6. ~Passes(results', r.addr) /\ ~Passes(outcomes, r.addr)
    BY <1>2, <1>4, PassCarries
  <1>7. Addresses' = Addresses
    BY DEF Addresses
  <1>8. Delivered'
    <2>1. \A a \in 1..MaxAddresses : ~(Carries(results', a) /\ Carries(outcomes', a))
      BY <1>2, <1>5 DEF Delivered
    <2>2. \A a \in 1..MaxAddresses :
            Carries(results', a) \/ Carries(outcomes', a) <=>
            a \in Addresses' /\ attempt'[a] = "sent"
      BY <1>2, <1>5, <1>7 DEF Delivered
    <2> QED BY <1>2, <1>5, <2>1, <2>2 DEF Delivered
  <1> QED BY <1>2, <1>4, <1>5, <1>6, <1>8

\* The collector takes a result: the first connection wins, a duplicate is
\* closed.
LEMMA ReceiveStep ==
    ASSUME AttInv, Receive
    PROVE  AttInv'
PROOF
  <1> DEFINE r == Head(results)
  <1>1. /\ pc = "collect" /\ results # << >>
        /\ UNCHANGED <<layer, ctx, pc, status, kind, addrs, attempt>>
        /\ results' = Tail(results) /\ outcomes' = Append(outcomes, r)
        /\ winner' = IF layer # "tls" /\ r.err = "" /\ winner = 0 THEN r.addr ELSE winner
        /\ open' = IF layer # "tls" /\ r.err = "" /\ winner # 0 THEN open \ {r.addr} ELSE open
    BY DEF Receive, probeVars
  <1>2. AttemptsTypeOK /\ Delivered /\ status = "unknown" /\ Addresses' = Addresses
    BY <1>1 DEF AttInv, Collecting, Addresses
  <1>3. /\ r \in Outcome /\ r.addr \in Addresses /\ attempt[r.addr] = "sent"
        /\ results' \in Seq(Outcome) /\ outcomes' \in Seq(Outcome)
        /\ ~Passes(results', r.addr) /\ ~Passes(outcomes, r.addr)
        /\ \A a : Passes(results, a) <=> Passes(results', a) \/ (r.addr = a /\ r.err = "")
        /\ \A a : Passes(outcomes', a) <=> Passes(outcomes, a) \/ (r.addr = a /\ r.err = "")
        /\ Delivered'
    BY <1>1, <1>2, Moved
  <1> HIDE DEF r
  <1>4. r.addr \in 0..addrs /\ \A b \in Addresses : b # 0
    <2>1. addrs \in Nat
      BY <1>2, AttemptsAssumption DEF AttemptsTypeOK, AttemptsAssumption
    <2>2. \A b \in Addresses : b \in 0..addrs /\ b # 0
      BY <2>1 DEF Addresses
    <2> QED BY <1>3, <2>2
  <1>5. AttemptsTypeOK'
    <2>1. winner' \in 0..addrs
      <3>1. winner' = r.addr \/ winner' = winner
        BY <1>1
      <3> QED BY <1>1, <1>2, <1>4, <3>1 DEF AttemptsTypeOK
    <2>2. open' \subseteq Addresses
      BY <1>1, <1>2 DEF AttemptsTypeOK
    <2> QED BY <1>1, <1>2, <1>3, <2>1, <2>2 DEF AttemptsTypeOK
  <1>6. Collecting'
    <2>1. CASE layer = "tls"
      <3>1. \A b \in Addresses : Connected(b)' <=> Connected(b)
        BY <1>1, <1>3, <2>1 DEF Connected
      <3> QED BY <1>1, <1>2, <2>1, <3>1 DEF AttInv, Collecting
    <2>2. CASE layer # "tls" /\ r.err # ""
      <3>1. \A b \in Addresses : Connected(b)' <=> Connected(b)
        BY <1>1, <1>3, <2>2 DEF Connected
      <3> QED BY <1>1, <1>2, <1>3, <2>2, <3>1 DEF AttInv, Collecting
    <2>3. CASE layer # "tls" /\ r.err = "" /\ winner = 0
      <3>1. \A b \in Addresses : Connected(b)' <=> Connected(b)
        BY <1>1, <1>3, <1>4, <2>3 DEF Connected
      <3> QED BY <1>1, <1>2, <1>3, <1>4, <2>3, <3>1 DEF AttInv, Collecting
    <2>4. CASE layer # "tls" /\ r.err = "" /\ winner # 0
      <3>1. Passes(outcomes, winner) /\ winner # r.addr
        BY <1>1, <1>3, <2>4 DEF AttInv, Collecting
      <3>2. \A b \in Addresses : Connected(b)' <=> Connected(b) /\ b # r.addr
        BY <1>1, <1>2, <1>3, <2>4, <3>1 DEF Connected, AttInv, Collecting
      <3> QED BY <1>1, <1>2, <1>3, <2>4, <3>1, <3>2 DEF AttInv, Collecting
    <2> QED BY <2>1, <2>2, <2>3, <2>4
  <1>7. Idle' /\ Reported'
    BY <1>1, <1>2 DEF Idle, Reported
  <1> QED BY <1>3, <1>5, <1>6, <1>7 DEF AttInv

\* The sorted outcomes name every address once as well.
LEMMA SortedDelivers ==
    ASSUME AttemptsTypeOK, Delivered, Closed,
           outcomes' = Sorted(outcomes), UNCHANGED <<addrs, attempt, results>>
    PROVE  Delivered'
PROOF
  <1>1. /\ outcomes' \in Seq(Outcome) /\ Len(outcomes') = addrs
        /\ \A a \in Addresses : outcomes'[a].addr = a
    BY SortedOutcomes
  <1>2. \A a : Carries(outcomes', a) <=> a \in Addresses
    BY <1>1 DEF Carries, Addresses
  <1>3. Distinct(outcomes')
    BY <1>1 DEF Distinct, Addresses
  <1>4. results' = << >> /\ Addresses' = Addresses /\ \A a \in Addresses : attempt'[a] = "sent"
    BY DEF Closed, Addresses
  <1>5. Distinct(results') /\ \A a : ~Carries(results', a)
    BY <1>4, EmptyCarries DEF Delivered
  <1> QED BY <1>2, <1>3, <1>4, <1>5 DEF Delivered

\* The channel is closed while the probe collects: who is among the sorted
\* outcomes, and whose connections are open.
LEMMA AllIn ==
    ASSUME AttInv, pc = "collect", Closed, NEW outs, outs = Sorted(outcomes)
    PROVE  /\ AttemptsTypeOK /\ Delivered
           /\ addrs \in Nat /\ addrs >= 1 /\ status = "unknown"
           /\ outs \in Seq(Outcome) /\ Len(outs) = addrs
           /\ \A a \in Addresses :
                 outs[a].addr = a /\ outs[a].err \in Errs /\ attempt[a] = "sent"
           /\ \A s : Among(outs, s) = {a \in Addresses : StatusOf(outs[a].err) = s}
           /\ Among(outs, "pass") = {a \in Addresses : outs[a].err = ""}
           /\ \A a \in Addresses : outs[a].err = "" <=> Passes(outcomes, a)
           /\ open = {a \in Addresses : IF layer = "tls" THEN outs[a].err = "" ELSE a = winner}
           /\ layer = "tls" => winner = 0
           /\ layer # "tls" => \A a \in Addresses : outs[a].err = "" => winner # 0
           /\ layer # "tls" /\ winner # 0 => winner \in Addresses /\ outs[winner].err = ""
PROOF
  <1>1. AttemptsTypeOK /\ Delivered /\ status = "unknown"
    BY DEF AttInv, Collecting
  <1>2. addrs \in Nat /\ addrs >= 1
    <2>1. addrs \in Nat
      BY <1>1, AttemptsAssumption DEF AttemptsTypeOK, AttemptsAssumption
    <2>2. addrs >= 1
      BY DEF AttInv, Collecting
    <2> QED BY <2>1, <2>2
  <1>3. /\ outs \in Seq(Outcome)
        /\ Len(outs) = addrs
        /\ DOMAIN outs = Addresses
        /\ \A a \in Addresses :
              outs[a] \in Outcome /\ outs[a].addr = a /\ (outs[a].err = "" <=> Passes(outcomes, a))
    BY <1>1, SortedOutcomes
  <1>4. \A a \in Addresses : outs[a].err \in Errs
    BY <1>3 DEF Outcome
  <1>5. \A s : Among(outs, s) = {a \in Addresses : StatusOf(outs[a].err) = s}
    BY <1>3 DEF Among
  <1>6. Among(outs, "pass") = {a \in Addresses : outs[a].err = ""}
    BY <1>4, <1>5, ErrTyped
  <1>7. results = << >> /\ \A a \in Addresses : attempt[a] = "sent"
    BY DEF Closed
  <1>8. \A a \in Addresses :
           Connected(a) <=> IF layer = "tls" THEN outs[a].err = "" ELSE a = winner
    <2>1. \A a \in Addresses : ~Passes(results, a)
      BY <1>7, EmptyCarries
    <2> QED BY <1>3, <1>7, <2>1 DEF Connected
  <1>9. open = {a \in Addresses : IF layer = "tls" THEN outs[a].err = "" ELSE a = winner}
    BY <1>8 DEF AttInv, Collecting
  <1>10. winner # 0 => winner \in Addresses
    BY <1>1, <1>2 DEF AttemptsTypeOK, Addresses
  <1>11. /\ layer = "tls" => winner = 0
         /\ layer # "tls" => \A a \in Addresses : outs[a].err = "" => winner # 0
         /\ layer # "tls" /\ winner # 0 => winner \in Addresses /\ outs[winner].err = ""
    BY <1>3, <1>10 DEF AttInv, Collecting
  <1> QED BY <1>1, <1>2, <1>3, <1>4, <1>5, <1>6, <1>7, <1>9, <1>11

\* No address has a connection: the outcome that decides is the first of its
\* status, a definite failure if there is one.
LEMMA SettleFailedStep ==
    ASSUME AttInv, SettleFailed
    PROVE  AttInv'
PROOF
  <1> DEFINE outs == Sorted(outcomes)
             d    == Decider(outs)
  <1>1. /\ pc = "collect" /\ Closed
        /\ Among(outs, "pass") = {}
        /\ pc' = "settled" /\ outcomes' = outs
        /\ status' = IF d = 0 THEN "unknown" ELSE StatusOf(outs[d].err)
        /\ kind' = IF d = 0 THEN "" ELSE KindOf(outs[d].err)
        /\ UNCHANGED <<layer, ctx, addrs, attempt, results, open, winner>>
    BY DEF SettleFailed
  <1> HIDE DEF outs, d
  <1>2. /\ AttemptsTypeOK /\ Delivered
        /\ addrs \in Nat /\ addrs >= 1
        /\ outs \in Seq(Outcome) /\ Len(outs) = addrs
        /\ \A a \in Addresses :
              outs[a].addr = a /\ outs[a].err \in Errs /\ attempt[a] = "sent"
        /\ \A s : Among(outs, s) = {a \in Addresses : StatusOf(outs[a].err) = s}
        /\ Among(outs, "pass") = {a \in Addresses : outs[a].err = ""}
        /\ open = {a \in Addresses : IF layer = "tls" THEN outs[a].err = "" ELSE a = winner}
        /\ layer = "tls" => winner = 0
        /\ layer # "tls" /\ winner # 0 => winner \in Addresses /\ outs[winner].err = ""
    BY <1>1, AllIn DEF outs
  <1>3. /\ \A a \in Addresses : outs[a].err # ""
        /\ winner = 0 /\ open = {}
    <2>1. \A a \in Addresses : outs[a].err # ""
      <3>1. {a \in Addresses : outs[a].err = ""} = {}
        BY <1>1, <1>2
      <3> QED BY <3>1
    <2>2. winner = 0
      <3>1. layer # "tls" /\ winner # 0 => winner \in Addresses /\ outs[winner].err = ""
        BY <1>2
      <3>2. layer = "tls" => winner = 0
        BY <1>2
      <3> QED BY <2>1, <3>1, <3>2
    <2>3. 0 \notin Addresses
      BY DEF Addresses
    <2> QED BY <1>2, <2>1, <2>2, <2>3
  <1>4. 1 \in Addresses /\ \A a \in Addresses : a \in Nat /\ a # 0 /\ a >= 1
    <2>1. addrs \in Nat /\ addrs >= 1
      BY <1>2
    <2> QED BY <2>1 DEF Addresses
  <1>5. d = 0 \/ (d \in Addresses /\ \A b \in Addresses : b < d =>
                                      StatusOf(outs[b].err) # StatusOf(outs[d].err))
    <2>1. CASE layer = "tls"
      <3>1. d = 1
        BY <2>1 DEF d, Decider
      <3>2. \A b \in Addresses : ~(b < 1)
        BY <1>4
      <3> QED BY <1>4, <3>1, <3>2
    <2>2. ASSUME NEW s, Among(outs, s) # {}, d = FirstOf(Among(outs, s))
          PROVE  /\ d \in Addresses
                 /\ StatusOf(outs[d].err) = s
                 /\ \A b \in Addresses : b < d => StatusOf(outs[b].err) # s
      <3>1. Among(outs, s) \subseteq Nat
        BY <1>2, <1>4
      <3>2. d \in Among(outs, s) /\ \A b \in Among(outs, s) : d <= b
        BY <2>2, <3>1, FirstIsLeast
      <3>3. \A a : a \in Among(outs, s) <=> a \in Addresses /\ StatusOf(outs[a].err) = s
        BY <1>2
      <3>4. d \in Addresses /\ StatusOf(outs[d].err) = s
        BY <3>2, <3>3
      <3>5. ASSUME NEW b \in Addresses, b < d PROVE StatusOf(outs[b].err) # s
        <4>1. b \in Nat /\ d \in Nat
          BY <1>4, <3>4
        <4>2. ~(d <= b)
          BY <3>5, <4>1
        <4> QED BY <3>2, <3>3, <4>2
      <3> QED BY <3>4, <3>5
    <2>3. \/ layer = "tls" \/ d = 0
          \/ Among(outs, "fail") # {} /\ d = FirstOf(Among(outs, "fail"))
          \/ Among(outs, "timeout") # {} /\ d = FirstOf(Among(outs, "timeout"))
      BY DEF d, Decider
    <2> QED BY <2>1, <2>2, <2>3
  <1>6. /\ status' \in {"fail", "timeout", "unknown"}
        /\ kind' \in AttemptKinds
    <2>1. CASE d = 0
      BY <1>1, <2>1 DEF AttemptKinds, Errs
    <2>2. CASE d # 0
      <3>1. outs[d].err \in Errs /\ outs[d].err # ""
        BY <1>2, <1>3, <1>5, <2>2
      <3> QED BY <1>1, <2>2, <3>1, ErrTyped
    <2> QED BY <2>1, <2>2
  <1>7. AttemptsTypeOK'
    BY <1>1, <1>2, <1>6 DEF AttemptsTypeOK, Statuses, Addresses
  <1>8. Delivered'
    BY <1>1, <1>2, SortedDelivers DEF outs
  <1>9. Addresses' = Addresses
    BY <1>1 DEF Addresses
  <1>10. Judged'
    <2>1. addrs' >= 1 /\ results' = << >> /\ Len(outcomes') = addrs' /\ winner' = 0
      BY <1>1, <1>2, <1>3 DEF Closed
    <2>2. \A a \in Addresses :
             outcomes'[a].addr = a /\ attempt'[a] = "sent" /\ outcomes'[a].err # ""
      BY <1>1, <1>2, <1>3
    <2> QED BY <1>9, <2>1, <2>2 DEF Judged
  <1>11. Evident'
    <2>1. kind' # "" =>
            \E a \in Addresses :
               /\ KindOf(outs[a].err) = kind'
               /\ \A b \in Addresses : b < a => StatusOf(outs[b].err) # status'
      BY <1>1, <1>5
    <2>2. ASSUME layer # "tls", NEW a \in Addresses, StatusOf(outs[a].err) = "fail"
          PROVE  status' = "fail"
      <3>1. Among(outs, "fail") # {}
        BY <1>2, <2>2, ZenonT(30)
      <3>2. d = FirstOf(Among(outs, "fail"))
        BY <2>2, <3>1 DEF d, Decider
      <3>3. d \in Among(outs, "fail")
        <4>1. Among(outs, "fail") \subseteq Nat
          BY <1>2, <1>4
        <4> QED BY <3>1, <3>2, <4>1, FirstIsLeast
      <3> QED BY <1>1, <1>2, <1>4, <3>3
    <2>3. \E a \in Addresses : StatusOf(outs[a].err) = status'
      <3>1. CASE d # 0
        BY <1>1, <1>5, <3>1
      <3>2. CASE d = 0
        <4>1. Among(outs, "fail") = {} /\ Among(outs, "timeout") = {}
          <5>1. ASSUME NEW s, Among(outs, s) # {}
                PROVE  FirstOf(Among(outs, s)) # 0
            <6>1. Among(outs, s) \subseteq Nat /\ \A a \in Among(outs, s) : a # 0
              BY <1>2, <1>4
            <6> QED BY <5>1, <6>1, FirstIsLeast
          <5>2. layer # "tls"
            BY <3>2 DEF d, Decider
          <5> QED BY <3>2, <5>1, <5>2 DEF d, Decider
        <4>2. \A s : Among(outs, s) = {} => StatusOf(outs[1].err) # s
          BY <1>2, <1>4, ZenonT(30)
        <4>3. StatusOf(outs[1].err) \in {"pass", "fail", "timeout", "unknown"}
          BY <1>2, <1>4, ErrTyped
        <4>4. StatusOf(outs[1].err) = "unknown"
          BY <1>1, <4>1, <4>2, <4>3
        <4> QED BY <1>1, <1>4, <3>2, <4>4
      <3> QED BY <3>1, <3>2
    <2> QED BY <1>1, <1>9, <2>1, <2>2, <2>3 DEF Evident
  <1>12. Reported'
    BY <1>1, <1>3, <1>4, <1>6, <1>9, <1>10, <1>11 DEF Reported
  <1>13. Idle' /\ Collecting'
    BY <1>1, <1>6 DEF Idle, Collecting
  <1> QED BY <1>7, <1>8, <1>12, <1>13 DEF AttInv

\* An address has a connection: one is chosen and the others are closed.
LEMMA SettlePassedStep ==
    ASSUME AttInv, SettlePassed
    PROVE  AttInv'
PROOF
  <1> DEFINE outs   == Sorted(outcomes)
             passed == Among(outs, "pass")
  <1>1. /\ pc = "collect" /\ Closed /\ passed # {} /\ outcomes' = outs
        /\ winner' = IF layer = "tls" THEN FirstOf(passed) ELSE winner
        /\ open' = IF layer = "tls" THEN open \cap {FirstOf(passed)} ELSE open
        /\ \/ pc' = "request" /\ status' = status
           \/ pc' = "settled" /\ status' = "pass"
        /\ UNCHANGED <<layer, ctx, kind, addrs, attempt, results>>
    BY DEF SettlePassed
  <1> HIDE DEF outs, passed
  <1>2. /\ AttemptsTypeOK /\ Delivered
        /\ addrs \in Nat /\ addrs >= 1 /\ status = "unknown"
        /\ outs \in Seq(Outcome) /\ Len(outs) = addrs
        /\ \A a \in Addresses :
              outs[a].addr = a /\ outs[a].err \in Errs /\ attempt[a] = "sent"
        /\ passed = {a \in Addresses : outs[a].err = ""}
        /\ open = {a \in Addresses : IF layer = "tls" THEN outs[a].err = "" ELSE a = winner}
        /\ layer # "tls" => \A a \in Addresses : outs[a].err = "" => winner # 0
        /\ layer # "tls" /\ winner # 0 => winner \in Addresses /\ outs[winner].err = ""
    BY <1>1, AllIn DEF outs, passed
  <1>3. \A a \in Addresses : a \in Nat /\ a # 0 /\ a \in 0..addrs
    <2>1. addrs \in Nat
      BY <1>2
    <2> QED BY <2>1 DEF Addresses
  <1>4. FirstOf(passed) \in passed /\ \A b \in passed : FirstOf(passed) <= b
    <2>1. passed \subseteq Nat
      BY <1>2, <1>3
    <2> QED BY <1>1, <2>1, FirstIsLeast
  <1>5. /\ winner' \in Addresses /\ outs[winner'].err = ""
        /\ open' = {a \in Addresses : a = winner'}
    BY <1>1, <1>2, <1>4
  <1>6. ASSUME layer = "tls", NEW b \in Addresses, b < winner'
        PROVE  outs[b].err # ""
    <2>1. winner' = FirstOf(passed)
      BY <1>1, <1>6
    <2>2. b \in Nat /\ winner' \in Nat
      BY <1>3, <1>5
    <2>3. ~(winner' <= b)
      BY <1>6, <2>2
    <2>4. b \notin passed
      BY <1>4, <2>1, <2>3
    <2> QED BY <1>2, <2>4
  <1>7. Addresses' = Addresses
    BY <1>1 DEF Addresses
  <1>8. AttemptsTypeOK'
    <2>1. winner' \in 0..addrs
      BY <1>3, <1>5
    <2> QED BY <1>1, <1>2, <1>5, <1>7, <2>1 DEF AttemptsTypeOK, Statuses
  <1>9. Delivered'
    BY <1>1, <1>2, SortedDelivers DEF outs
  <1>10. Judged'
    <2>1. addrs' >= 1 /\ results' = << >> /\ Len(outcomes') = addrs'
      BY <1>1, <1>2 DEF Closed
    <2>2. \A a \in Addresses : outcomes'[a].addr = a /\ attempt'[a] = "sent"
      BY <1>1, <1>2
    <2>3. winner' # 0 /\ outcomes'[winner'].err = ""
      BY <1>1, <1>3, <1>5
    <2>4. layer' = "tls" => \A b \in Addresses : b < winner' => outcomes'[b].err # ""
      BY <1>1, <1>6
    <2> QED BY <1>7, <2>1, <2>2, <2>3, <2>4 DEF Judged
  <1>11. Reported'
    BY <1>1, <1>2, <1>3, <1>5, <1>7, <1>10 DEF Reported
  <1>12. Idle' /\ Collecting'
    BY <1>1, <1>2 DEF Idle, Collecting
  <1> QED BY <1>8, <1>9, <1>11, <1>12 DEF AttInv

\* The request over HTTP/3 and its end: the verdict is the handshake's.
LEMMA RequestStep ==
    ASSUME AttInv, RequestAnswered \/ RequestGivenUp
    PROVE  AttInv'
PROOF
  <1>1. /\ pc = "request" /\ pc' = "settled" /\ status' = "pass"
        /\ kind' \in {"", "h3_request_error"}
        /\ UNCHANGED <<layer, ctx, addrs, attempt, results, open, outcomes, winner>>
    BY DEF RequestAnswered, RequestGivenUp, attemptVars
  <1>2. status # "skipped"
    BY <1>1 DEF AttInv, Idle
  <1>3. Addresses' = Addresses
    BY <1>1 DEF Addresses
  <1>4. AttemptsTypeOK'
    BY <1>1, <1>3 DEF AttInv, AttemptsTypeOK, Statuses, AttemptKinds, Errs
  <1>5. Delivered'
    BY <1>1, <1>3 DEF AttInv, Delivered
  <1>6. Reported'
    BY <1>1, <1>2, <1>3 DEF AttInv, Reported, Judged
  <1>7. Idle' /\ Collecting'
    BY <1>1 DEF Idle, Collecting
  <1> QED BY <1>4, <1>5, <1>6, <1>7 DEF AttInv

\* The probe returns: the connection it used was the only one open.
LEMMA ReturnStep ==
    ASSUME AttInv, Return
    PROVE  AttInv'
PROOF
  <1>1. /\ pc = "settled" /\ pc' = "returned" /\ open' = open \ {winner}
        /\ UNCHANGED <<layer, ctx, status, kind, addrs, attempt, results, outcomes, winner>>
    BY DEF Return
  <1>2. status # "skipped"
    BY <1>1 DEF AttInv, Idle
  <1>3. Addresses' = Addresses
    BY <1>1 DEF Addresses
  <1>4. AttemptsTypeOK'
    BY <1>1, <1>3 DEF AttInv, AttemptsTypeOK
  <1>5. Delivered'
    BY <1>1, <1>3 DEF AttInv, Delivered
  <1>6. Judged' /\ (status # "pass" => Evident')
    BY <1>1, <1>2, <1>3 DEF AttInv, Reported, Judged, Evident
  <1>7. open' = {}
    BY <1>1, <1>2 DEF AttInv, Reported
  <1>8. Reported'
    BY <1>1, <1>2, <1>3, <1>6, <1>7 DEF AttInv, Reported
  <1>9. Idle' /\ Collecting'
    BY <1>1, <1>2 DEF Idle, Collecting
  <1> QED BY <1>4, <1>5, <1>8, <1>9 DEF AttInv

-----------------------------------------------------------------------------
(* Resolution, and the context *)

\* With no address there is nothing to deliver.
LEMMA IdleDelivers ==
    ASSUME results = << >>, outcomes = << >>, \A a \in Addresses : attempt[a] # "sent"
    PROVE  Delivered
PROOF
  <1>1. Distinct(results) /\ Distinct(outcomes)
    BY DEF Distinct
  <1> QED BY <1>1, EmptyCarries DEF Delivered

\* The name has resolved: nobody has dialled yet.
LEMMA ResolveStep ==
    ASSUME AttInv, Resolve
    PROVE  AttInv'
PROOF
  <1>1. /\ pc = "resolve" /\ pc' = "collect" /\ addrs' \in 1..MaxAddresses
        /\ attempt' = [a \in 1..addrs' |-> "waiting"]
        /\ UNCHANGED <<layer, ctx, status, kind, results, open, outcomes, winner>>
    BY DEF Resolve
  <1>2. /\ status = "unknown" /\ results = << >> /\ open = {}
        /\ outcomes = << >> /\ winner = 0
    BY <1>1 DEF AttInv, Idle, AttemptsIdle
  <1>3. addrs' \in 0..MaxAddresses /\ 0 \in 0..addrs' /\ addrs' >= 1
    BY <1>1, AttemptsAssumption DEF AttemptsAssumption
  <1>4. \A a \in Addresses' : attempt'[a] = "waiting" /\ a # 0
    BY <1>1 DEF Addresses
  <1>5. AttemptsTypeOK'
    BY <1>1, <1>2, <1>3 DEF AttInv, AttemptsTypeOK, Addresses, Stage
  <1>6. Delivered'
    <2>1. Distinct(results') /\ Distinct(outcomes')
      BY <1>1, <1>2 DEF Distinct
    <2>2. \A a : ~Carries(results', a) /\ ~Carries(outcomes', a)
      BY <1>1, <1>2, EmptyCarries
    <2> QED BY <1>4, <2>1, <2>2 DEF Delivered
  <1>7. Collecting'
    <2>1. \A a : ~Passes(results', a) /\ ~Passes(outcomes', a)
      BY <1>1, <1>2, EmptyCarries
    <2>2. \A a \in Addresses' : ~Connected(a)'
      BY <1>1, <1>2, <1>4, <2>1 DEF Connected
    <2>3. open' = {a \in Addresses : Connected(a)}'
      BY <1>1, <1>2, <2>2
    <2> QED BY <1>1, <1>2, <1>3, <1>4, <2>1, <2>3 DEF Collecting
  <1>8. Idle' /\ Reported'
    BY <1>1, <1>2 DEF Idle, Reported
  <1> QED BY <1>5, <1>6, <1>7, <1>8 DEF AttInv

\* The name does not resolve: the probe is skipped.
LEMMA ResolveFailsStep ==
    ASSUME AttInv, ResolveFails, UNCHANGED attemptVars
    PROVE  AttInv'
PROOF
  <1>1. /\ pc = "resolve" /\ pc' = "returned" /\ status' = "skipped" /\ kind' = "dns_error"
        /\ UNCHANGED <<layer, ctx, addrs, attempt, results, open, outcomes, winner>>
    BY DEF ResolveFails, attemptVars
  <1>2. Addresses' = Addresses
    BY <1>1 DEF Addresses
  <1>3. AttemptsTypeOK'
    BY <1>1, <1>2 DEF AttInv, AttemptsTypeOK, Statuses, AttemptKinds
  <1>4. Delivered'
    BY <1>1, <1>2 DEF AttInv, Delivered
  <1>5. Idle'
    BY <1>1 DEF AttInv, Idle, AttemptsIdle
  <1>6. Collecting' /\ Reported'
    BY <1>1 DEF Collecting, Reported
  <1> QED BY <1>3, <1>4, <1>5, <1>6 DEF AttInv

\* Steps that change nothing but the context.
LEMMA ContextStep ==
    ASSUME AttInv, ctx' \in {"live", "expired", "cancelled"},
           UNCHANGED <<layer, pc, status, kind, addrs, attempt, results, open, outcomes, winner>>
    PROVE  AttInv'
PROOF
  <1>1. Addresses' = Addresses
    BY DEF Addresses
  <1>2. AttemptsTypeOK'
    BY <1>1 DEF AttInv, AttemptsTypeOK
  <1>3. Delivered'
    BY <1>1 DEF AttInv, Delivered
  <1>4. Idle'
    BY DEF AttInv, Idle, AttemptsIdle
  <1>5. Collecting'
    <2>1. \A a \in Addresses : Connected(a)' <=> Connected(a)
      BY DEF Connected
    <2> QED BY <1>1, <2>1 DEF AttInv, Collecting
  <1>6. Reported'
    <2>1. (Judged' <=> Judged) /\ (Evident' <=> Evident)
      BY <1>1 DEF Judged, Evident
    <2> QED BY <1>1, <2>1 DEF AttInv, Reported
  <1> QED BY <1>2, <1>3, <1>4, <1>5, <1>6 DEF AttInv

-----------------------------------------------------------------------------
(* The theorems *)

\* The invariant holds when a probe begins.
LEMMA AttemptsStart ==
    ASSUME AttemptsInit
    PROVE  AttInv
PROOF
  <1>1. /\ layer \in AttemptLayers /\ ctx = "live" /\ pc = "resolve"
        /\ status = "unknown" /\ kind = ""
        /\ addrs = 0 /\ attempt = << >> /\ results = << >> /\ open = {}
        /\ outcomes = << >> /\ winner = 0
    BY DEF AttemptsInit, Begin, AttemptsIdle
  <1>2. Addresses = {} /\ addrs = 0
    <2>1. 1..0 = {}
      OBVIOUS
    <2> QED BY <1>1, <2>1 DEF Addresses
  <1>3. AttemptsTypeOK
    <2>1. addrs \in 0..MaxAddresses /\ winner \in 0..addrs
      <3>1. MaxAddresses \in Nat
        BY AttemptsAssumption DEF AttemptsAssumption
      <3>2. addrs = 0 /\ winner = 0
        BY <1>1
      <3> QED BY <3>1, <3>2
    <2>2. attempt \in [Addresses -> Stage]
      <3>0. << >> \in Seq(Stage) /\ Len(<< >>) = 0
        OBVIOUS
      <3>1. attempt \in Seq(Stage) /\ Len(attempt) = 0
        BY <1>1, <3>0, Zenon
      <3>2. attempt \in [1..Len(attempt) -> Stage]
        BY <3>1
      <3> QED BY <1>2, <3>1, <3>2 DEF Addresses
    <2>3. results \in Seq(Outcome) /\ outcomes \in Seq(Outcome)
      <3>1. << >> \in Seq(Outcome)
        OBVIOUS
      <3> QED BY <1>1, <3>1, Zenon
    <2>4. status \in Statuses /\ kind \in AttemptKinds
      BY <1>1 DEF Statuses, AttemptKinds, Errs
    <2>5. open \subseteq Addresses
      BY <1>1
    <2>6. layer \in AttemptLayers /\ ctx = "live" /\ pc = "resolve"
      BY <1>1
    <2> HIDE <1>1, <1>2
    <2> QED BY <2>1, <2>2, <2>3, <2>4, <2>5, <2>6 DEF AttemptsTypeOK
  <1>4. Delivered
    BY <1>1, <1>2, IdleDelivers
  <1>5. Idle /\ Collecting /\ Reported
    BY <1>1 DEF Idle, AttemptsIdle, Collecting, Reported
  <1> QED BY <1>3, <1>4, <1>5 DEF AttInv

\* Every step of the probe keeps the invariant.
LEMMA AttemptsStep ==
    ASSUME AttInv, [AttemptsNext]_attemptsVars
    PROVE  AttInv'
PROOF
  <1>1. CASE Resolve
    BY <1>1, ResolveStep
  <1>2. ASSUME NEW a \in Addresses, Attempt(a) PROVE AttInv'
    BY <1>2, AcquireStep, DialFailsStep, ConnectsStep, HandshakeFailsStep, HandshakeSucceedsStep
       DEF Attempt
  <1>3. CASE Collect
    BY <1>3, ReceiveStep, SettleFailedStep, SettlePassedStep, ReturnStep DEF Collect
  <1>4. CASE RequestAnswered \/ RequestGivenUp
    BY <1>4, RequestStep
  <1>5. CASE ResolveFails /\ UNCHANGED attemptVars
    BY <1>5, ResolveFailsStep
  <1>6. CASE (Deadline \/ Cancel) /\ UNCHANGED attemptVars
    BY <1>6, ContextStep DEF Deadline, Cancel, attemptVars
  <1>7. CASE UNCHANGED attemptsVars
    <2>1. ctx \in {"live", "expired", "cancelled"}
      BY DEF AttInv, AttemptsTypeOK
    <2> QED BY <1>7, <2>1, ContextStep DEF attemptsVars, probeVars, attemptVars
  <1> QED BY <1>1, <1>2, <1>3, <1>4, <1>5, <1>6, <1>7 DEF AttemptsNext

\* Whatever the order in which the addresses answer, the invariant holds.
THEOREM AttemptsInvariant == AttemptsSpec => []AttInv
PROOF
  <1>1. AttemptsInit => AttInv
    BY AttemptsStart
  <1>2. AttInv /\ [AttemptsNext]_attemptsVars => AttInv'
    BY AttemptsStep
  <1> QED BY <1>1, <1>2, PTL DEF AttemptsSpec

\* Every variable holds what the code's declaration of it allows.
THEOREM AttemptsTyped == AttemptsSpec => []AttemptsTypeOK
PROOF
  <1>1. AttInv => AttemptsTypeOK
    BY DEF AttInv
  <1> QED BY <1>1, AttemptsInvariant, PTL

\* A probe that has chosen has one connection, one that has returned none.
LEMMA NoConnectionLeftByInv == AttInv => NoConnectionLeft
PROOF
  <1> SUFFICES ASSUME AttInv PROVE NoConnectionLeft
    OBVIOUS
  <1>1. CASE status = "skipped"
    BY <1>1 DEF AttInv, Idle, AttemptsIdle, NoConnectionLeft
  <1>2. CASE status # "skipped"
    BY <1>2 DEF AttInv, Reported, NoConnectionLeft
  <1> QED BY <1>1, <1>2

\* A probe that has chosen its connection has closed every other, and leaves
\* none open when it returns.
THEOREM NoConnectionLeftAlways == AttemptsSpec => []NoConnectionLeft
PROOF BY NoConnectionLeftByInv, AttemptsInvariant, PTL

\* What a settled probe has in its hands.
LEMMA SettledMeans ==
    ASSUME AttInv, Settled
    PROVE  /\ Judged
           /\ pc = "settled" => open = {a \in Addresses : a = winner}
           /\ status = "pass" <=> winner # 0
           /\ status # "pass" => Evident
           /\ winner # 0 => winner \in Addresses
           /\ DOMAIN outcomes = Addresses
           /\ addrs \in Nat
PROOF
  <1>1. pc \in {"settled", "returned"} /\ status # "skipped" /\ AttemptsTypeOK
    BY DEF Settled, AttInv
  <1>2. /\ Judged
        /\ pc = "settled" => open = {a \in Addresses : a = winner}
        /\ status = "pass" <=> winner # 0
        /\ status # "pass" => Evident
    BY <1>1 DEF AttInv, Reported
  <1>3. addrs \in Nat
    BY <1>1, AttemptsAssumption DEF AttemptsTypeOK, AttemptsAssumption
  <1>4. winner # 0 => winner \in Addresses
    BY <1>1, <1>3 DEF AttemptsTypeOK, Addresses
  <1>5. DOMAIN outcomes = Addresses
    <2>1. outcomes \in Seq(Outcome)
      BY <1>1 DEF AttemptsTypeOK
    <2>2. Len(outcomes) = addrs
      BY <1>2 DEF Judged
    <2> QED BY <2>1, <2>2 DEF Addresses
  <1> QED BY <1>2, <1>3, <1>4, <1>5

\* A probe that passes holds an open connection.
LEMMA PassMeansConnectedByInv == AttInv => PassMeansConnected
PROOF
  <1> SUFFICES ASSUME AttInv, Settled, pc = "settled" PROVE PassMeansConnected
    BY DEF PassMeansConnected
  <1>1. /\ Judged /\ open = {a \in Addresses : a = winner}
        /\ status = "pass" <=> winner # 0
        /\ winner # 0 => winner \in Addresses
        /\ addrs \in Nat
    BY SettledMeans
  <1>2. status = "pass" <=> \E a \in Addresses : outcomes[a].err = ""
    BY <1>1 DEF Judged
  <1>3. winner # 0 => winner \in open /\ outcomes[winner].err = ""
    BY <1>1 DEF Judged
  <1>4. ASSUME layer = "tls", NEW b \in 1..(winner - 1) PROVE outcomes[b].err # ""
    <2>1. winner \in 0..addrs
      BY DEF AttInv, AttemptsTypeOK
    <2>2. b \in Addresses /\ b < winner
      BY <1>1, <2>1 DEF Addresses
    <2> QED BY <1>1, <1>4, <2>2 DEF Judged
  <1> QED BY <1>1, <1>2, <1>3, <1>4 DEF PassMeansConnected

\* The name passes exactly when an address does, and the probe goes on with an
\* open connection of such an address; for TLS, of the first one.
THEOREM PassMeansConnectedAlways == AttemptsSpec => []PassMeansConnected
PROOF BY PassMeansConnectedByInv, AttemptsInvariant, PTL

\* The outcomes of a settled probe are in order, the evidence is the first.
LEMMA ReportIsOrderedByInv == AttInv => ReportIsOrdered
PROOF
  <1> SUFFICES ASSUME AttInv, Settled PROVE ReportIsOrdered
    BY DEF ReportIsOrdered
  <1>1. Judged /\ DOMAIN outcomes = Addresses /\ (status # "pass" => Evident) /\ addrs \in Nat
    BY SettledMeans
  <1>2. [i \in DOMAIN outcomes |-> outcomes[i].addr] = [a \in Addresses |-> a]
    BY <1>1 DEF Judged
  <1>3. ASSUME status # "pass", kind # ""
        PROVE  \E a \in Addresses :
                  /\ KindOf(outcomes[a].err) = kind
                  /\ \A b \in 1..(a - 1) : StatusOf(outcomes[b].err) # status
    <2>1. PICK a \in Addresses :
                  /\ KindOf(outcomes[a].err) = kind
                  /\ \A b \in Addresses : b < a => StatusOf(outcomes[b].err) # status
      BY <1>1, <1>3 DEF Evident
    <2>2. \A b \in 1..(a - 1) : b \in Addresses /\ b < a
      BY <1>1 DEF Addresses
    <2> QED BY <2>1, <2>2
  <1> QED BY <1>2, <1>3 DEF ReportIsOrdered

\* The outcomes of a settled probe are in the resolver's order, and its
\* evidence is the first that speaks of its verdict.
THEOREM ReportIsOrderedAlways == AttemptsSpec => []ReportIsOrdered
PROOF BY ReportIsOrderedByInv, AttemptsInvariant, PTL

\* A failure among the outcomes is the verdict, unless one passes.
LEMMA FailureWinsByInv == AttInv => FailureWinsByAggregate
PROOF
  <1> SUFFICES ASSUME AttInv, Settled, layer # "tls", status # "pass",
                      NEW i \in DOMAIN outcomes, StatusOf(outcomes[i].err) = "fail"
               PROVE  status = "fail"
    BY DEF FailureWinsByAggregate
  <1> QED BY SettledMeans DEF Evident

\* An explicit failure wins over a timeout, for TCP and QUIC.
THEOREM FailureWinsAlways == AttemptsSpec => []FailureWinsByAggregate
PROOF BY FailureWinsByInv, AttemptsInvariant, PTL
=============================================================================
