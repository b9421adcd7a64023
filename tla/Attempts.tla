------------------------------ MODULE Attempts ------------------------------
(***************************************************************************)
(* How the TCP, TLS and QUIC probes try every resolved address of a name   *)
(* at once (probe/common.go, tcp.go, tls.go, quic.go): one goroutine for   *)
(* each address behind a semaphore, a channel of results, the goroutine    *)
(* that collects them, and the verdict on the name.                        *)
(*                                                                         *)
(* Addresses are numbered in the resolver's order.                         *)
(***************************************************************************)
EXTENDS Probe

CONSTANTS
    MaxAddresses,  \* a name resolves to at most so many addresses
    Limit,         \* addrAttemptLimit
    DialErrors,    \* how a dial may fail while the context is live
    TLSErrors      \* how a handshake may fail while the context is live

ASSUME AttemptsAssumption ==
    /\ MaxAddresses \in Nat \ {0}
    /\ Limit \in Nat \ {0}
    /\ DialErrors \subseteq Errors
    /\ TLSErrors \subseteq Errors

VARIABLES
    addrs,    \* how many addresses the name resolved to
    attempt,  \* what the goroutine of each address is doing
    results,  \* the channel: [addr, err], "" for success
    open,     \* the addresses with an open connection
    outcomes, \* the outcomes in the order they were collected, then sorted
    winner    \* the address whose connection the probe goes on with, or 0

attemptVars == <<addrs, attempt, results, open, outcomes, winner>>

attemptsVars == <<probeVars, attemptVars>>

AttemptLayers == {"tcp", "tls", "quic"}

Addresses == 1..addrs

AttemptsIdle ==
    /\ addrs = 0
    /\ attempt = << >>
    /\ results = << >>
    /\ open = {}
    /\ outcomes = << >>
    /\ winner = 0

AttemptsInit == Begin(AttemptLayers) /\ AttemptsIdle

\* resolveAll, and a goroutine for each address.
Resolve ==
    /\ pc = "resolve"
    /\ pc' = "collect"
    /\ addrs' \in 1..MaxAddresses
    /\ attempt' = [a \in 1..addrs' |-> "waiting"]
    /\ UNCHANGED <<layer, ctx, status, kind, results, open, outcomes, winner>>

-----------------------------------------------------------------------------
(* The goroutine of an address *)

\* Mutant: a failed handshake keeps its slot.
InFlightHeld ==
    {a \in Addresses : attempt[a] \in {"dialing", "late", "handshaking"}}
    \cup {results[i].addr : i \in {i \in DOMAIN results : results[i].err = "alert"}}
    \cup {outcomes[i].addr : i \in {i \in DOMAIN outcomes : outcomes[i].err = "alert"}}

InFlight == {a \in Addresses : attempt[a] \in {"dialing", "late", "handshaking"}}

\* sem <- struct{}{}; QUIC has no semaphore.  A dial that starts on a dead
\* context never leaves the host.
Acquire(a) ==
    /\ attempt[a] = "waiting"
    /\ layer # "quic" => Cardinality(InFlight) < Limit
    /\ attempt' = [attempt EXCEPT ![a] = IF ctx = "live" THEN "dialing" ELSE "late"]
    /\ UNCHANGED <<probeVars, addrs, results, open, outcomes, winner>>

Send(a, err) ==
    /\ attempt' = [attempt EXCEPT ![a] = "sent"]
    /\ results' = Append(results, [addr |-> a, err |-> err])

DialFails(a) ==
    /\ attempt[a] \in {"dialing", "late"}
    /\ \E err \in MayFail(IF attempt[a] = "late" THEN {}
                         ELSE IF layer = "quic" THEN TLSErrors ELSE DialErrors) : Send(a, err)
    /\ UNCHANGED <<probeVars, addrs, open, outcomes, winner>>

\* A TCP connection is what the TCP probe is after; the TLS probe goes on to
\* the handshake.  A QUIC dial includes it.
Connects(a) ==
    /\ attempt[a] = "dialing"
    /\ open' = open \cup {a}
    /\ IF layer = "tls"
       THEN attempt' = [attempt EXCEPT ![a] = "handshaking"] /\ UNCHANGED results
       ELSE Send(a, "")
    /\ UNCHANGED <<probeVars, addrs, outcomes, winner>>

\* Mutant: the connection of a failed handshake stays open.
HandshakeFailsOpen(a) ==
    /\ attempt[a] = "handshaking"
    /\ \E err \in MayFail(TLSErrors) : Send(a, err)
    /\ UNCHANGED <<probeVars, addrs, open, outcomes, winner>>

HandshakeFails(a) ==
    /\ attempt[a] = "handshaking"
    /\ \E err \in MayFail(TLSErrors) : Send(a, err)
    /\ open' = open \ {a}
    /\ UNCHANGED <<probeVars, addrs, outcomes, winner>>

HandshakeSucceeds(a) ==
    /\ attempt[a] = "handshaking"
    /\ Send(a, "")
    /\ UNCHANGED <<probeVars, addrs, open, outcomes, winner>>

-----------------------------------------------------------------------------
(* The collecting goroutine *)

Outcomes(outs) == {outs[i] : i \in DOMAIN outs}

\* Mutant: the last connection wins, and was closed as a duplicate.
ReceiveLast ==
    /\ pc = "collect"
    /\ results # << >>
    /\ LET r == Head(results)
       IN  /\ results' = Tail(results)
           /\ outcomes' = Append(outcomes, r)
           /\ winner' = IF layer # "tls" /\ r.err = "" THEN r.addr ELSE winner
           /\ open' = IF layer # "tls" /\ r.err = "" /\ winner # 0 THEN open \ {r.addr} ELSE open
    /\ UNCHANGED <<probeVars, addrs, attempt>>

\* The TCP and QUIC probes keep the first connection that comes in and close
\* the others; the TLS probe only collects.
Receive ==
    /\ pc = "collect"
    /\ results # << >>
    /\ LET r == Head(results)
       IN  /\ results' = Tail(results)
           /\ outcomes' = Append(outcomes, r)
           /\ winner' = IF layer # "tls" /\ r.err = "" /\ winner = 0 THEN r.addr ELSE winner
           /\ open' = IF layer # "tls" /\ r.err = "" /\ winner # 0 THEN open \ {r.addr} ELSE open
    /\ UNCHANGED <<probeVars, addrs, attempt>>

\* Mutant: the outcomes are left in the order they came in.
SortedUnsorted(outs) == outs

\* sortOutcomes: the outcomes in the resolver's order.
Sorted(outs) == [a \in 1..Len(outs) |-> CHOOSE r \in Outcomes(outs) : r.addr = a]

FirstOf(S) == CHOOSE a \in S : \A b \in S : a <= b

Among(outs, s) == {a \in DOMAIN outs : StatusOf(outs[a].err) = s}

\* Mutant: the first outcome decides.
DeciderFirst(outs) == 1

\* The outcome that decides when there is no connection: for TCP and QUIC
\* (aggregateStatus) the first definite failure, or else the first timeout;
\* for TLS the first address's.
Decider(outs) ==
    IF layer = "tls" THEN 1
    ELSE IF Among(outs, "fail") # {} THEN FirstOf(Among(outs, "fail"))
    ELSE IF Among(outs, "timeout") # {} THEN FirstOf(Among(outs, "timeout")) ELSE 0

Closed == results = << >> /\ \A a \in Addresses : attempt[a] = "sent"

\* The channel is closed and no address has a connection.
SettleFailed ==
    /\ pc = "collect"
    /\ Closed
    /\ LET outs == Sorted(outcomes)
           d    == Decider(outs)
       IN  /\ Among(outs, "pass") = {}
           /\ pc' = "settled"
           /\ outcomes' = outs
           /\ status' = IF d = 0 THEN "unknown" ELSE StatusOf(outs[d].err)
           /\ kind' = IF d = 0 THEN "" ELSE KindOf(outs[d].err)
    /\ UNCHANGED <<layer, ctx, addrs, attempt, results, open, winner>>

\* The channel is closed: TLS chooses the first connection in the resolver's
\* order and closes the others; QUIC goes on to its HTTP/3 request.
SettlePassed ==
    /\ pc = "collect"
    /\ Closed
    /\ LET outs   == Sorted(outcomes)
           passed == Among(outs, "pass")
       IN  /\ passed # {}
           /\ outcomes' = outs
           /\ winner' = IF layer = "tls" THEN FirstOf(passed) ELSE winner
           /\ open' = IF layer = "tls" THEN open \cap {FirstOf(passed)} ELSE open
    /\ IF layer = "quic"
       THEN pc' = "request" /\ UNCHANGED status
       ELSE pc' = "settled" /\ status' = "pass"
    /\ UNCHANGED <<layer, ctx, kind, addrs, attempt, results>>

\* h3Request: its failure is evidence, the handshake is the verdict.
RequestAnswered ==
    /\ pc = "request"
    /\ pc' = "settled"
    /\ status' = "pass"
    /\ kind' \in {"", "h3_request_error"}
    /\ UNCHANGED <<layer, ctx, attemptVars>>

\* ... given up once the context is dead.
RequestGivenUp ==
    /\ pc = "request"
    /\ ctx # "live"
    /\ pc' = "settled"
    /\ status' = "pass"
    /\ kind' = "h3_request_error"
    /\ UNCHANGED <<layer, ctx, attemptVars>>

\* The probe returns, and closes the connection it used.
Return ==
    /\ pc = "settled"
    /\ pc' = "returned"
    /\ open' = open \ {winner}
    /\ UNCHANGED <<layer, ctx, status, kind, addrs, attempt, results, outcomes, winner>>

-----------------------------------------------------------------------------

Collect == Receive \/ SettleFailed \/ SettlePassed \/ Return

Attempt(a) ==
    \/ Acquire(a)
    \/ DialFails(a) \/ Connects(a)
    \/ HandshakeFails(a) \/ HandshakeSucceeds(a)

AttemptsNext ==
    /\ layer \in AttemptLayers
    /\ \/ Resolve
       \/ \E a \in Addresses : Attempt(a)
       \/ Collect
       \/ RequestAnswered \/ RequestGivenUp
       \/ (ResolveFails \/ Deadline \/ Cancel) /\ UNCHANGED attemptVars

AttemptsSpec == AttemptsInit /\ [][AttemptsNext]_attemptsVars

\* The collector runs, a goroutine that finds room goes on, and resolution,
\* dials, handshakes and the request give up once their context is dead:
\* while it is live, an address may stay silent for ever.
AttemptsProgress ==
    /\ layer \in AttemptLayers
    /\ \/ Collect
       \/ RequestGivenUp
       \/ \E a \in Addresses :
             Acquire(a) \/ (ctx # "live" /\ (DialFails(a) \/ HandshakeFails(a)))
       \/ ctx # "live" /\ ResolveFails /\ UNCHANGED attemptVars
-----------------------------------------------------------------------------
(* Properties *)

Errs         == Errors \cup {""}
Outcome      == [addr : 1..MaxAddresses, err : Errs]
AttemptKinds == Errs \cup {"dns_error", "h3_request_error"}
Stage        == {"waiting", "dialing", "late", "handshaking", "sent"}

\* Every variable holds what the code's declaration of it allows.
AttemptsTypeOK ==
    /\ layer \in AttemptLayers
    /\ ctx \in {"live", "expired", "cancelled"}
    /\ pc \in {"resolve", "collect", "request", "settled", "returned"}
    /\ status \in Statuses
    /\ kind \in AttemptKinds
    /\ addrs \in 0..MaxAddresses
    /\ attempt \in [Addresses -> Stage]
    /\ results \in Seq(Outcome)
    /\ open \subseteq Addresses
    /\ outcomes \in Seq(Outcome)
    /\ winner \in 0..addrs

Settled == layer \in AttemptLayers /\ pc \in {"settled", "returned"} /\ status # "skipped"

\* "Reports stay deterministic regardless of completion order"
\* (probe/common.go): the outcomes of a probe that has settled name every
\* address once, in the resolver's order, and the evidence of a failure is
\* that of the first address to fail that way.
ReportIsOrdered ==
    Settled =>
        /\ [i \in DOMAIN outcomes |-> outcomes[i].addr] = [a \in Addresses |-> a]
        /\ status # "pass" /\ kind # "" =>
              \E a \in Addresses :
                  /\ KindOf(outcomes[a].err) = kind
                  /\ \A b \in 1..(a - 1) : StatusOf(outcomes[b].err) # status

\* The name passes exactly when one of its addresses does, and the probe goes
\* on with a connection of such an address, which is still open: for TLS, of
\* the first such address.
PassMeansConnected ==
    Settled /\ pc = "settled" =>
        /\ status = "pass" <=> \E a \in Addresses : outcomes[a].err = ""
        /\ status = "pass" <=> winner # 0
        /\ winner # 0 => winner \in open /\ outcomes[winner].err = ""
        /\ layer = "tls" => \A b \in 1..(winner - 1) : outcomes[b].err # ""

\* A probe that has chosen its connection has closed every other one, and a
\* probe that has returned leaves none open.
NoConnectionLeft ==
    layer \in AttemptLayers =>
        /\ pc \in {"request", "settled"} => open \subseteq {winner}
        /\ pc = "returned" => open = {}

\* "An explicit failure is stronger evidence than a timeout, so it wins"
\* (probe/common.go), as far as the TCP and the QUIC probe go: TLS reports the
\* first address's error.
FailureWinsByAggregate ==
    Settled /\ layer # "tls" /\ (\E i \in DOMAIN outcomes : StatusOf(outcomes[i].err) = "fail")
        => status \in {"fail", "pass"}
=============================================================================
