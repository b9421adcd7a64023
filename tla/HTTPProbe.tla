----------------------------- MODULE HTTPProbe -----------------------------
(***************************************************************************)
(* The HTTP probe (probe/http.go): the addresses of a name are tried one   *)
(* after the other, each pinned for one request and given a slice of what  *)
(* was left of the layer's budget when the first was tried.                *)
(*                                                                         *)
(* Time is counted in ticks and advances by whole attempts.                *)
(***************************************************************************)
EXTENDS Probe

CONSTANTS
    Budgets,     \* what a probe's context may have left when it starts
    MinSlice,    \* the least an address is given (100 ms)
    MaxPeers,    \* a name resolves to at most so many addresses
    Delays,      \* how long an address may take
    HTTPErrors   \* how a request may fail while its context is live

ASSUME HTTPAssumption ==
    /\ Budgets \subseteq Nat \ {0}
    /\ MinSlice \in Nat \ {0}
    /\ MaxPeers \in Nat \ {0}
    /\ Delays \subseteq Nat
    /\ HTTPErrors \subseteq Errors \ {"timeout", "canceled"}

VARIABLES
    budget,   \* the ticks the context had at the start
    clock,    \* the ticks that have passed since
    began,    \* the tick at which the first address was tried
    slice,    \* perAttempt
    peers,    \* what each address would answer, and after how long
    current,  \* the address being tried
    tried     \* what came of the addresses tried: "" is an answer

failoverVars == <<budget, clock, began, slice, peers, current, tried>>

httpVars == <<probeVars, failoverVars>>

\* A status below 400 (""), or one above.
HTTPAnswers == {"", "rejected"}

\* An address answers, fails, or stays silent.
Peer == [reply : HTTPAnswers \cup {"silent"} \cup HTTPErrors, delay : Delays]

\* What comes of a request, and what the evidence of the probe may name.
Replies   == HTTPAnswers \cup Errors
HTTPKinds == Errors \cup {"", "rejected", "dns_error"}

HTTPIdle ==
    /\ budget = 0 /\ clock = 0 /\ began = 0 /\ slice = 0
    /\ peers = << >> /\ current = 0 /\ tried = << >>

HTTPInit ==
    /\ Begin({"http"})
    /\ budget \in Budgets
    /\ clock = 0 /\ began = 0 /\ slice = 0
    /\ peers = << >> /\ current = 0 /\ tried = << >>

\* Mutant: the division is rounded up.
SliceRoundedUp(left, n) ==
    IF (left + n - 1) \div n < MinSlice THEN MinSlice ELSE (left + n - 1) \div n

\* perAttempt: an equal share of what is left, in whole ticks.
Slice(left, n) == IF left \div n < MinSlice THEN MinSlice ELSE left \div n

\* The context dies with the last tick.
At(tick) == ctx' = IF ctx = "live" /\ tick = budget THEN "expired" ELSE ctx

\* resolveAll takes its time from the budget.
ResolvePeers ==
    /\ pc = "resolve"
    /\ pc' = "try"
    /\ \E n \in 1..MaxPeers : peers' \in [1..n -> Peer]
    /\ clock' \in IF ctx = "live" THEN clock..budget ELSE {clock}
    /\ began' = clock'
    /\ slice' = Slice(budget - clock', Len(peers'))
    /\ current' = 1
    /\ At(clock')
    /\ UNCHANGED <<layer, status, kind, budget, tried>>

-----------------------------------------------------------------------------
(* One request, under a context of its own *)

Least(a, b) == IF a <= b THEN a ELSE b

\* What the request's context allows it.
TimeLeft == Least(slice, budget - clock)

\* classifyHTTPError: a TLS alert is none of the failures it knows.
HTTPStatusOf(reply) == IF reply = "alert" THEN "unknown" ELSE StatusOf(reply)
HTTPKindOf(reply) == IF reply = "alert" THEN "" ELSE KindOf(reply)

\* fillResponseEvidence or, for the last address, fillHTTPError: the answer,
\* or the last error, is the verdict.
ConcludeWith(reply) ==
    pc' = "returned" /\ status' = HTTPStatusOf(reply) /\ kind' = HTTPKindOf(reply)

\* The request to the current address has come to something, ticks later.
Comes(reply, ticks) ==
    /\ clock' = clock + ticks
    /\ tried' = Append(tried, reply)
    /\ UNCHANGED <<layer, budget, began, slice, peers>>

\* The loop goes on, or ends with the last address.
NextPeer(reply) ==
    IF current < Len(peers)
    THEN current' = current + 1 /\ UNCHANGED <<pc, status, kind>>
    ELSE ConcludeWith(reply) /\ UNCHANGED current

Reply == peers[current].reply
Delay == peers[current].delay

\* An answer ends the probe, after what its body takes of the slice.
PeerAnswers ==
    /\ pc = "try" /\ ctx = "live"
    /\ Reply \in HTTPAnswers /\ Delay <= TimeLeft
    /\ \E ticks \in Delay..TimeLeft : Comes(Reply, ticks) /\ At(clock + ticks)
    /\ ConcludeWith(Reply)
    /\ UNCHANGED current

PeerFails ==
    /\ pc = "try" /\ ctx = "live"
    /\ Reply \in HTTPErrors /\ Delay <= TimeLeft
    /\ Comes(Reply, Delay) /\ At(clock + Delay)
    /\ NextPeer(Reply)

\* Mutant: the probe gives up with the first address that is silent.
SliceEndsAll ==
    /\ pc = "try" /\ ctx = "live"
    /\ Reply = "silent" \/ Delay >= TimeLeft
    /\ Comes("timeout", TimeLeft) /\ At(clock + TimeLeft)
    /\ ConcludeWith("timeout") /\ UNCHANGED current

SliceEnds ==
    /\ pc = "try" /\ ctx = "live"
    /\ Reply = "silent" \/ Delay >= TimeLeft
    /\ Comes("timeout", TimeLeft) /\ At(clock + TimeLeft)
    /\ NextPeer("timeout")

\* The survey is interrupted during the request.
Interrupted ==
    /\ pc = "try" /\ ctx = "live"
    /\ ctx' = "cancelled"
    /\ \E ticks \in 0..TimeLeft : Comes("canceled", ticks)
    /\ NextPeer("canceled")

\* The loop does not look at the context: a request under a dead one fails
\* at once.
DeadRequest ==
    /\ pc = "try" /\ ctx # "live"
    /\ Comes(IF ctx = "expired" THEN "timeout" ELSE "canceled", 0)
    /\ NextPeer(IF ctx = "expired" THEN "timeout" ELSE "canceled")
    /\ UNCHANGED ctx

HTTPRequest == PeerAnswers \/ PeerFails \/ SliceEnds \/ Interrupted \/ DeadRequest

\* Interrupted during the resolution, which may run out of time, too.
ResolutionEnds ==
    \/ ResolveFails
    \/ pc = "resolve" /\ Cancel

HTTPNext ==
    /\ layer = "http"
    /\ \/ ResolvePeers
       \/ HTTPRequest
       \/ ResolutionEnds /\ UNCHANGED failoverVars

HTTPSpec == HTTPInit /\ [][HTTPNext]_httpVars

\* Resolution and requests end with their contexts.
HTTPProgress ==
    /\ layer = "http"
    /\ \/ HTTPRequest
       \/ ResolveFails /\ UNCHANGED failoverVars
-----------------------------------------------------------------------------

\* Every variable holds what the code's declaration of it allows.
HTTPTypeOK ==
    /\ layer = "http"
    /\ ctx \in {"live", "expired", "cancelled"}
    /\ pc \in {"resolve", "try", "returned"}
    /\ status \in Statuses
    /\ kind \in HTTPKinds
    /\ budget \in Budgets
    /\ clock \in Nat /\ began \in Nat /\ slice \in Nat
    /\ peers \in Seq(Peer) /\ Len(peers) <= MaxPeers
    /\ current \in 0..Len(peers)
    /\ tried \in Seq(Replies)

\* The slices of the first addresses, as many as the budget has room for.
HasRoom(p) == p * slice <= budget - began

\* "so a single stalled address cannot consume the whole layer budget and
\* hide the addresses that work" (probe/http.go): an address that answers
\* within its slice is heard, however long the ones before it take, unless the
\* survey is interrupted or the least slice leaves no room for the address.
StalledSparesOthers ==
    layer = "http" /\ pc = "returned" /\ ctx # "cancelled" =>
        \A p \in 1..Len(peers) :
            HasRoom(p) /\ peers[p].reply \in HTTPAnswers /\ peers[p].delay < slice
                => tried[Len(tried)] \in HTTPAnswers

\* "with every attempt given a slice of the remaining budget" (probe/http.go):
\* when the turn of an address comes its whole slice is still left of the
\* budget, and there is room for all addresses unless the least slice applies.
EveryAddressGetsItsSlice ==
    layer = "http" /\ pc = "try" /\ ctx = "live" =>
        /\ HasRoom(current) => slice <= budget - clock
        /\ slice > MinSlice => HasRoom(Len(peers))

\* No probe takes longer than its layer's budget, and one that has returned
\* without an answer has tried every address.
WithinLayerBudget ==
    layer = "http" =>
        /\ clock <= budget
        /\ pc = "returned" /\ status # "skipped" /\ Len(tried) < Len(peers)
              => tried[Len(tried)] \in HTTPAnswers
=============================================================================
