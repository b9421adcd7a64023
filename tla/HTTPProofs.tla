----------------------------- MODULE HTTPProofs -----------------------------
(***************************************************************************)
(* What the slices of the HTTP probe's failover are worth, for every       *)
(* budget, every least slice and every number of addresses.                *)
(***************************************************************************)
EXTENDS HTTPProbe, TLAPS

-----------------------------------------------------------------------------
(* The arithmetic of slices *)

\* A product grows by one factor.
LEMMA NextMultiple ==
    ASSUME NEW c \in Nat, NEW s \in Nat
    PROVE  /\ c * s \in Nat
           /\ (c + 1) * s = c * s + s
PROOF BY SMT

\* A product grows with its factor.
LEMMA Multiples ==
    ASSUME NEW a \in Nat, NEW b \in Nat, NEW s \in Nat, a <= b
    PROVE  a * s <= b * s
PROOF BY SMT

\* What is left of a whole is a part of it.
LEMMA Difference ==
    ASSUME NEW a \in Nat, NEW b \in Nat, b <= a
    PROVE  a - b \in Nat
PROOF OBVIOUS

\* The shares of an equal division are no more than the whole.
LEMMA SharesFit ==
    ASSUME NEW left \in Nat, NEW n \in Nat \ {0}
    PROVE  left \div n \in Nat /\ n * (left \div n) <= left
PROOF BY SMT

-----------------------------------------------------------------------------
(* The inductive invariant *)

\* The budget has room for the address, and it would answer within its slice.
Deserves(p) == HasRoom(p) /\ peers[p].reply \in HTTPAnswers /\ peers[p].delay < slice

\* The clock against the budget, and what the context makes of it.
Clocked ==
    /\ began <= clock /\ clock <= budget
    /\ ctx = "live" => clock < budget
    /\ ctx = "expired" => clock = budget

\* Every address tried has had its slice at most, and none that deserved an
\* answer has been passed over.
Underway ==
    /\ current \in 1..Len(peers)
    /\ Len(tried) = current - 1
    /\ slice = Slice(budget - began, Len(peers))
    /\ clock <= began + (current - 1) * slice
    /\ ctx # "cancelled" => \A p \in 1..(current - 1) : ~Deserves(p)

\* The last address tried is the last of all, unless it has answered.
Concluded ==
    /\ tried # << >> /\ Len(tried) <= Len(peers)
    /\ Len(tried) < Len(peers) => tried[Len(tried)] \in HTTPAnswers
    /\ ctx # "cancelled" /\ (\E p \in 1..Len(peers) : Deserves(p))
          => tried[Len(tried)] \in HTTPAnswers

HTTPInv ==
    /\ HTTPTypeOK
    /\ Clocked
    /\ pc = "resolve" => clock = 0 /\ tried = << >> /\ peers = << >>
    /\ pc = "try" => Underway
    /\ pc = "returned" => (status = "skipped" /\ peers = << >>) \/ Concluded

\* The verdict on any reply is a status and a kind.
LEMMA VerdictTyped ==
    ASSUME NEW r \in Replies
    PROVE  HTTPStatusOf(r) \in Statuses /\ HTTPKindOf(r) \in HTTPKinds
PROOF
  <1>1. CASE r = "" \/ r = "rejected"
    BY <1>1 DEF Statuses, HTTPKinds, HTTPStatusOf, HTTPKindOf, StatusOf, KindOf
  <1>2. CASE r \in {"timeout", "canceled"}
    BY <1>2 DEF Statuses, Errors, HTTPKinds, HTTPStatusOf, HTTPKindOf, StatusOf, KindOf
  <1>3. CASE r \in Errors \ {"timeout", "canceled"}
    BY <1>3 DEF Statuses, Errors, HTTPKinds, HTTPStatusOf, HTTPKindOf, StatusOf, KindOf
  <1> QED BY <1>1, <1>2, <1>3 DEF HTTPAnswers, Replies

\* The slice, and what it leaves room for.
LEMMA SliceTyped ==
    ASSUME NEW left \in Nat, NEW n \in Nat \ {0}
    PROVE  /\ Slice(left, n) \in Nat \ {0}
           /\ Slice(left, n) > MinSlice => n * Slice(left, n) <= left
PROOF
  <1>1. left \div n \in Nat /\ n * (left \div n) <= left
    BY SharesFit
  <1>2. MinSlice \in Nat \ {0}
    BY HTTPAssumption DEF HTTPAssumption
  <1> QED BY <1>1, <1>2 DEF Slice

\* The turn of an address comes while its slice is left, if there is room.
LEMMA SliceLeft ==
    ASSUME HTTPInv, pc = "try", HasRoom(current)
    PROVE  slice <= budget - clock
PROOF
  <1>1. current - 1 \in Nat /\ slice \in Nat /\ current \in Nat
    <2>1. slice \in Nat /\ Len(peers) \in Nat
      BY DEF HTTPInv, HTTPTypeOK
    <2>2. current \in 1..Len(peers)
      BY DEF HTTPInv, Underway
    <2> QED BY <2>1, <2>2
  <1>2. current * slice = (current - 1) * slice + slice /\ (current - 1) * slice \in Nat
    BY <1>1, NextMultiple
  <1>3. clock \in Nat /\ began \in Nat /\ budget \in Nat
    BY HTTPAssumption DEF HTTPAssumption, HTTPInv, HTTPTypeOK
  <1> QED BY <1>1, <1>2, <1>3 DEF HTTPInv, Underway, HasRoom

\* What an attempt starts from.
LEMMA AttemptTyped ==
    ASSUME HTTPInv, pc = "try"
    PROVE  /\ clock \in Nat /\ began \in Nat /\ budget \in Nat
           /\ slice \in Nat \ {0}
           /\ Len(peers) \in Nat /\ current \in Nat \ {0} /\ current <= Len(peers)
           /\ Len(tried) = current - 1
           /\ TimeLeft \in Nat /\ TimeLeft <= slice /\ clock + TimeLeft <= budget
PROOF
  <1>1. clock \in Nat /\ began \in Nat /\ budget \in Nat
    BY HTTPAssumption DEF HTTPAssumption, HTTPInv, HTTPTypeOK
  <1>2. Len(peers) \in Nat
    BY DEF HTTPInv, HTTPTypeOK
  <1>3. current \in Nat \ {0} /\ current <= Len(peers) /\ Len(tried) = current - 1
    BY <1>2 DEF HTTPInv, Underway
  <1>4. budget - began \in Nat
    BY <1>1 DEF HTTPInv, Clocked
  <1>5. slice \in Nat \ {0}
    <2>1. slice = Slice(budget - began, Len(peers))
      BY DEF HTTPInv, Underway
    <2>2. Len(peers) \in Nat \ {0}
      BY <1>2, <1>3
    <2> QED BY <1>4, <2>1, <2>2, SliceTyped
  <1>6. clock <= budget
    BY DEF HTTPInv, Clocked
  <1> QED BY <1>1, <1>2, <1>3, <1>5, <1>6 DEF TimeLeft, Least

\* The request to the current address has come to nothing, and it deserved no
\* better: the loop goes on, or the probe concludes.
LEMMA AttemptFails ==
    ASSUME HTTPInv, pc = "try", layer = "http",
           NEW reply \in Replies, NEW ticks \in Nat, ticks <= TimeLeft,
           Comes(reply, ticks), NextPeer(reply),
           ctx' \in {"live", "expired", "cancelled"},
           ctx' = "live" => clock + ticks < budget,
           ctx' = "expired" => clock + ticks = budget,
           ctx' # "cancelled" => ctx # "cancelled" /\ ~Deserves(current)
    PROVE  HTTPInv'
PROOF
  <1>1. /\ clock \in Nat /\ began \in Nat /\ budget \in Nat
        /\ slice \in Nat \ {0}
        /\ Len(peers) \in Nat /\ current \in Nat \ {0} /\ current <= Len(peers)
        /\ Len(tried) = current - 1
        /\ TimeLeft \in Nat /\ TimeLeft <= slice /\ clock + TimeLeft <= budget
    BY AttemptTyped
  <1>2. /\ clock' = clock + ticks
        /\ tried' = Append(tried, reply)
        /\ UNCHANGED <<layer, budget, began, slice, peers>>
    BY DEF Comes
  <1>3. HTTPTypeOK /\ Clocked /\ Underway
    BY DEF HTTPInv
  <1>4. /\ tried \in Seq(Replies) /\ tried' \in Seq(Replies)
        /\ Len(tried') = current /\ tried'[current] = reply /\ tried' # << >>
    <2>1. tried \in Seq(Replies)
      BY <1>3 DEF HTTPTypeOK
    <2> QED BY <2>1, <1>1, <1>2
  <1>5. Clocked'
    BY <1>1, <1>2, <1>3 DEF Clocked
  <1>6. HTTPStatusOf(reply) \in Statuses /\ HTTPKindOf(reply) \in HTTPKinds
    BY VerdictTyped
  <1>7. ASSUME NEW p \in Nat
        PROVE  Deserves(p)' <=> Deserves(p)
    BY <1>2 DEF Deserves, HasRoom
  <1>8. CASE current < Len(peers)
    <2>1. current' = current + 1 /\ UNCHANGED <<pc, status, kind>>
      BY <1>8 DEF NextPeer
    <2>2. HTTPTypeOK'
      BY <1>1, <1>2, <1>3, <1>4, <1>8, <2>1 DEF HTTPTypeOK
    <2>3. Underway'
      <3>1. current' \in 1..Len(peers)' /\ Len(tried') = current' - 1
        BY <1>1, <1>2, <1>4, <1>8, <2>1
      <3>2. (slice = Slice(budget - began, Len(peers)))'
        BY <1>2, <1>3 DEF Underway
      <3>3. clock' <= began' + (current' - 1) * slice'
        <4>1. current - 1 \in Nat /\ current' - 1 = current
          BY <1>1, <2>1
        <4>2. current * slice = (current - 1) * slice + slice /\ (current - 1) * slice \in Nat
          BY <1>1, <4>1, NextMultiple
        <4>3. clock <= began + (current - 1) * slice
          BY <1>3 DEF Underway
        <4>4. clock + ticks <= began + current * slice
          BY <1>1, <4>2, <4>3
        <4> QED BY <1>2, <4>1, <4>4
      <3>4. ASSUME ctx' # "cancelled", NEW p \in 1..(current' - 1)
            PROVE  ~Deserves(p)'
        <4>1. p \in 1..current /\ p \in Nat
          BY <1>1, <2>1
        <4>2. CASE p = current
          BY <1>7, <3>4, <4>1, <4>2
        <4>3. CASE p # current
          BY <1>1, <1>3, <1>7, <3>4, <4>1, <4>3 DEF Underway
        <4> QED BY <4>2, <4>3
      <3> QED BY <3>1, <3>2, <3>3, <3>4 DEF Underway
    <2>4. pc' = "try"
      BY <2>1
    <2> QED BY <1>5, <2>2, <2>3, <2>4 DEF HTTPInv
  <1>9. CASE current >= Len(peers)
    <2>1. /\ pc' = "returned" /\ status' = HTTPStatusOf(reply) /\ kind' = HTTPKindOf(reply)
          /\ current' = current
      BY <1>1, <1>9 DEF NextPeer, ConcludeWith
    <2>2. HTTPTypeOK'
      BY <1>1, <1>2, <1>3, <1>4, <1>6, <2>1 DEF HTTPTypeOK
    <2>3. Len(tried') = Len(peers') /\ Len(peers') \in Nat
      BY <1>1, <1>2, <1>4, <1>9
    <2>4. ASSUME ctx' # "cancelled", NEW p \in 1..Len(peers')
          PROVE  ~Deserves(p)'
      <3>1. p \in 1..current /\ p \in Nat
        BY <1>1, <1>2, <1>9
      <3>2. CASE p = current
        BY <1>7, <2>4, <3>1, <3>2
      <3>3. CASE p # current
        BY <1>1, <1>3, <1>7, <2>4, <3>1, <3>3 DEF Underway
      <3> QED BY <3>2, <3>3
    <2>5. Concluded'
      BY <1>4, <2>3, <2>4 DEF Concluded
    <2> QED BY <1>5, <2>1, <2>2, <2>5 DEF HTTPInv
  <1> QED BY <1>1, <1>8, <1>9

\* The address being tried is one of the peers.
LEMMA CurrentPeer ==
    ASSUME HTTPInv, pc = "try"
    PROVE  Reply \in HTTPAnswers \cup {"silent"} \cup HTTPErrors /\ Delay \in Nat
PROOF
  <1>1. peers \in Seq(Peer) /\ current \in 1..Len(peers)
    BY DEF HTTPInv, HTTPTypeOK, Underway
  <1>2. peers[current] \in Peer
    BY <1>1
  <1> QED BY <1>2, HTTPAssumption DEF Peer, Reply, Delay, HTTPAssumption

\* What a live context is after an attempt that has been given its ticks.
LEMMA AfterAttempt ==
    ASSUME HTTPInv, pc = "try", ctx = "live", NEW ticks \in Nat, ticks <= TimeLeft,
           At(clock + ticks)
    PROVE  /\ ctx' \in {"live", "expired"}
           /\ ctx' = "live" => clock + ticks < budget
           /\ ctx' = "expired" => clock + ticks = budget
PROOF BY AttemptTyped DEF At

\* An answer concludes the probe.
LEMMA AnswerStep ==
    ASSUME HTTPInv, layer = "http", PeerAnswers
    PROVE  HTTPInv'
PROOF
  <1>1. /\ pc = "try" /\ ctx = "live" /\ Reply \in HTTPAnswers
        /\ pc' = "returned" /\ status' = HTTPStatusOf(Reply) /\ kind' = HTTPKindOf(Reply)
        /\ current' = current
    BY DEF PeerAnswers, ConcludeWith
  <1>2. /\ clock \in Nat /\ began \in Nat /\ budget \in Nat
        /\ Len(peers) \in Nat /\ current \in Nat \ {0} /\ current <= Len(peers)
        /\ Len(tried) = current - 1
        /\ TimeLeft \in Nat /\ clock + TimeLeft <= budget
    BY <1>1, AttemptTyped
  <1>3. PICK ticks \in Delay..TimeLeft : Comes(Reply, ticks) /\ At(clock + ticks)
    BY DEF PeerAnswers
  <1>4. ticks \in Nat /\ ticks <= TimeLeft
    <2>1. Delay \in Nat
      BY <1>1, CurrentPeer
    <2> QED BY <1>2, <1>3, <2>1
  <1>5. /\ ctx' \in {"live", "expired"}
        /\ ctx' = "live" => clock + ticks < budget
        /\ ctx' = "expired" => clock + ticks = budget
    BY <1>1, <1>3, <1>4, AfterAttempt
  <1>6. /\ clock' = clock + ticks
        /\ tried' = Append(tried, Reply)
        /\ UNCHANGED <<layer, budget, began, slice, peers>>
    BY <1>3 DEF Comes
  <1>7. HTTPTypeOK /\ Clocked
    BY DEF HTTPInv
  <1>8. Reply \in Replies
    BY <1>1 DEF Replies
  <1>9. /\ tried' \in Seq(Replies) /\ tried' # << >>
        /\ Len(tried') = current /\ tried'[current] \in HTTPAnswers
    <2>1. tried \in Seq(Replies)
      BY <1>7 DEF HTTPTypeOK
    <2> QED BY <1>1, <1>2, <1>6, <1>8, <2>1
  <1>10. Clocked'
    BY <1>2, <1>4, <1>5, <1>6, <1>7 DEF Clocked
  <1>11. HTTPStatusOf(Reply) \in Statuses /\ HTTPKindOf(Reply) \in HTTPKinds
    BY <1>8, VerdictTyped
  <1>12. HTTPTypeOK'
    BY <1>1, <1>2, <1>4, <1>5, <1>6, <1>7, <1>9, <1>11 DEF HTTPTypeOK
  <1>13. Concluded'
    BY <1>2, <1>6, <1>9 DEF Concluded
  <1> QED BY <1>1, <1>10, <1>12, <1>13 DEF HTTPInv

\* A request that fails, expires, is interrupted or finds its context dead.
LEMMA HTTPRequestStep ==
    ASSUME HTTPInv, layer = "http", HTTPRequest
    PROVE  HTTPInv'
PROOF
  <1>1. pc = "try" /\ ctx \in {"live", "expired", "cancelled"}
    BY DEF HTTPInv, HTTPTypeOK, HTTPRequest, PeerAnswers, PeerFails, SliceEnds, Interrupted, DeadRequest
  <1>2. /\ clock \in Nat /\ budget \in Nat /\ slice \in Nat \ {0}
        /\ TimeLeft \in Nat /\ clock + TimeLeft <= budget
    BY <1>1, AttemptTyped
  <1>3. Reply \in HTTPAnswers \cup {"silent"} \cup HTTPErrors /\ Delay \in Nat
    BY <1>1, CurrentPeer
  <1>4. ASSUME Deserves(current)
        PROVE  Reply \in HTTPAnswers /\ Delay < slice /\ slice <= budget - clock /\ TimeLeft = slice
    <2>1. slice <= budget - clock
      BY <1>1, <1>4, SliceLeft DEF Deserves
    <2> QED BY <1>2, <1>4, <2>1 DEF Deserves, Reply, Delay, TimeLeft, Least
  <1>5. HTTPErrors \subseteq Errors /\ "timeout" \in Replies /\ "canceled" \in Replies
    BY HTTPAssumption DEF HTTPAssumption, Replies, Errors
  <1>6. Reply \in HTTPAnswers => Reply \notin Errors /\ Reply # "silent"
    BY DEF HTTPAnswers, Errors
  <1>7. CASE PeerAnswers
    BY <1>7, AnswerStep
  <1>8. CASE PeerFails
    <2>1. /\ ctx = "live" /\ Reply \in HTTPErrors /\ Delay <= TimeLeft
          /\ Comes(Reply, Delay) /\ At(clock + Delay) /\ NextPeer(Reply)
      BY <1>8 DEF PeerFails
    <2>2. /\ ctx' \in {"live", "expired"}
          /\ ctx' = "live" => clock + Delay < budget
          /\ ctx' = "expired" => clock + Delay = budget
      BY <1>1, <1>3, <2>1, AfterAttempt
    <2>3. Reply \in Replies
      BY <1>5, <2>1 DEF Replies
    <2>4. ~Deserves(current)
      BY <1>4, <1>5, <1>6, <2>1
    <2> QED BY <1>1, <1>3, <2>1, <2>2, <2>3, <2>4, AttemptFails
  <1>9. CASE SliceEnds
    <2>1. /\ ctx = "live" /\ (Reply = "silent" \/ Delay >= TimeLeft)
          /\ Comes("timeout", TimeLeft) /\ At(clock + TimeLeft) /\ NextPeer("timeout")
      BY <1>9 DEF SliceEnds
    <2>2. /\ ctx' \in {"live", "expired"}
          /\ ctx' = "live" => clock + TimeLeft < budget
          /\ ctx' = "expired" => clock + TimeLeft = budget
      BY <1>1, <1>2, <2>1, AfterAttempt
    <2>3. ~Deserves(current)
      BY <1>2, <1>3, <1>4, <1>6, <2>1
    <2> QED BY <1>1, <1>2, <1>5, <2>1, <2>2, <2>3, AttemptFails
  <1>10. CASE Interrupted
    <2>1. ctx' = "cancelled" /\ NextPeer("canceled")
      BY <1>10 DEF Interrupted
    <2>2. PICK ticks \in 0..TimeLeft : Comes("canceled", ticks)
      BY <1>10 DEF Interrupted
    <2>3. ticks \in Nat /\ ticks <= TimeLeft
      BY <1>2, <2>2
    <2> QED BY <1>1, <1>5, <2>1, <2>2, <2>3, AttemptFails
  <1>11. CASE DeadRequest
    <2> DEFINE reply == IF ctx = "expired" THEN "timeout" ELSE "canceled"
    <2>1. ctx # "live" /\ Comes(reply, 0) /\ NextPeer(reply) /\ ctx' = ctx
      BY <1>11 DEF DeadRequest
    <2>2. reply \in Replies
      BY <1>5
    <2>3. ctx = "expired" => clock = budget
      BY DEF HTTPInv, Clocked
    <2>4. ctx = "expired" => ~Deserves(current)
      BY <1>2, <1>4, <2>3
    <2> HIDE DEF reply
    <2>5. 0 \in Nat /\ 0 <= TimeLeft /\ clock + 0 = clock
      BY <1>2
    <2> QED BY <1>1, <1>2, <2>1, <2>2, <2>3, <2>4, <2>5, AttemptFails
  <1> QED BY <1>7, <1>8, <1>9, <1>10, <1>11 DEF HTTPRequest

\* The name resolves, to a number of addresses, in some of the budget.
LEMMA HTTPResolveStep ==
    ASSUME HTTPInv, layer = "http", ResolvePeers
    PROVE  HTTPInv'
PROOF
  <1>1. /\ pc = "resolve" /\ pc' = "try" /\ current' = 1 /\ began' = clock'
        /\ UNCHANGED <<layer, status, kind, budget, tried>>
        /\ clock = 0 /\ tried = << >> /\ HTTPTypeOK /\ Clocked
    BY DEF ResolvePeers, HTTPInv
  <1>2. PICK n \in 1..MaxPeers : peers' \in [1..n -> Peer]
    BY DEF ResolvePeers
  <1>3. MaxPeers \in Nat /\ Budgets \subseteq Nat
    BY HTTPAssumption DEF HTTPAssumption
  <1>4. peers' \in Seq(Peer) /\ Len(peers') \in Nat \ {0} /\ Len(peers') <= MaxPeers
    BY <1>2, <1>3
  <1>5. budget \in Nat /\ clock' \in Nat /\ clock' <= budget
    <2>1. budget \in Nat
      BY <1>1, <1>3 DEF HTTPTypeOK
    <2>2. clock' \in IF ctx = "live" THEN clock..budget ELSE {clock}
      BY DEF ResolvePeers
    <2> QED BY <1>1, <2>1, <2>2
  <1>6. /\ ctx' \in {"live", "expired", "cancelled"}
        /\ ctx' = "live" => clock' < budget
        /\ ctx' = "expired" => clock' = budget
    <2>1. ctx' = IF ctx = "live" /\ clock' = budget THEN "expired" ELSE ctx
      BY DEF ResolvePeers, At
    <2>2. clock' \in IF ctx = "live" THEN clock..budget ELSE {clock}
      BY DEF ResolvePeers
    <2>3. /\ ctx \in {"live", "expired", "cancelled"}
          /\ ctx = "expired" => clock = budget
      BY <1>1 DEF HTTPTypeOK, Clocked
    <2> QED BY <1>5, <2>1, <2>2, <2>3
  <1>7. Clocked'
    BY <1>1, <1>5, <1>6 DEF Clocked
  <1>8. slice' = Slice(budget - clock', Len(peers')) /\ slice' \in Nat
    <2>1. slice' = Slice(budget - clock', Len(peers'))
      BY DEF ResolvePeers
    <2>2. budget - clock' \in Nat
      BY <1>5, Difference
    <2> QED BY <1>4, <2>1, <2>2, SliceTyped
  <1>9. HTTPTypeOK'
    BY <1>1, <1>4, <1>5, <1>6, <1>8 DEF HTTPTypeOK
  <1>10. Underway'
    <2>1. Len(tried') = 0
      BY <1>1
    <2> QED BY <1>1, <1>4, <1>5, <1>8, <2>1 DEF Underway
  <1> QED BY <1>1, <1>7, <1>9, <1>10 DEF HTTPInv

-----------------------------------------------------------------------------
(* The theorems *)

\* The invariant holds of a probe that begins.
LEMMA HTTPStart == HTTPInit => HTTPInv
PROOF
  <1> SUFFICES ASSUME HTTPInit PROVE HTTPInv
    OBVIOUS
  <1>1. /\ layer = "http" /\ ctx = "live" /\ pc = "resolve" /\ status = "unknown" /\ kind = ""
        /\ clock = 0 /\ began = 0 /\ slice = 0 /\ current = 0
    BY DEF HTTPInit, Begin
  <1>2. budget \in Budgets
    BY DEF HTTPInit
  <1>3. peers = << >> /\ tried = << >>
    BY DEF HTTPInit
  <1>4. Budgets \subseteq Nat \ {0} /\ MaxPeers \in Nat
    BY HTTPAssumption DEF HTTPAssumption
  <1>5. status \in Statuses /\ kind \in HTTPKinds
    BY <1>1 DEF Statuses, HTTPKinds
  <1>6. peers \in Seq(Peer) /\ Len(peers) = 0
    BY <1>3
  <1>7. tried \in Seq(Replies)
    BY <1>3
  <1>8. Len(peers) <= MaxPeers
    BY <1>4, <1>6
  <1>9. clock \in Nat /\ began \in Nat /\ slice \in Nat /\ current \in 0..Len(peers)
    <2>1. 0 \in Nat /\ 0 \in 0..Len(peers)
      BY <1>6
    <2> QED BY <1>1, <2>1, Zenon
  <1>10. HTTPTypeOK
    BY <1>1, <1>2, <1>5, <1>6, <1>7, <1>8, <1>9, Zenon DEF HTTPTypeOK
  <1>11. budget \in Nat \ {0}
    BY <1>2, <1>4, Zenon
  <1>12. began <= clock /\ clock <= budget /\ clock < budget
    <2>1. 0 <= budget /\ 0 < budget /\ 0 <= 0
      BY <1>11
    <2> QED BY <1>1, <2>1, Zenon
  <1>13. Clocked
    BY <1>1, <1>12, Zenon DEF Clocked
  <1> QED BY <1>1, <1>3, <1>10, <1>13 DEF HTTPInv

\* Every step of the probe keeps it.
LEMMA HTTPStep == HTTPInv /\ [HTTPNext]_httpVars => HTTPInv'
PROOF
  <1> SUFFICES ASSUME HTTPInv, [HTTPNext]_httpVars PROVE HTTPInv'
    OBVIOUS
  <1>1. CASE layer = "http" /\ ResolvePeers
    BY <1>1, HTTPResolveStep
  <1>2. CASE layer = "http" /\ HTTPRequest
    BY <1>2, HTTPRequestStep
  <1>3. CASE ResolveFails /\ UNCHANGED failoverVars
    <2>1. /\ pc = "resolve" /\ pc' = "returned" /\ status' = "skipped" /\ kind' = "dns_error"
          /\ UNCHANGED <<layer, ctx, budget, clock, began, slice, peers, current, tried>>
      BY <1>3 DEF ResolveFails, failoverVars
    <2>2. "skipped" \in Statuses /\ "dns_error" \in HTTPKinds
      BY DEF Statuses, HTTPKinds
    <2>3. HTTPTypeOK'
      BY <2>1, <2>2 DEF HTTPInv, HTTPTypeOK
    <2>4. Clocked'
      BY <2>1 DEF HTTPInv, Clocked
    <2> QED BY <2>1, <2>3, <2>4 DEF HTTPInv
  <1>4. CASE pc = "resolve" /\ Cancel /\ UNCHANGED failoverVars
    <2>1. /\ pc = "resolve" /\ ctx' = "cancelled"
          /\ UNCHANGED <<layer, pc, status, kind, budget, clock, began, slice, peers, current, tried>>
      BY <1>4 DEF Cancel, failoverVars
    <2>2. HTTPTypeOK'
      BY <2>1 DEF HTTPInv, HTTPTypeOK
    <2>3. Clocked'
      BY <2>1 DEF HTTPInv, Clocked
    <2> QED BY <2>1, <2>2, <2>3 DEF HTTPInv
  <1>5. CASE UNCHANGED httpVars
    <2>1. UNCHANGED <<layer, ctx, pc, status, kind, budget, clock, began, slice, peers, current, tried>>
      BY <1>5 DEF httpVars, probeVars, failoverVars
    <2>2. HTTPTypeOK'
      BY <2>1 DEF HTTPInv, HTTPTypeOK
    <2>3. Clocked'
      BY <2>1 DEF HTTPInv, Clocked
    <2>4. Underway => Underway'
      BY <2>1 DEF Underway, Deserves, HasRoom
    <2>5. Concluded => Concluded'
      BY <2>1 DEF Concluded, Deserves, HasRoom
    <2> QED BY <2>1, <2>2, <2>3, <2>4, <2>5 DEF HTTPInv
  <1> QED BY <1>1, <1>2, <1>3, <1>4, <1>5 DEF HTTPNext, ResolutionEnds

\* The inductive invariant of the failover.
THEOREM HTTPInvariant == HTTPSpec => []HTTPInv
PROOF BY HTTPStart, HTTPStep, PTL DEF HTTPSpec

\* A probe that has returned has passed over nobody who deserved an answer.
LEMMA StalledSparesOthersByInv == HTTPInv => StalledSparesOthers
PROOF
  <1> SUFFICES ASSUME HTTPInv, pc = "returned", ctx # "cancelled", NEW p \in 1..Len(peers),
                      HasRoom(p) /\ peers[p].reply \in HTTPAnswers /\ peers[p].delay < slice
               PROVE  tried[Len(tried)] \in HTTPAnswers
    BY DEF StalledSparesOthers
  <1>1. peers # << >>
    OBVIOUS
  <1>2. Concluded
    BY <1>1 DEF HTTPInv
  <1>3. Deserves(p)
    BY DEF Deserves
  <1> QED BY <1>2, <1>3 DEF Concluded

\* A single stalled address cannot consume the budget of the others: whoever
\* answers within its slice is heard, if the budget has room for the slice.
THEOREM StalledSparesOthersAlways == HTTPSpec => []StalledSparesOthers
PROOF BY StalledSparesOthersByInv, HTTPInvariant, PTL

\* The address being tried has its slice left, and the slices fit.
LEMMA EveryAddressGetsItsSliceByInv == HTTPInv => EveryAddressGetsItsSlice
PROOF
  <1> SUFFICES ASSUME HTTPInv, pc = "try" PROVE EveryAddressGetsItsSlice
    BY DEF EveryAddressGetsItsSlice
  <1>1. HasRoom(current) => slice <= budget - clock
    BY SliceLeft
  <1>2. slice > MinSlice => HasRoom(Len(peers))
    <2>1. slice = Slice(budget - began, Len(peers))
      BY DEF HTTPInv, Underway
    <2>2. budget - began \in Nat
      BY AttemptTyped DEF HTTPInv, Clocked
    <2>3. Len(peers) \in Nat \ {0}
      BY AttemptTyped
    <2> QED BY <2>1, <2>2, <2>3, SliceTyped DEF HasRoom
  <1> QED BY <1>1, <1>2 DEF EveryAddressGetsItsSlice

\* When the turn of an address comes its slice is left, and all slices fit in
\* the budget unless the least slice is larger than an equal share.
THEOREM EveryAddressGetsItsSliceAlways == HTTPSpec => []EveryAddressGetsItsSlice
PROOF BY EveryAddressGetsItsSliceByInv, HTTPInvariant, PTL

\* The clock is within the budget, and every address has been tried.
LEMMA WithinLayerBudgetByInv == HTTPInv => WithinLayerBudget
PROOF
  BY DEF HTTPInv, Clocked, Concluded, WithinLayerBudget

\* The probe ends within its budget, having tried every address or been
\* answered.
THEOREM WithinLayerBudgetAlways == HTTPSpec => []WithinLayerBudget
PROOF BY WithinLayerBudgetByInv, HTTPInvariant, PTL
=============================================================================
