----------------------------- MODULE UDPProofs -----------------------------
(***************************************************************************)
(* What the UDP probe makes of silence, whatever may go wrong with its     *)
(* socket and whenever its timer fires.                                    *)
(***************************************************************************)
EXTENDS UDPProbe, TLAPS

\* The probe has heard something, and its status is that of what it has heard;
\* a timeout is that of its own timer.
Heeded ==
    /\ heard \in SendErrors \cup ReadErrors \cup {"", "timeout"}
    /\ status = StatusOf(heard)
    /\ heard = "timeout" => timer = "fired"

UDPInv ==
    /\ UDPTypeOK
    /\ pc \in {"resolve", "send", "read"} => heard = "silence"
    /\ pc = "settled" => Heeded
    /\ pc = "returned" => Heeded \/ (status = "skipped" /\ heard = "silence")
    /\ pc \in {"resolve", "returned"} => socket # "open"

\* The status and the kind of anything the socket says.
LEMMA WordTyped ==
    ASSUME NEW e \in Errors \cup {""}
    PROVE  /\ StatusOf(e) \in {"pass", "fail", "timeout", "unknown"}
           /\ StatusOf(e) = "fail" => e \notin {"", "timeout", "canceled"}
           /\ StatusOf(e) = "timeout" => e \in {"timeout", "canceled"}
           /\ KindOf(e) \in Errors \cup {"", "dns_error"}
PROOF
  <1>1. CASE e = ""
    BY <1>1 DEF StatusOf, KindOf
  <1>2. CASE e \in {"timeout", "canceled"}
    BY <1>2 DEF StatusOf, KindOf, Errors
  <1>3. CASE e = "other"
    BY <1>3 DEF StatusOf, KindOf
  <1>4. CASE e \notin {"", "timeout", "canceled", "other"}
    <2>1. StatusOf(e) = "fail"
      BY <1>4, Zenon DEF StatusOf
    <2>2. KindOf(e) = e
      BY <1>4, Zenon DEF KindOf
    <2> QED BY <1>4, <2>1, <2>2
  <1> QED BY <1>1, <1>2, <1>3, <1>4

\* Errors of the socket are errors, and none of them is a timeout.
LEMMA SocketErrors ==
    /\ SendErrors \cup ReadErrors \subseteq Errors \cup {""}
    /\ "timeout" \notin SendErrors \cup ReadErrors
    /\ "canceled" \notin SendErrors \cup ReadErrors
    /\ "silence" \notin SendErrors \cup ReadErrors
    /\ "" \notin SendErrors \cup ReadErrors
PROOF BY UDPAssumption DEF UDPAssumption, Errors

\* A step that concludes the probe with what the socket has said.
LEMMA ConcludeStep ==
    ASSUME UDPInv, NEW err \in SendErrors \cup ReadErrors \cup {"", "timeout"}, Conclude(err),
           err = "timeout" => timer' = "fired",
           timer' \in {"unset", "armed", "fired"},
           UNCHANGED <<layer, ctx, socket>>
    PROVE  UDPInv'
PROOF
  <1>1. err \in Errors \cup {""}
    BY SocketErrors DEF Errors
  <1>2. /\ heard' = err /\ pc' = "settled"
        /\ status' = StatusOf(err) /\ kind' = KindOf(err)
    BY DEF Conclude
  <1>3. status' \in Statuses /\ kind' \in Errors \cup {"", "dns_error"}
    BY <1>1, <1>2, WordTyped DEF Statuses
  <1>4. heard' \in Errors \cup {"", "silence"}
    BY <1>1, <1>2
  <1>5. UDPTypeOK'
    BY <1>2, <1>3, <1>4 DEF UDPInv, UDPTypeOK
  <1>6. Heeded'
    BY <1>2 DEF Heeded
  <1> QED BY <1>2, <1>5, <1>6 DEF UDPInv

\* The invariant holds of a probe that begins.
LEMMA UDPStart == UDPInit => UDPInv
PROOF BY DEF UDPInit, Begin, UDPIdle, UDPInv, UDPTypeOK, Statuses

\* Every step of the probe keeps the invariant.
LEMMA UDPStep == UDPInv /\ [UDPNext]_udpVars => UDPInv'
PROOF
  <1> SUFFICES ASSUME UDPInv, [UDPNext]_udpVars PROVE UDPInv'
    OBVIOUS
  <1>1. CASE OpenSocket
    BY <1>1 DEF OpenSocket, UDPInv, UDPTypeOK
  <1>2. CASE OpenFails
    <2>1. PICK err \in SendErrors : Conclude(err)
      BY <1>2 DEF OpenFails
    <2>2. err # "timeout" /\ UNCHANGED <<layer, ctx, socket, timer>>
      BY <1>2, <2>1, SocketErrors DEF OpenFails
    <2> QED BY <2>1, <2>2, ConcludeStep DEF UDPInv, UDPTypeOK
  <1>3. CASE SendDatagram
    BY <1>3 DEF SendDatagram, UDPInv, UDPTypeOK
  <1>4. CASE SendFails
    <2>1. PICK err \in SendErrors : Conclude(err)
      BY <1>4 DEF SendFails
    <2>2. err # "timeout" /\ timer' = "armed" /\ UNCHANGED <<layer, ctx, socket>>
      BY <1>4, <2>1, SocketErrors DEF SendFails
    <2> QED BY <2>1, <2>2, ConcludeStep
  <1>5. CASE SendExpires
    BY <1>5, ConcludeStep DEF SendExpires
  <1>6. CASE Answered
    <2>1. Conclude("") /\ UNCHANGED <<layer, ctx, socket, timer>>
      BY <1>6 DEF Answered
    <2> QED BY <2>1, ConcludeStep DEF UDPInv, UDPTypeOK
  <1>7. CASE ReadFails
    <2>1. PICK err \in ReadErrors : Conclude(err)
      BY <1>7 DEF ReadFails
    <2>2. err # "timeout" /\ UNCHANGED <<layer, ctx, socket, timer>>
      BY <1>7, <2>1, SocketErrors DEF ReadFails
    <2> QED BY <2>1, <2>2, ConcludeStep DEF UDPInv, UDPTypeOK
  <1>8. CASE ReadExpires
    <2>1. timer' = "fired" /\ Conclude("timeout") /\ UNCHANGED <<layer, ctx, socket>>
      BY <1>8 DEF ReadExpires
    <2> QED BY <2>1, ConcludeStep
  <1>9. CASE TimerFires
    BY <1>9 DEF TimerFires, probeVars, UDPInv, UDPTypeOK, Heeded
  <1>10. CASE CloseSocket
    BY <1>10 DEF CloseSocket, UDPInv, UDPTypeOK, Heeded
  <1>11. CASE ResolveFails /\ UNCHANGED udpOwnVars
    <2>1. "skipped" \in Statuses /\ "dns_error" \in Errors \cup {"", "dns_error"}
      BY DEF Statuses
    <2> QED BY <1>11, <2>1 DEF ResolveFails, udpOwnVars, UDPInv, UDPTypeOK
  <1>12. CASE (Deadline \/ Cancel) /\ UNCHANGED udpOwnVars
    BY <1>12 DEF Deadline, Cancel, udpOwnVars, UDPInv, UDPTypeOK, Heeded
  <1>13. CASE UNCHANGED udpVars
    BY <1>13, ZenonT(30) DEF udpVars, probeVars, udpOwnVars, UDPInv, UDPTypeOK, Heeded
  <1> QED BY <1>1, <1>2, <1>3, <1>4, <1>5, <1>6, <1>7, <1>8, <1>9, <1>10, <1>11, <1>12, <1>13
          DEF UDPNext

\* The inductive invariant of the datagram.
THEOREM UDPInvariant == UDPSpec => []UDPInv
PROOF BY UDPStart, UDPStep, PTL DEF UDPSpec

\* What the probe reports is what it has heard.
LEMMA SilenceIsNoFailureByInv == UDPInv => SilenceIsNoFailure
PROOF
  <1> SUFFICES ASSUME UDPInv, pc = "returned"
               PROVE  /\ status = "fail" => heard \in SendErrors \cup ReadErrors
                      /\ status = "timeout" => timer = "fired" /\ heard = "timeout"
                      /\ socket # "open"
    BY DEF SilenceIsNoFailure
  <1>1. socket # "open"
    BY DEF UDPInv
  <1>2. CASE Heeded
    <2>1. heard \in Errors \cup {""} /\ heard # "canceled"
      BY <1>2, SocketErrors DEF Heeded, Errors
    <2> QED BY <1>1, <1>2, <2>1, WordTyped DEF Heeded
  <1>3. CASE status = "skipped"
    BY <1>1, <1>3
  <1> QED BY <1>2, <1>3 DEF UDPInv

\* A failure is reported only if the network has reported one, a timeout only
\* when the probe's own deadline has passed, and no socket is left open.
THEOREM SilenceIsNoFailureAlways == UDPSpec => []SilenceIsNoFailure
PROOF BY SilenceIsNoFailureByInv, UDPInvariant, PTL
=============================================================================
