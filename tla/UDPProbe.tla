------------------------------ MODULE UDPProbe ------------------------------
(***************************************************************************)
(* The UDP probe (probe/udp.go): one datagram to the first address of the  *)
(* name, and a wait for anything that comes back.  The wait is bounded by  *)
(* the socket's own deadline, set once from what is left of the context:   *)
(* the end of the context by itself does not wake the probe.               *)
(***************************************************************************)
EXTENDS Probe

CONSTANTS
    SendErrors,  \* how opening the socket or sending may fail
    ReadErrors   \* what may come back instead of an answer

ASSUME UDPAssumption ==
    /\ SendErrors \subseteq Errors \ {"timeout", "canceled"}
    /\ ReadErrors \subseteq Errors \ {"timeout", "canceled"}

VARIABLES
    socket,  \* none, open or closed
    timer,   \* the socket's deadline: unset, armed or fired
    heard    \* what the socket has said: "" for an answer, "silence" before

udpOwnVars == <<socket, timer, heard>>

udpVars == <<probeVars, udpOwnVars>>

UDPIdle == socket = "none" /\ timer = "unset" /\ heard = "silence"

UDPInit == Begin({"udp"}) /\ UDPIdle

\* resolveFirst and net.DialUDP, which does not look at the context.
OpenSocket ==
    /\ pc = "resolve"
    /\ pc' = "send"
    /\ socket' = "open"
    /\ UNCHANGED <<layer, ctx, status, kind, timer, heard>>

\* fillConnError.
Conclude(err) ==
    /\ heard' = err
    /\ pc' = "settled"
    /\ status' = StatusOf(err)
    /\ kind' = KindOf(err)

OpenFails ==
    /\ pc = "resolve"
    /\ \E err \in SendErrors : Conclude(err)
    /\ UNCHANGED <<layer, ctx, socket, timer>>

\* SetDeadline and Write.
SendDatagram ==
    /\ pc = "send"
    /\ pc' = "read"
    /\ timer' = "armed"
    /\ UNCHANGED <<layer, ctx, status, kind, socket, heard>>

SendFails ==
    /\ pc = "send"
    /\ timer' = "armed"
    /\ \E err \in SendErrors : Conclude(err)
    /\ UNCHANGED <<layer, ctx, socket>>

\* The deadline has passed before the datagram is handed over.
SendExpires ==
    /\ pc = "send"
    /\ timer' = "fired"
    /\ Conclude("timeout")
    /\ UNCHANGED <<layer, ctx, socket>>

Answered ==
    /\ pc = "read"
    /\ Conclude("")
    /\ UNCHANGED <<layer, ctx, socket, timer>>

\* Mutant: an ICMP error is taken for silence.
ReadFailsSilent ==
    /\ pc = "read"
    /\ \E err \in ReadErrors : heard' = err
    /\ pc' = "settled" /\ status' = "timeout" /\ kind' = "timeout"
    /\ UNCHANGED <<layer, ctx, socket, timer>>

\* An ICMP error on the connected socket.
ReadFails ==
    /\ pc = "read"
    /\ \E err \in ReadErrors : Conclude(err)
    /\ UNCHANGED <<layer, ctx, socket, timer>>

\* Mutant: the read ends with the context and not with its own deadline.
ReadExpiresWithContext ==
    /\ pc = "read"
    /\ ctx = "expired"
    /\ Conclude("timeout")
    /\ UNCHANGED <<layer, ctx, socket, timer>>

\* Silence is no evidence of blocking.
ReadExpires ==
    /\ pc = "read"
    /\ timer = "fired"
    /\ Conclude("timeout")
    /\ UNCHANGED <<layer, ctx, socket, timer>>

TimerFires ==
    /\ timer = "armed"
    /\ timer' = "fired"
    /\ UNCHANGED <<probeVars, socket, heard>>

\* defer conn.Close().
CloseSocket ==
    /\ pc = "settled"
    /\ pc' = "returned"
    /\ socket' = IF socket = "open" THEN "closed" ELSE socket
    /\ UNCHANGED <<layer, ctx, status, kind, timer, heard>>

UDPNext ==
    /\ layer = "udp"
    /\ \/ OpenSocket \/ OpenFails
       \/ SendDatagram \/ SendFails \/ SendExpires
       \/ Answered \/ ReadFails \/ ReadExpires
       \/ TimerFires
       \/ CloseSocket
       \/ (ResolveFails \/ Deadline \/ Cancel) /\ UNCHANGED udpOwnVars

UDPSpec == UDPInit /\ [][UDPNext]_udpVars

\* Sending does not block, timers fire, a read returns at its deadline, and
\* the resolution at that of the context.
UDPProgress ==
    /\ layer = "udp"
    /\ \/ SendDatagram \/ TimerFires \/ ReadExpires \/ CloseSocket
       \/ ctx # "live" /\ ResolveFails /\ UNCHANGED udpOwnVars
-----------------------------------------------------------------------------

\* Every variable holds what the code's declaration of it allows.
UDPTypeOK ==
    /\ layer = "udp"
    /\ ctx \in {"live", "expired", "cancelled"}
    /\ pc \in {"resolve", "send", "read", "settled", "returned"}
    /\ status \in Statuses
    /\ kind \in Errors \cup {"", "dns_error"}
    /\ socket \in {"none", "open", "closed"}
    /\ timer \in {"unset", "armed", "fired"}
    /\ heard \in Errors \cup {"", "silence"}

\* "silence is NOT evidence of blocking" (probe/udp.go): the probe reports a
\* failure only if the network has reported one, a timeout only when the whole
\* of its deadline has passed (an interruption of the survey does not cut it
\* short), and it leaves no socket open.
SilenceIsNoFailure ==
    layer = "udp" /\ pc = "returned" =>
        /\ status = "fail" => heard \in SendErrors \cup ReadErrors
        /\ status = "timeout" => timer = "fired" /\ heard = "timeout"
        /\ socket # "open"
=============================================================================
