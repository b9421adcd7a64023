------------------------------- MODULE Probe -------------------------------
(***************************************************************************)
(* What the probes of all layers have in common (probe/common.go): a       *)
(* context that may end at any time, the resolution of the name before     *)
(* anything is sent, and the classification of errors into a status and a  *)
(* kind of evidence.                                                       *)
(***************************************************************************)
EXTENDS Integers, Sequences, FiniteSets

VARIABLES
    layer,   \* the layer probed
    ctx,     \* the probe's context: live, expired or cancelled
    pc,      \* how far the probe has come
    status,  \* the observation's status
    kind     \* and the failure its evidence names

probeVars == <<layer, ctx, pc, status, kind>>

Layers == {"dns", "tcp", "tls", "http", "udp", "quic"}

\* How a connection, a handshake or a read may fail.
Errors == {"refused", "unreachable", "reset", "alert", "certificate",
           "timeout", "canceled", "other"}

Statuses == {"pass", "fail", "timeout", "unknown", "skipped"}

\* Mutant: an error nobody knows has no status.
StatusOfUndialled(err) ==
    CASE err = ""                         -> "pass"
      [] err \in {"timeout", "canceled"}  -> "timeout"
      [] err = "other"                    -> ""
      [] OTHER                            -> "fail"

\* classifyDialError, classifyTLSError and classifyQUICError: the status ...
StatusOf(err) ==
    CASE err = ""                         -> "pass"
      [] err \in {"timeout", "canceled"}  -> "timeout"
      [] err = "other"                    -> "unknown"
      [] OTHER                            -> "fail"

\* ... and the kind of evidence.
KindOf(err) == CASE err = "canceled" -> "timeout" [] err = "other" -> "" [] OTHER -> err

\* runOne hands the experiment to its layer's probe, with the layer's
\* budget on the context.
Begin(layers) ==
    /\ layer \in layers
    /\ ctx = "live"
    /\ pc = "resolve"
    /\ status = "unknown"
    /\ kind = ""

\* The name does not resolve: fillPrereq.
ResolveFails ==
    /\ pc = "resolve"
    /\ pc' = "returned"
    /\ status' = "skipped"
    /\ kind' = "dns_error"
    /\ UNCHANGED <<layer, ctx>>

\* The layer's budget, or the survey's deadline, has run out.
Deadline ==
    /\ pc # "returned"
    /\ ctx = "live"
    /\ ctx' = "expired"
    /\ UNCHANGED <<layer, pc, status, kind>>

\* The survey has been interrupted.
Cancel ==
    /\ pc # "returned"
    /\ ctx = "live"
    /\ ctx' = "cancelled"
    /\ UNCHANGED <<layer, pc, status, kind>>

\* What an attempt can fail with: what the network says or, once the
\* context is dead, that.
MayFail(errors) ==
    errors \cup CASE ctx = "live"      -> {}
                  [] ctx = "expired"   -> {"timeout"}
                  [] ctx = "cancelled" -> {"canceled"}
=============================================================================
