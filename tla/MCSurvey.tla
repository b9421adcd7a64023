------------------------------ MODULE MCSurvey ------------------------------
(* Instances of the survey for TLC. *)
EXTENDS SurveyProps

HTTPSTarget   == [host |-> "target", port |-> 443, https |-> TRUE]
HTTPTarget    == [host |-> "target", port |-> 8080, https |-> FALSE]
ControlTarget == [host |-> "control", port |-> 443, https |-> TRUE]

Outcome(status, marks) == [status |-> status, marks |-> marks]
Plain(statuses) == {Outcome(s, {}) : s \in statuses}

\* Two outcomes a policy tells apart and, where the inference does, more.
TreeOutcomes ==
    [l \in Layers |->
        CASE l = "dns"  -> {Outcome("pass", {"v4"}), Outcome("pass", {"v4", "v6"}),
                            Outcome("fail", {"authoritative"}), Outcome("timeout", {})}
          [] l = "tcp"  -> {Outcome("pass", {}), Outcome("fail", {"refused"}),
                            Outcome("timeout", {})}
          [] l = "tls"  -> {Outcome("pass", {}), Outcome("fail", {"alert"})}
          [] l = "http" -> {Outcome("pass", {}), Outcome("fail", {"rejected"})}
          [] OTHER      -> Plain({"pass", "timeout"})]

\* For surveys that go from one policy to another.
MixedOutcomes ==
    [l \in Layers |->
        CASE l = "dns"  -> {Outcome("pass", {"v4", "v6"}), Outcome("fail", {})}
          [] l = "tcp"  -> Plain({"pass", "fail"})
          [] l = "http" -> Plain({"pass", "timeout"})
          [] OTHER      -> Plain({"pass"})]
=============================================================================
