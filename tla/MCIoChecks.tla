------------------------------ MODULE MCIoChecks -------------------------------
(* Configurations for TLC.                                                  *)
EXTENDS IoChecks

Plain(most) == [fault |-> "none", most |-> most]
With(fault) == [fault |-> fault, most |-> 0]

NoTargets == [k \in Kinds |-> <<>>]

\* More targets than workers.
Crowded == [NoTargets EXCEPT
  !["http"] = <<Plain(2), Plain(1), Plain(2), Plain(1), Plain(2)>>,
  !["dns"] = <<Plain(2)>>]

\* Targets of the wrong type among good ones.
Mixed == [NoTargets EXCEPT
  !["services"] = <<Plain(1), With("foreign"), Plain(2)>>,
  !["dns"] = <<Plain(1), With("target"), Plain(2)>>,
  !["icmp"] = <<With("argument"), Plain(1), Plain(1)>>]

Spoiling == [NoTargets EXCEPT
  !["services"] = <<Plain(1), With("target"), Plain(1)>>,
  !["http"] = <<With("argument"), Plain(2)>>,
  !["icmp"] = <<Plain(1), With("target")>>]

All == {NoTargets, Crowded, Mixed, Spoiling}
===============================================================================
