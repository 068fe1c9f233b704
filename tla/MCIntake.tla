------------------------------ MODULE MCIntake ------------------------------
EXTENDS Intake

\* A critical alert, a poisoned one and one with a severity nobody knows.
MCAlerts == <<[severity |-> "9", poisoned |-> FALSE],
              [severity |-> "high", poisoned |-> TRUE],
              [severity |-> "unrated", poisoned |-> FALSE]>>
\* Overlapping rules: two plans name "soc"; the second rule needs "medium".
MCPlans ==
  <<[id |-> "triage",
     rules |-> <<[types |-> {"siem.alert"}, least |-> "medium", personas |-> <<"soc">>, playbook |-> ""],
                 [types |-> {"edr.alert"}, least |-> "none", personas |-> <<"forensic">>, playbook |-> "edr"]>>],
    [id |-> "escalation",
     rules |-> <<[types |-> {}, least |-> "critical", personas |-> <<"soc", "intel">>, playbook |-> "major"],
                 [types |-> {"siem.alert"}, least |-> "high", personas |-> << >>, playbook |-> "none"]>>]>>
MCCatalogPlans == << >>
MCSetups == {[conductor |-> FALSE, longIds |-> TRUE], [conductor |-> TRUE, longIds |-> FALSE]}

\* On this instance the router's loop computes what the reference says.
ASSUME LoopIsRight
=============================================================================
