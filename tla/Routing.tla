------------------------------- MODULE Routing -------------------------------
(***************************************************************************)
(* Which personas an event is given to: the severity map of the SIEM       *)
(* connector (connectors/siem_poll/models.py), the rules of the YAML plans *)
(* (domain/events/plans.py), the router that applies them                  *)
(* (application/routing/event_router.py) and the conductor that may take   *)
(* their place (use_cases/dispatch_event.py).                              *)
(***************************************************************************)
EXTENDS Naturals, Sequences, SequencesExt, FiniteSets

CONSTANTS
  Alerts,     \* what the SIEM reports, in order: [severity, poisoned]
  UseDynamicCatalog,
  CatalogPlans,  \* active plans of the catalog and of agents/plans, in load
  FilePlans      \* order: [id, rules], a rule [types, least, personas, playbook]

EventTypes == {"siem.alert", "edr.alert"}
SeverityOrder == <<"info", "low", "medium", "high", "critical">>
Severities == Range(SeverityOrder)
NoMinimum == "none"

(* from_plans_dir: the files serve when the catalog is off or has no active plan. *)
Plans == IF UseDynamicCatalog /\ CatalogPlans # << >> THEN CatalogPlans ELSE FilePlans

ASSUME AlertsAssumption == Alerts \in Seq([severity : STRING, poisoned : BOOLEAN])
RoutingRules == [types : SUBSET EventTypes, least : Severities \cup {NoMinimum},
                 personas : Seq(STRING), playbook : STRING]
ASSUME PlansAssumption == Plans \in Seq([id : STRING, rules : Seq(RoutingRules)])

(* _SEVERITY_MAP: what the SIEMs write, words and numbers; anything else   *)
(* is taken for medium.                                                    *)
MapSiemSeverity(raw) ==
  CASE raw \in {"info", "informational", "1"}              -> "info"
    [] raw \in {"low", "2", "3"}                           -> "low"
    [] raw \in {"high", "6", "7"}                          -> "high"
    [] raw \in {"critical", "severe", "8", "9", "10"}      -> "critical"
    [] OTHER                                               -> "medium"

Event(a) == [type |-> "siem.alert", severity |-> MapSiemSeverity(Alerts[a].severity)]

Rank(s) == CHOOSE i \in DOMAIN SeverityOrder : SeverityOrder[i] = s

SeverityAtLeast(actual, minimum) == Rank(actual) >= Rank(minimum)

RuleMatches(rule, e) ==
  /\ rule.types = {} \/ e.type \in rule.types
  /\ rule.least = NoMinimum \/ SeverityAtLeast(e.severity, rule.least)
  /\ rule.personas # << >>

(* The rules of all the plans, with the id of the plan each comes from. *)
RulesOf(plan) == [k \in DOMAIN plan.rules |-> [rule |-> plan.rules[k], plan |-> plan.id]]

Rules ==
  LET upTo[i \in 0..Len(Plans)] == IF i = 0 THEN << >> ELSE upTo[i - 1] \o RulesOf(Plans[i])
  IN upTo[Len(Plans)]

NoDecision == [personas |-> << >>, playbook |-> ""]

(* The innermost loop of route: a persona that is not yet listed is appended. *)
Listed(ps, p) == IF p \in Range(ps) THEN ps ELSE Append(ps, p)

AddPersonas(ps, new) ==
  LET after[j \in 0..Len(new)] == IF j = 0 THEN ps ELSE Listed(after[j - 1], new[j])
  IN after[Len(new)]

(* One rule: its own playbook replaces what was found before, the id of    *)
(* its plan only fills the gap.                                            *)
ApplyRule(d, r) ==
  [personas |-> AddPersonas(d.personas, r.rule.personas),
   playbook |-> IF r.rule.playbook # "" THEN r.rule.playbook
                ELSE IF d.playbook = "" THEN r.plan ELSE d.playbook]

TryRule(d, r, e) == IF RuleMatches(r.rule, e) THEN ApplyRule(d, r) ELSE d

Route(e) ==
  LET after[n \in 0..Len(Rules)] == IF n = 0 THEN NoDecision ELSE TryRule(after[n - 1], Rules[n], e)
  IN after[Len(Rules)]

Routes == [a \in DOMAIN Alerts |-> Route(Event(a))]

(* With the conductor switched on an event that somebody would get goes to *)
(* the conductor alone, which is told about the others.                    *)
ApplyConductorRouting(d, conductor) ==
  IF conductor /\ d.personas # << >> THEN [d EXCEPT !.personas = <<"conductor">>] ELSE d

-----------------------------------------------------------------------------
(* The reference: the personas of the matching rules as a set, and the     *)
(* playbook of the last of them that names one, or else the first of their *)
(* plans that has an id.                                                   *)
IsCalledFor(rule, e) ==
  /\ rule.types # {} => e.type \in rule.types
  /\ rule.least # NoMinimum =>
       e.severity \in Range(SubSeq(SeverityOrder, Rank(rule.least), Len(SeverityOrder)))

Matching(a) ==
  {i \in DOMAIN Rules : Rules[i].rule.personas # << >> /\ IsCalledFor(Rules[i].rule, Event(a))}

RoutedTo ==
  [a \in DOMAIN Alerts |-> UNION {Range(Rules[i].rule.personas) : i \in Matching(a)}]

Wanted(a, conductor) ==
  IF conductor /\ RoutedTo[a] # {} THEN {"conductor"} ELSE RoutedTo[a]

Named(a)  == {i \in Matching(a) : Rules[i].rule.playbook # ""}
Titled(a) == {i \in Matching(a) : Rules[i].plan # ""}

PlaybookOf ==
  [a \in {b \in DOMAIN Alerts : RoutedTo[b] # {}} |->
     IF Named(a) # {} THEN Rules[Max(Named(a))].rule.playbook
     ELSE IF Titled(a) # {} THEN Rules[Min(Titled(a))].plan ELSE ""]

(* The loop and the reference agree: every persona that is wanted, once.   *)
LoopIsRight ==
  \A a \in DOMAIN Alerts :
    /\ Routes[a] = [personas |-> Routes[a].personas, playbook |-> Routes[a].playbook]
    /\ Routes[a].personas \in Seq(RoutedTo[a]) /\ Range(Routes[a].personas) = RoutedTo[a]
    /\ \A i, k \in DOMAIN Routes[a].personas :
         Routes[a].personas[i] = Routes[a].personas[k] => i = k
    /\ RoutedTo[a] # {} => Routes[a].playbook = PlaybookOf[a]
=============================================================================
