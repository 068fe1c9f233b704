------------------------------- MODULE Policy -------------------------------
(***************************************************************************)
(* Profile policies as pure operators: what a profile allows a persona to  *)
(* do, how a policy is resolved (catalog, environment, defaults) and how   *)
(* an edit is merged into the stored one.                                  *)
(*   cys_core/domain/policy/pure.py, domain/policy/defaults.py,            *)
(*   domain/security/{risk,profile_tools}.py,                              *)
(*   infrastructure/catalog/{policy_merge,profile_policy}.py               *)
(* A policy is a record:                                                   *)
(*   allow    profile -> set of tools or Unrestricted  (tool_allowlist)    *)
(*   risk     tool -> 1..4, on some of the tools       (tool_risk)         *)
(*   modes    [read_only, plan_blocked, mutating]      (mode_policy)       *)
(*   scalars  field -> number          (max_spawn_depth, trust_floor, ...) *)
(***************************************************************************)
EXTENDS Naturals, FiniteSets, TLC

CONSTANTS Tools,            \* tool names
          Unrestricted,     \* an allowlist that is None
          DefaultPolicy,    \* default_profile_policy_payload()
          EmptyPolicy,      \* ProfilePolicyPayload(), the policy of a new profile
          Prefixed,         \* tools whose name starts with run_, write_, spawn_ or execute_
          Searches          \* tools whose name starts with search_

\* A policy has the three lists of the mode policy.
IsPolicy(policy) ==
    /\ "modes" \in DOMAIN policy
    /\ {"read_only", "plan_blocked", "mutating"} \subseteq DOMAIN policy.modes

ASSUME PolicyAssumption ==
    /\ Prefixed \subseteq Tools /\ Searches \subseteq Tools
    /\ IsPolicy(DefaultPolicy) /\ IsPolicy(EmptyPolicy)

\* RiskLevel: an unknown tool is HIGH.
LOW == 1
MEDIUM == 2
HIGH == 3
CRITICAL == 4

(***************************************************************************)
(* Decisions.                                                              *)
(***************************************************************************)
\* The risk of a tool: the profile's table, then the built-in one, else HIGH.
ClassifyToolRisk(tool, policy) ==
    IF tool \in DOMAIN policy.risk THEN policy.risk[tool]
    ELSE IF tool \in DOMAIN DefaultPolicy.risk THEN DefaultPolicy.risk[tool]
    ELSE HIGH

\* The three tool sets of the mode policy. The stored lists count only when one of
\* the first two is not empty, and each empty one is replaced by its default.
ModeSets(modes) ==
    LET default == DefaultPolicy.modes
        Or(list, other) == IF list # {} THEN list ELSE other
    IN  IF modes.read_only = {} /\ modes.plan_blocked = {}
        THEN default
        ELSE [read_only    |-> Or(modes.read_only, default.read_only),
              plan_blocked |-> Or(modes.plan_blocked, default.plan_blocked),
              mutating     |-> Or(modes.mutating, default.mutating)]

IsMutating(tool, mutating) == tool \in mutating \/ tool \in Prefixed

\* May the tool be called in this interaction mode?
AllowTool(mode, tool, policy) ==
    LET sets == ModeSets(policy.modes)
    IN  CASE mode = "plan" -> tool \notin sets.plan_blocked /\ ~IsMutating(tool, sets.mutating)
          [] mode = "ask"  -> tool \in sets.read_only \/ tool \in Searches
          [] OTHER         -> TRUE

\* The allowlist of a profile: the policy's entry for it, else the built-in one.
\* A profile that neither names is unrestricted.
AllowlistFor(profile, policy) ==
    IF profile \in DOMAIN policy.allow THEN policy.allow[profile]
    ELSE IF profile \in DOMAIN DefaultPolicy.allow THEN DefaultPolicy.allow[profile]
    ELSE Unrestricted

FilterTools(tools, profile, policy) ==
    LET allowed == AllowlistFor(profile, policy)
    IN  IF allowed = Unrestricted THEN tools ELSE tools \cap allowed

(***************************************************************************)
(* Resolution: the policy in the catalog, or the default.                  *)
(***************************************************************************)
\* The policy of a profile, from the rows of the catalog (profile -> policy).
GetPolicy(stored, profile) ==
    IF profile \in DOMAIN stored THEN stored[profile] ELSE DefaultPolicy

(***************************************************************************)
(* Merging an edit: a patch holds some of the fields. Dictionaries are     *)
(* updated key by key, mode lists only ever grow, the rest is replaced.    *)
(***************************************************************************)
Updated(old, new) ==
    [key \in DOMAIN old \cup DOMAIN new |-> IF key \in DOMAIN new THEN new[key] ELSE old[key]]

\* Mutant: a patched mode list replaces the stored one.
MergeModesReplace(old, patch) == Updated(old, patch)

MergeModes(old, patch) ==
    [list \in DOMAIN old |->
        IF list \in DOMAIN patch THEN old[list] \cup patch[list] ELSE old[list]]

MergePolicy(old, patch) ==
    [field \in DOMAIN old |->
        IF field \notin DOMAIN patch THEN old[field]
        ELSE IF field = "modes" THEN MergeModes(old.modes, patch.modes)
        ELSE Updated(old[field], patch[field])]

\* The policy of a profile that is made of the patch: its lists replace the defaults.
CreatedPolicy(patch) ==
    [field \in DOMAIN EmptyPolicy |->
        IF field \in DOMAIN patch THEN Updated(EmptyPolicy[field], patch[field])
        ELSE EmptyPolicy[field]]
=============================================================================
