------------------------------ MODULE Catalog -------------------------------
(***************************************************************************)
(* The catalog of agents, skills, plans, MCP servers, tools and profile    *)
(* policies, and who writes it:                                            *)
(*   - the API's /catalog handlers, through CatalogWriteGate (validate,    *)
(*     save, audit, reload the registry) or beside it (activate a plan,    *)
(*     check a server's health, seed, reload);                             *)
(*   - every process that runs jobs: the quality of a persona, the use of  *)
(*     a skill and the matches of a plan are counted in the same rows.     *)
(* A row is read, changed and written back. In PostgreSQL the reading and  *)
(* the writing are transactions of their own, shared by all processes. In  *)
(* memory each process has its own rows and a read returns the stored      *)
(* object itself, so that a change is visible before the row is saved.     *)
(* A handler does not await: a process runs one of them at a time.         *)
(***************************************************************************)
EXTENDS Policy, Sequences

CONSTANTS Procs,          \* the processes
          Apis,           \* the processes that serve the API
          Ids,            \* names of agents, skills, plans, servers and tools
          Manifest,       \* agents/manifest.yaml: the names defined on disk, in order
          Texts,          \* contents an operator can PUT
          FileText,       \* the content on disk
          Dangerous,      \* contents the sanitizer refuses
          ToolsOf,        \* content of an agent -> the tools it names
          SkillsOf,       \* content of an agent -> the skills it names
          Patches,        \* policy edits an operator can PUT
          Profile,        \* DEFAULT_PROFILE_ID
          Deployments,    \* the deployments explored: see Deployment
          MayRestart,     \* a process may end in the middle of a handler
          MaxCalls        \* bound: handlers and hooks started

\* store: USE_DYNAMIC_CATALOG and the memory fallback; gate: CatalogSingletons of the
\* API process holds a write gate. (Nothing in the repository puts one there: see
\* BuildWriteGate. The deployments with a gate show what its handlers do.)
Deployment == [store : {"static", "memory", "postgres"}, gate : BOOLEAN]

ASSUME CatalogAssumption ==
    /\ Apis \subseteq Procs /\ Manifest \in Seq(Ids)
    /\ FileText \notin Texts
    /\ Dangerous \subseteq Texts
    /\ Deployments \subseteq Deployment
    /\ "postgres" \notin Procs
    /\ MayRestart \in BOOLEAN /\ MaxCalls \in Nat

VARIABLES deployment, \* the deployment
          rows,       \* store -> kind -> id -> row
          policy,     \* store -> profile -> policy, for the profiles that exist
          audit,      \* store -> the changes recorded
          registry,   \* process -> agent -> content, or NoAgent: get_agent_registry
          runtime,    \* process -> the registry its AgentRuntime runs agents from, or
                      \* NoRuntime
          todo,       \* process -> the steps left of the handler it is in
          merged,     \* process -> the policy that handler is about to save
          calls,      \* number of handlers started
          approved,   \* history: <<skill, content>> an operator or the seed vetted
          loaded,     \* history: <<skill, content>> given to an agent from the catalog
          samples     \* history: store -> agent -> quality events since its seed

history == <<approved, loaded, samples>>
vars == <<deployment, rows, policy, audit, registry, runtime, todo, merged, calls, history>>

Kinds == {"agent", "skill", "plan", "server", "tool"}
Stagings == {"draft", "vetted", "builtin"}
Contents == Texts \cup {FileText}
NoAgent == "no agent"
NoRuntime == << >>
Filed == {Manifest[i] : i \in DOMAIN Manifest}

Dynamic == deployment.store # "static"
Persistent == deployment.store = "postgres"
\* The store a process works on: the database, or its own memory.
Store(p) == IF Persistent THEN "postgres" ELSE p
Stores == Procs \cup {"postgres"}

(***************************************************************************)
(* Rows. version 0 stands for no row. active is the column of plan_catalog *)
(* and flag the field of the payload: reading a plan returns the flag.     *)
(***************************************************************************)
NoRow == [version |-> 0, content |-> FileText, enabled |-> FALSE, status |-> "unknown",
          active |-> FALSE, flag |-> FALSE, quality |-> 0]

\* A new entry as an upsert builds it: version 1 and no quality.
Entry(content, enabled, status) ==
    [NoRow EXCEPT !.version = 1, !.content = content, !.enabled = enabled, !.status = status]

\* The entry that the seed reads from agents/: a seeded plan is active.
Seeded(kind) ==
    [Entry(FileText, TRUE, IF kind = "skill" THEN "builtin" ELSE "unknown")
        EXCEPT !.flag = (kind = "plan")]

Exists(row) == row.version > 0
Get(p, kind, id) == rows[Store(p)][kind][id]

\* Mutant: the staging of the stored entry is kept with its quality.
MergedKeepsStaging(kind, new, old) ==
    IF ~Exists(old) THEN new
    ELSE [new EXCEPT !.version = old.version + 1, !.quality = old.quality, !.status = old.status]

\* What an upsert keeps of the row it replaces: its quality, whatever was just
\* counted in the entry that is written. Plans in memory are the exception.
Merged(kind, new, old) ==
    IF ~Exists(old) \/ kind \in {"server", "tool"} THEN new
    ELSE [new EXCEPT !.version = old.version + 1,
                     !.quality = IF kind = "plan" /\ ~Persistent THEN @ ELSE old.quality]

\* The row that INSERT ... ON CONFLICT leaves: the column follows the payload.
Saved(row) == [row EXCEPT !.active = row.flag]

\* Mutant: reading a row of the memory catalogs returns a copy.
InPlaceCopy(p, kind, id, row) == UNCHANGED rows

\* A row that is read and changed: in memory the stored object changes at once.
InPlace(p, kind, id, row) ==
    rows' = IF Persistent THEN rows ELSE [rows EXCEPT ![p][kind][id] = row]

(***************************************************************************)
(* The registry: what is on disk, overridden by the enabled rows.          *)
(***************************************************************************)
HybridRegistry(store) ==
    [a \in Ids |->
        IF Dynamic /\ Exists(rows[store]["agent"][a]) /\ rows[store]["agent"][a].enabled
        THEN rows[store]["agent"][a].content
        ELSE IF a \in Filed THEN FileText ELSE NoAgent]

(***************************************************************************)
(* A handler at work is the sequence of the steps it still has to take.    *)
(***************************************************************************)
IsIdle(p) == todo[p] = << >>
At(p, do) == ~IsIdle(p) /\ Head(todo[p]).do = do

\* An upsert reads the stored row to merge it, then writes.
Upsert(kind, id, row) == [do |-> "merge", kind |-> kind, id |-> id, row |-> row]
Overwrite(kind, id, row) == [do |-> "write", kind |-> kind, id |-> id, row |-> row]
Record(kind, id) == [do |-> "audit", kind |-> kind, id |-> id]
Reload == [do |-> "reload"]

Start(p, steps) ==
    /\ IsIdle(p) /\ calls < MaxCalls
    /\ calls' = calls + 1
    /\ todo' = [todo EXCEPT ![p] = steps]

Proceed(p, steps) == todo' = [todo EXCEPT ![p] = steps] /\ UNCHANGED calls

\* A handler that works through CatalogWriteGate, and its last two steps.
Gated(p, steps) == deployment.gate /\ Start(p, steps)
Published(kind, id) == <<Record(kind, id), Reload>>

\* get_catalog_write_gate: the factory of the gate runs under the lock of
\* CatalogSingletons and asks CatalogSingletons for the catalogs. The lock is not
\* re-entrant: the first call never returns, and the event loop with it.
BuildWriteGate(p) ==
    /\ ~deployment.gate
    /\ Start(p, <<[do |-> "stuck"]>>)
    /\ UNCHANGED <<deployment, merged, rows, policy, audit, registry, history>>

(***************************************************************************)
(* Handlers of the API that edit the catalog. What validation refuses      *)
(* changes nothing.                                                        *)
(***************************************************************************)
\* CrossRefValidator.validate_agent
Valid(p, content) ==
    /\ FilterTools(ToolsOf[content], Profile, GetPolicy(policy[Store(p)], Profile)) = ToolsOf[content]
    /\ SkillsOf[content] \subseteq {s \in Ids : Exists(Get(p, "skill", s))}

\* The entry is built from the body, which holds every field, and the stored quality.
AgentEntry(p, a, content, enabled) ==
    [Entry(content, enabled, "unknown") EXCEPT !.quality = Get(p, "agent", a).quality]

PutAgent(p, a, content, enabled) ==
    /\ content \notin Dangerous /\ Valid(p, content)
    /\ Gated(p, <<Upsert("agent", a, AgentEntry(p, a, content, enabled))>> \o Published("agent", a))
    /\ UNCHANGED <<deployment, merged, rows, policy, audit, registry, history>>

\* A skill that is PUT is enabled again.
SkillEntry(content, staging) == Entry(content, TRUE, staging)

PutSkill(p, s, content, staging) ==
    /\ content \notin Dangerous
    /\ Gated(p, <<Upsert("skill", s, SkillEntry(content, staging))>> \o Published("skill", s))
    /\ approved' = IF staging = "draft" THEN approved ELSE approved \cup {<<s, content>>}
    /\ UNCHANGED <<deployment, merged, rows, policy, audit, registry, loaded, samples>>

\* The entry is read, marked and passed through upsert_skill.
ApproveSkill(p, s) ==
    LET entry == [Get(p, "skill", s) EXCEPT !.status = "vetted"]
    IN  /\ Exists(entry)
        /\ InPlace(p, "skill", s, entry)
        /\ Gated(p, <<Upsert("skill", s, entry)>> \o Published("skill", s))
        /\ approved' = approved \cup {<<s, entry.content>>}
        /\ UNCHANGED <<deployment, merged, policy, audit, registry, loaded, samples>>

\* delete_agent and delete_skill disable the row. In memory that is all, in the
\* database the row is upserted. When there is none the registry is reloaded all
\* the same.
Delete(p, kind, id) ==
    LET entry == [Get(p, kind, id) EXCEPT !.enabled = FALSE]
    IN  /\ kind \in {"agent", "skill"}
        /\ IF ~Exists(entry) THEN Gated(p, <<Reload>>)
           ELSE IF Persistent THEN Gated(p, <<Upsert(kind, id, entry)>> \o Published(kind, id))
           ELSE Gated(p, Published(kind, id))
        /\ InPlace(p, kind, id, IF Exists(entry) THEN entry ELSE NoRow)
        /\ UNCHANGED <<deployment, merged, policy, audit, registry, history>>

\* Plans, servers and tools: the entry is built from the body alone, so that a
\* plan that was active no longer is.
ResourceEntry(content, enabled) == Entry(content, enabled, "unknown")

PutResource(p, kind, id, content, enabled) ==
    /\ kind \in {"plan", "server", "tool"}
    /\ Gated(p, <<Upsert(kind, id, ResourceEntry(content, enabled))>> \o Published(kind, id))
    /\ UNCHANGED <<deployment, merged, rows, policy, audit, registry, history>>

\* activate_plan changes the column alone. In memory it compares a name with a
\* pair: no plan becomes active and every plan stops being so.
ActivatePlan(p, id) ==
    /\ LET Activated(row, i) ==
             IF Persistent THEN [row EXCEPT !.active = Exists(row) /\ i = id]
             ELSE [row EXCEPT !.active = FALSE, !.flag = FALSE]
       IN  rows' = [rows EXCEPT ![Store(p)]["plan"] = [i \in Ids |-> Activated(@[i], i)]]
    /\ Start(p, IF Exists(Get(p, "plan", id)) THEN <<Reload>> ELSE << >>)
    /\ UNCHANGED <<deployment, merged, policy, audit, registry, history>>

\* The server is asked between reading the entry and writing the whole of it.
HealthCheck(p, id, health) ==
    LET entry == [Get(p, "server", id) EXCEPT !.status = health]
    IN  /\ Exists(entry)
        /\ Start(p, <<Overwrite("server", id, entry)>>)
        /\ UNCHANGED <<deployment, merged, rows, policy, audit, registry, history>>

(***************************************************************************)
(* Policies: the stored one is read, the edit merged into it and the whole *)
(* pack written. A profile that does not exist starts from the empty       *)
(* policy, or put_profile makes it of the body.                            *)
(***************************************************************************)
HasProfile(p) == Profile \in DOMAIN policy[Store(p)]
Patched(p, patch) ==
    MergePolicy(IF HasProfile(p) THEN policy[Store(p)][Profile] ELSE EmptyPolicy, patch)

EditPolicy(p, new) ==
    /\ Gated(p, <<[do |-> "policy"], Record("profile", Profile), Reload>>)
    /\ merged' = [merged EXCEPT ![p] = new]
    /\ UNCHANGED <<deployment, rows, policy, audit, registry, history>>

\* put_profile_policy and, with the default policy, apply_seed_defaults.
PutPolicy(p, patch) == EditPolicy(p, Patched(p, patch))

PutProfile(p, patch) ==
    EditPolicy(p, IF HasProfile(p) THEN Patched(p, patch) ELSE CreatedPolicy(patch))

\* The profiles of a store once this one has the policy new.
WithPolicy(stored, new) ==
    [id \in DOMAIN stored \cup {Profile} |-> IF id = Profile THEN new ELSE stored[id]]

(***************************************************************************)
(* Beside the gate: the seed (the API or the CLI) and a reload.            *)
(***************************************************************************)
\* Profile and agents are one transaction and replace what is there, versions and
\* quality included.
SeedAgents(p) ==
    /\ rows' = [rows EXCEPT ![Store(p)]["agent"] =
                    [a \in Ids |-> IF a \in Filed THEN Seeded("agent") ELSE @[a]]]
    /\ policy' = [policy EXCEPT ![Store(p)] = WithPolicy(@, DefaultPolicy)]

\* The other catalogs are upserted entry by entry.
FanOut(kind) == [i \in DOMAIN Manifest |-> Upsert(kind, Manifest[i], Seeded(kind))]

Seed(p) ==
    /\ SeedAgents(p)
    /\ Start(p, FanOut("skill") \o FanOut("plan") \o FanOut("server") \o FanOut("tool") \o <<Reload>>)
    /\ approved' = approved \cup {<<s, FileText>> : s \in Filed}
    /\ samples' = [samples EXCEPT ![Store(p)] = [a \in Ids |-> IF a \in Filed THEN 0 ELSE @[a]]]
    /\ UNCHANGED <<deployment, merged, audit, registry, loaded>>

ReloadCatalog(p) ==
    /\ Start(p, <<Reload>>)
    /\ UNCHANGED <<deployment, merged, rows, policy, audit, registry, history>>

(***************************************************************************)
(* Hooks of the processes that run jobs.                                   *)
(***************************************************************************)
\* UpdatePersonaQuality.apply
RecordQuality(p, a) ==
    LET entry == [Get(p, "agent", a) EXCEPT !.quality = @ + 1]
    IN  /\ Exists(entry)
        /\ InPlace(p, "agent", a, entry)
        /\ Start(p, <<Upsert("agent", a, entry)>>)
        /\ samples' = [samples EXCEPT ![Store(p)][a] = @ + 1]
        /\ UNCHANGED <<deployment, merged, policy, audit, registry, approved, loaded>>

\* UpdatePlanQuality.record_match
RecordMatch(p, id) ==
    LET entry == [Get(p, "plan", id) EXCEPT !.quality = @ + 1]
    IN  /\ Exists(entry)
        /\ InPlace(p, "plan", id, entry)
        /\ Start(p, <<Upsert("plan", id, entry)>>)
        /\ UNCHANGED <<deployment, merged, policy, audit, registry, history>>

\* _load_from_catalog: the row, a refusal, or else the file.
FromCatalog(p, s) ==
    LET row == Get(p, "skill", s)
    IN  IF ~Dynamic \/ ~Exists(row) \/ ~row.enabled THEN "file"
        ELSE IF row.status = "draft" THEN "refused" ELSE "row"

\* load_skill: the body goes to the agent, then its use is counted.
LoadSkill(p, s) ==
    /\ \/ /\ FromCatalog(p, s) = "row" /\ Get(p, "skill", s).content \notin Dangerous
          /\ loaded' = loaded \cup {<<s, Get(p, "skill", s).content>>}
       \/ FromCatalog(p, s) = "file" /\ s \in Filed /\ UNCHANGED loaded
    /\ Start(p, <<[do |-> "usage", id |-> s]>>)
    /\ UNCHANGED <<deployment, merged, rows, policy, audit, registry, approved, samples>>

(***************************************************************************)
(* Steps of a handler.                                                     *)
(***************************************************************************)
\* increment_usage reads the row again; in memory counting is all it does.
CountUse(p) ==
    /\ At(p, "usage")
    /\ LET s == Head(todo[p]).id
           entry == [Get(p, "skill", s) EXCEPT !.quality = @ + 1]
       IN  /\ InPlace(p, "skill", s, IF Exists(entry) THEN entry ELSE NoRow)
           /\ Proceed(p, IF Exists(entry) /\ Persistent THEN <<Upsert("skill", s, entry)>> ELSE << >>)
    /\ UNCHANGED <<deployment, merged, policy, audit, registry, history>>

Merge(p) ==
    /\ At(p, "merge")
    /\ LET h == Head(todo[p])
       IN  Proceed(p, <<Overwrite(h.kind, h.id, Merged(h.kind, h.row, Get(p, h.kind, h.id)))>>
                        \o Tail(todo[p]))
    /\ UNCHANGED <<deployment, merged, rows, policy, audit, registry, history>>

Write(p) ==
    /\ At(p, "write")
    /\ LET h == Head(todo[p])
       IN  rows' = [rows EXCEPT ![Store(p)][h.kind][h.id] = Saved(h.row)]
    /\ Proceed(p, Tail(todo[p]))
    /\ UNCHANGED <<deployment, merged, policy, audit, registry, history>>

WritePolicy(p) ==
    /\ At(p, "policy")
    /\ policy' = [policy EXCEPT ![Store(p)] = WithPolicy(@, merged[p])]
    /\ merged' = [merged EXCEPT ![p] = EmptyPolicy]
    /\ Proceed(p, Tail(todo[p]))
    /\ UNCHANGED <<deployment, rows, audit, registry, history>>

WriteAudit(p) ==
    /\ At(p, "audit")
    /\ audit' = [audit EXCEPT ![Store(p)] = @ \cup {<<Head(todo[p]).kind, Head(todo[p]).id>>}]
    /\ Proceed(p, Tail(todo[p]))
    /\ UNCHANGED <<deployment, merged, rows, policy, registry, history>>

\* Mutant: the cached registry is not dropped.
ReloadRegistryCached(p) ==
    /\ At(p, "reload")
    /\ Proceed(p, Tail(todo[p]))
    /\ UNCHANGED <<deployment, merged, rows, policy, audit, registry, history>>

\* reload_agent_registry: the registry that this process looks agents up in from
\* now on, not the others' and not the one its runtime has.
ReloadRegistry(p) ==
    /\ At(p, "reload")
    /\ registry' = [registry EXCEPT ![p] = HybridRegistry(Store(p))]
    /\ Proceed(p, Tail(todo[p]))
    /\ UNCHANGED <<deployment, merged, rows, policy, audit, history>>

\* get_runtime, called when the first agent is run: the runtime keeps the registry
\* that it finds.
GetRuntime(p) ==
    /\ IsIdle(p) /\ runtime[p] = NoRuntime
    /\ runtime' = [runtime EXCEPT ![p] = registry[p]]
    /\ UNCHANGED <<deployment, rows, policy, audit, registry, todo, merged, calls, history>>

Step(p) == CountUse(p) \/ Merge(p) \/ Write(p) \/ WritePolicy(p) \/ WriteAudit(p) \/ ReloadRegistry(p)

NoRows == [kind \in Kinds |-> [id \in Ids |-> NoRow]]

\* A process ends and starts again: what it had in memory is gone, and it loads
\* its registry anew.
Restart(p) ==
    /\ MayRestart /\ ~IsIdle(p)
    /\ Proceed(p, << >>)
    /\ rows' = [rows EXCEPT ![p] = NoRows]
    /\ policy' = [policy EXCEPT ![p] = << >>]
    /\ audit' = [audit EXCEPT ![p] = {}]
    /\ merged' = [merged EXCEPT ![p] = EmptyPolicy]
    /\ samples' = [samples EXCEPT ![p] = [a \in Ids |-> 0]]
    /\ registry' = [registry EXCEPT ![p] =
                       IF Persistent THEN HybridRegistry("postgres")
                       ELSE [a \in Ids |-> IF a \in Filed THEN FileText ELSE NoAgent]]
    /\ runtime' = [runtime EXCEPT ![p] = NoRuntime]
    /\ UNCHANGED <<deployment, approved, loaded>>

Init ==
    /\ deployment \in Deployments
    /\ rows = [s \in Stores |-> NoRows]
    /\ policy = [s \in Stores |-> << >>]
    /\ audit = [s \in Stores |-> {}]
    /\ registry = [p \in Procs |-> [a \in Ids |-> IF a \in Filed THEN FileText ELSE NoAgent]]
    /\ runtime = [p \in Procs |-> NoRuntime]
    /\ todo = [p \in Procs |-> << >>]
    /\ merged = [p \in Procs |-> EmptyPolicy]
    /\ calls = 0
    /\ approved = {} /\ loaded = {}
    /\ samples = [s \in Stores |-> [a \in Ids |-> 0]]

\* The routes of /catalog for agents and skills.
AgentRequest(p) ==
    \/ \E id \in Ids, content \in Texts, enabled \in BOOLEAN : PutAgent(p, id, content, enabled)
    \/ \E id \in Ids, content \in Texts, staging \in Stagings : PutSkill(p, id, content, staging)
    \/ \E id \in Ids : ApproveSkill(p, id)
    \/ \E id \in Ids, kind \in Kinds : Delete(p, kind, id)

\* The routes for plans, servers, tools, profiles and the catalog as a whole. What
\* plans, servers and tools say is not sanitized.
ResourceRequest(p) ==
    \/ \E id \in Ids, kind \in Kinds, content \in Texts \ Dangerous, enabled \in BOOLEAN :
          PutResource(p, kind, id, content, enabled)
    \/ \E id \in Ids : ActivatePlan(p, id)
    \/ \E id \in Ids, health \in {"healthy", "unreachable"} : HealthCheck(p, id, health)
    \/ \E patch \in Patches : PutPolicy(p, patch) \/ PutProfile(p, patch)
    \/ BuildWriteGate(p)

\* egregore-catalog, in a process of its own or through the API.
CatalogCommand(p) == Seed(p) \/ ReloadCatalog(p) \/ PutPolicy(p, DefaultPolicy)

JobHook(p) == \E id \in Ids : RecordQuality(p, id) \/ RecordMatch(p, id) \/ LoadSkill(p, id)

\* No handler reaches the runtime.
Handler ==
    /\ \/ \E p \in Procs : Step(p) \/ CatalogCommand(p) \/ JobHook(p)
       \/ \E p \in Apis : AgentRequest(p) \/ ResourceRequest(p)
    /\ UNCHANGED runtime

Next == Handler \/ \E p \in Procs : Restart(p) \/ GetRuntime(p)

Spec == Init /\ [][Next]_vars

(***************************************************************************)
(* Properties.                                                             *)
(***************************************************************************)
\* What load_skill gives an agent from the catalog was vetted in that very wording:
\* PUT as vetted, approved, or seeded, however edits, approvals and the counting
\* of uses by other processes interleave with it.
LoadedIsVetted == loaded \subseteq approved

\* Between two requests a process that keeps its catalog in memory finds the agents
\* that its rows and the files say: the worker its tools, schemas and recipients.
RegistryServes == \A p \in Procs :
    ~Persistent /\ IsIdle(p) => registry[p] = HybridRegistry(p)

\* A process with its catalog in memory runs its agents as its rows and the files had
\* them when its runtime was made, whatever edits, restarts and seeds came before; a
\* later edit or reload does not reach them, until the process is started again.
RuntimeServes ==
    [][\A p \in Procs : ~Persistent /\ runtime'[p] # runtime[p] =>
         \/ runtime[p] = NoRuntime /\ runtime'[p] = HybridRegistry(p)
         \/ runtime'[p] = NoRuntime /\ registry'[p] = HybridRegistry(p)']_vars

\* In memory every quality event since the seed is counted in the row of its persona,
\* whatever edits came in between: update_persona_quality reads, counts and saves the
\* entry, and the upsert puts the stored quality back, which is the same object.
MemorySamples == ~Persistent /\ (\A p \in Procs : IsIdle(p)) => \A p \in Procs, a \in Ids :
    Exists(Get(p, "agent", a)) => Get(p, "agent", a).quality = samples[p][a]

\* Once a profile stores its lists of mutating tools and of tools blocked in plan mode,
\* as a seed does, no edit makes a tool callable in plan mode that was not.
PlanBlockKept ==
    [][\A p \in Procs :
        /\ ~Persistent /\ At(p, "policy") /\ Profile \in DOMAIN policy[p] /\ Profile \in DOMAIN policy'[p]
        /\ policy[p][Profile].modes.plan_blocked # {} /\ policy[p][Profile].modes.mutating # {}
        => \A tool \in Tools : ~AllowTool("plan", tool, policy[p][Profile])
                                  => ~AllowTool("plan", tool, policy'[p][Profile])]_vars
=============================================================================
