---------------------------- MODULE CatalogProofs ----------------------------
(***************************************************************************)
(* What an agent is given from the skill catalog was vetted, for any       *)
(* number of processes, skills and edits, in memory and in PostgreSQL.     *)
(* LoadedIsVetted is not inductive: what is loaded is read from a row, and *)
(* a row is written from what a handler read earlier. Inv carries the      *)
(* vetting through the rows and through the steps that are still to be     *)
(* taken.                                                                  *)
(*                                                                         *)
(* Two more arguments about a catalog in memory follow. MemoryInv: a       *)
(* handler that changes an agent has the reload of the registry as its     *)
(* last step, any other one writes back the agent it read, and whatever is *)
(* written carries the count of quality events; so the registry serves     *)
(* what the rows say, and a runtime what they said when it was made, and   *)
(* no event is lost. PolicyInv: a policy about to be saved is the stored   *)
(* one with an edit merged in, so its lists of tools only grow.            *)
(***************************************************************************)
EXTENDS Catalog, TLAPS

Statuses == Stagings \cup {"unknown", "healthy", "unreachable"}
Row == [version : Nat, content : Contents, enabled : BOOLEAN, status : Statuses,
        active : BOOLEAN, flag : BOOLEAN, quality : Nat]
Saves == [do : {"merge", "write"}, kind : Kinds, id : Ids, row : {row \in Row : Exists(row)}]
Steps == Saves \cup [do : {"audit"}, kind : Kinds \cup {"profile"}, id : Ids \cup {Profile}]
               \cup [do : {"usage"}, id : Ids]
               \cup [do : {"policy", "reload", "stuck"}]

\* An entry of a skill that load_skill would give away is among the vetted ones.
Good(kind, id, row, vetted) ==
    kind = "skill" /\ Exists(row) /\ row.status # "draft" => <<id, row.content>> \in vetted

RowsGood(table, vetted) ==
    /\ table \in [Stores -> [Kinds -> [Ids -> Row]]]
    /\ \A store \in Stores, kind \in Kinds, id \in Ids : Good(kind, id, table[store][kind][id], vetted)

StepsGood(steps, vetted) ==
    /\ steps \in Seq(Steps)
    /\ \A i \in DOMAIN steps : steps[i] \in Saves => Good(steps[i].kind, steps[i].id, steps[i].row, vetted)

TodoGood(left, vetted) ==
    /\ left \in [Procs -> Seq(Steps)]
    /\ \A p \in Procs : StepsGood(left[p], vetted)

\* The inductive invariant: types and vetting of rows and of steps to come.
Inv == RowsGood(rows, approved) /\ TodoGood(todo, approved) /\ LoadedIsVetted

(***************************************************************************)
(* Rows and entries.                                                       *)
(***************************************************************************)
LEMMA EntryTyped ==
  ASSUME NEW content \in Contents, NEW enabled \in BOOLEAN, NEW status \in Statuses
  PROVE  /\ Entry(content, enabled, status) \in Row
         /\ Entry(content, enabled, status).content = content
         /\ Entry(content, enabled, status).status = status
         /\ Exists(Entry(content, enabled, status))
  <1> DEFINE entry == Entry(content, enabled, status)
  <1>1. entry \in Row /\ entry.content = content /\ entry.status = status
    BY DEF Entry, NoRow, Row, Contents
  <1>2. entry.version = 1
    BY DEF Entry, NoRow
  <1> HIDE DEF entry
  <1>3. Exists(entry)
    BY <1>2 DEF Exists
  <1> QED BY <1>1, <1>3 DEF entry

LEMMA NoRowGood == NoRow \in Row /\ ~Exists(NoRow)
  BY DEF NoRow, Row, Contents, Statuses, Exists

LEMMA SeededTyped ==
  ASSUME NEW kind \in Kinds
  PROVE  Seeded(kind) \in Row /\ Seeded(kind).content = FileText /\ Exists(Seeded(kind))
  <1> DEFINE status == IF kind = "skill" THEN "builtin" ELSE "unknown"
             entry == Entry(FileText, TRUE, status)
  <1>1. status \in Statuses
    BY DEF Statuses, Stagings
  <1>2. FileText \in Contents
    BY DEF Contents
  <1>3. entry \in Row /\ entry.content = FileText /\ Exists(entry)
    BY <1>1, <1>2, EntryTyped
  <1>4. Seeded(kind) = [entry EXCEPT !.flag = (kind = "plan")]
    BY DEF Seeded
  <1> HIDE DEF entry
  <1> QED BY <1>3, <1>4 DEF Row, Exists

\* More vetted skills never make a good entry a bad one.
LEMMA GoodGrows ==
  ASSUME NEW A, NEW B, A \subseteq B, NEW kind, NEW id, NEW row, Good(kind, id, row, A)
  PROVE  Good(kind, id, row, B)
  BY DEF Good

LEMMA RowsGrow ==
  ASSUME NEW A, NEW B, A \subseteq B, NEW table, RowsGood(table, A)
  PROVE  RowsGood(table, B)
  BY GoodGrows DEF RowsGood

LEMMA RowsChange ==
  ASSUME NEW A, NEW table, RowsGood(table, A),
         NEW store \in Stores, NEW kind \in Kinds, NEW id \in Ids, NEW row \in Row, Good(kind, id, row, A)
  PROVE  RowsGood([table EXCEPT ![store][kind][id] = row], A)
  <1> DEFINE new == [table EXCEPT ![store][kind][id] = row]
  <1>1. new \in [Stores -> [Kinds -> [Ids -> Row]]]
    BY DEF RowsGood
  <1>2. ASSUME NEW s \in Stores, NEW k \in Kinds, NEW i \in Ids
        PROVE  new[s][k][i] = IF s = store /\ k = kind /\ i = id THEN row ELSE table[s][k][i]
    BY DEF RowsGood
  <1> QED BY <1>1, <1>2 DEF RowsGood

\* A row read from the store a process works on.
LEMMA ReadGood ==
  ASSUME Inv, NEW p \in Procs, NEW kind \in Kinds, NEW id \in Ids
  PROVE  Store(p) \in Stores /\ Get(p, kind, id) \in Row /\ Good(kind, id, Get(p, kind, id), approved)
  <1>1. Store(p) \in Stores
    BY DEF Store, Stores
  <1> QED BY <1>1 DEF Inv, RowsGood, Get

(***************************************************************************)
(* Sequences of steps.                                                     *)
(***************************************************************************)
LEMMA StepsGrow ==
  ASSUME NEW A, NEW B, A \subseteq B, NEW steps, StepsGood(steps, A)
  PROVE  StepsGood(steps, B)
  BY GoodGrows DEF StepsGood

LEMMA TodoGrows ==
  ASSUME NEW A, NEW B, A \subseteq B, NEW left, TodoGood(left, A)
  PROVE  TodoGood(left, B)
  BY StepsGrow DEF TodoGood

LEMMA NoSteps == ASSUME NEW A PROVE StepsGood(<< >>, A)
  BY DEF StepsGood

LEMMA OneStep ==
  ASSUME NEW A, NEW h \in Steps, h \in Saves => Good(h.kind, h.id, h.row, A)
  PROVE  StepsGood(<<h>>, A)
  BY DEF StepsGood

LEMMA TailGood ==
  ASSUME NEW A, NEW steps, StepsGood(steps, A), steps # << >>
  PROVE  StepsGood(Tail(steps), A) /\ Head(steps) \in Steps
         /\ (Head(steps) \in Saves => Good(Head(steps).kind, Head(steps).id, Head(steps).row, A))
  <1>1. steps \in Seq(Steps) /\ Len(steps) \in Nat /\ DOMAIN steps = 1..Len(steps)
    BY DEF StepsGood
  <1>2. Len(steps) > 0
    BY <1>1
  <1>3. Tail(steps) \in Seq(Steps) /\ DOMAIN Tail(steps) = 1..(Len(steps) - 1)
    BY <1>1, <1>2
  <1>4. \A i \in 1..(Len(steps) - 1) : Tail(steps)[i] = steps[i + 1] /\ i + 1 \in DOMAIN steps
    BY <1>1, <1>2
  <1>5. Head(steps) = steps[1] /\ 1 \in DOMAIN steps
    BY <1>1, <1>2
  <1> QED BY <1>1, <1>3, <1>4, <1>5 DEF StepsGood

LEMMA ConcatGood ==
  ASSUME NEW A, NEW s, NEW t, StepsGood(s, A), StepsGood(t, A)
  PROVE  StepsGood(s \o t, A)
  <1>1. s \in Seq(Steps) /\ t \in Seq(Steps)
    BY DEF StepsGood
  <1>2. s \o t \in Seq(Steps) /\ DOMAIN (s \o t) = 1..(Len(s) + Len(t))
    BY <1>1
  <1>3. ASSUME NEW i \in DOMAIN (s \o t), (s \o t)[i] \in Saves
        PROVE  Good((s \o t)[i].kind, (s \o t)[i].id, (s \o t)[i].row, A)
    <2>1. Len(s) \in Nat /\ Len(t) \in Nat /\ i \in 1..(Len(s) + Len(t))
      BY <1>1, <1>2, <1>3
    <2>2. CASE i <= Len(s)
      <3>1. i \in DOMAIN s /\ (s \o t)[i] = s[i]
        BY <1>1, <2>1, <2>2
      <3> QED BY <3>1, <1>3 DEF StepsGood
    <2>3. CASE i > Len(s)
      <3>1. i - Len(s) \in DOMAIN t /\ (s \o t)[i] = t[i - Len(s)]
        BY <1>1, <2>1, <2>3
      <3> QED BY <3>1, <1>3 DEF StepsGood
    <2> QED BY <2>1, <2>2, <2>3
  <1> QED BY <1>2, <1>3 DEF StepsGood

LEMMA TodoChange ==
  ASSUME NEW A, NEW left, TodoGood(left, A), NEW p \in Procs, NEW steps, StepsGood(steps, A)
  PROVE  TodoGood([left EXCEPT ![p] = steps], A)
  <1>1. steps \in Seq(Steps)
    BY DEF StepsGood
  <1> QED BY <1>1 DEF TodoGood

\* The kinds of step that the handlers are made of.
LEMMA SaveGood ==
  ASSUME NEW A, NEW kind \in Kinds, NEW id \in Ids, NEW row \in Row, Good(kind, id, row, A),
         Exists(row)
  PROVE  StepsGood(<<Upsert(kind, id, row)>>, A) /\ StepsGood(<<Overwrite(kind, id, row)>>, A)
  <1>1. Upsert(kind, id, row) \in Saves /\ Overwrite(kind, id, row) \in Saves
    BY DEF Upsert, Overwrite, Saves
  <1>2. \A h : h = Upsert(kind, id, row) \/ h = Overwrite(kind, id, row)
                 => h.kind = kind /\ h.id = id /\ h.row = row
    BY DEF Upsert, Overwrite
  <1> HIDE DEF Upsert, Overwrite
  <1> QED BY <1>1, <1>2, OneStep DEF Steps

LEMMA OtherGood ==
  ASSUME NEW A, NEW h \in Steps \ Saves
  PROVE  StepsGood(<<h>>, A)
  BY OneStep

\* The empty catalog satisfies the invariant.
THEOREM InitInv == Init => Inv
  <1> SUFFICES ASSUME Init PROVE Inv
    OBVIOUS
  <1>1. RowsGood(rows, approved)
    BY NoRowGood DEF Init, RowsGood, Good, NoRows
  <1>2. TodoGood(todo, approved)
    BY NoSteps DEF Init, TodoGood
  <1> QED BY <1>1, <1>2 DEF Init, Inv, LoadedIsVetted

(***************************************************************************)
(* Steps.                                                                  *)
(***************************************************************************)
LEMMA PublishedGood ==
  ASSUME NEW A, NEW kind \in Kinds \cup {"profile"}, NEW id \in Ids \cup {Profile}
  PROVE  StepsGood(Published(kind, id), A) /\ StepsGood(<<Reload>>, A)
  <1>1. Record(kind, id) \in Steps \ Saves /\ Reload \in Steps \ Saves
    BY DEF Record, Reload, Steps, Saves
  <1>2. StepsGood(<<Reload>>, A)
    BY <1>1, OtherGood
  <1>3. StepsGood(Published(kind, id), A)
    BY <1>1 DEF Published, StepsGood
  <1> QED BY <1>2, <1>3

\* An edit through the gate: an upsert, the audit record and the reload.
LEMMA EditGood ==
  ASSUME NEW A, NEW kind \in Kinds, NEW id \in Ids, NEW row \in Row, Good(kind, id, row, A),
         Exists(row)
  PROVE  StepsGood(<<Upsert(kind, id, row)>> \o Published(kind, id), A)
  BY SaveGood, PublishedGood, ConcatGood

\* A step that changes neither the rows nor what is loaded.
LEMMA TodoOnly ==
  ASSUME Inv, NEW p \in Procs, NEW steps, approved \subseteq approved', StepsGood(steps, approved'),
         todo' = [todo EXCEPT ![p] = steps], rows' = rows, loaded' = loaded
  PROVE  Inv'
  <1>1. RowsGood(rows', approved')
    BY RowsGrow DEF Inv
  <1>2. TodoGood(todo, approved')
    BY TodoGrows DEF Inv
  <1>3. TodoGood(todo', approved')
    BY <1>2, TodoChange
  <1>4. LoadedIsVetted'
    BY DEF Inv, LoadedIsVetted
  <1> QED BY <1>1, <1>3, <1>4 DEF Inv

\* A step that changes one row.
LEMMA RowAndTodo ==
  ASSUME Inv, NEW p \in Procs, NEW steps, approved \subseteq approved', StepsGood(steps, approved'),
         todo' = [todo EXCEPT ![p] = steps], loaded' = loaded,
         NEW store \in Stores, NEW kind \in Kinds, NEW id \in Ids, NEW row \in Row,
         Good(kind, id, row, approved'), rows' = [rows EXCEPT ![store][kind][id] = row]
  PROVE  Inv'
  <1>1. RowsGood(rows, approved')
    BY RowsGrow DEF Inv
  <1>2. RowsGood(rows', approved')
    BY <1>1, RowsChange
  <1>3. TodoGood(todo, approved')
    BY TodoGrows DEF Inv
  <1>4. TodoGood(todo', approved')
    BY <1>3, TodoChange
  <1>5. LoadedIsVetted'
    BY DEF Inv, LoadedIsVetted
  <1> QED BY <1>2, <1>4, <1>5 DEF Inv

\* A step that changes one row in memory and none in the database.
LEMMA InPlaceAndTodo ==
  ASSUME Inv, NEW p \in Procs, NEW steps, approved \subseteq approved', StepsGood(steps, approved'),
         todo' = [todo EXCEPT ![p] = steps], loaded' = loaded,
         NEW kind \in Kinds, NEW id \in Ids, NEW row \in Row,
         Good(kind, id, row, approved'), InPlace(p, kind, id, row)
  PROVE  Inv'
  <1>1. p \in Stores
    BY DEF Stores
  <1>2. CASE Persistent
    BY <1>2, TodoOnly DEF InPlace
  <1>3. CASE ~Persistent
    <2>1. rows' = [rows EXCEPT ![p][kind][id] = row]
      BY <1>3 DEF InPlace
    <2> QED BY <1>1, <2>1, RowAndTodo
  <1> QED BY <1>2, <1>3

LEMMA BuildWriteGateStep == ASSUME Inv, NEW p \in Procs, BuildWriteGate(p) PROVE Inv'
  <1>1. [do |-> "stuck"] \in Steps \ Saves
    BY DEF Steps, Saves
  <1>2. StepsGood(<<[do |-> "stuck"]>>, approved')
    BY <1>1, OtherGood
  <1> QED BY <1>2, TodoOnly DEF BuildWriteGate, Start, history

LEMMA PutAgentStep ==
  ASSUME Inv, NEW p \in Procs, NEW a \in Ids, NEW content \in Texts, NEW enabled \in BOOLEAN,
         PutAgent(p, a, content, enabled)
  PROVE  Inv'
  <1> DEFINE entry == AgentEntry(p, a, content, enabled)
  <1>1. "agent" \in Kinds /\ "agent" # "skill"
    BY DEF Kinds
  <1>2. Get(p, "agent", a) \in Row
    BY <1>1, ReadGood
  <1>3. Entry(content, enabled, "unknown") \in Row /\ Exists(Entry(content, enabled, "unknown"))
    BY EntryTyped DEF Contents, Statuses
  <1>4. entry \in Row /\ Exists(entry)
    BY <1>2, <1>3 DEF AgentEntry, Row, Exists
  <1>5. Good("agent", a, entry, approved')
    BY <1>1 DEF Good
  <1>6. todo' = [todo EXCEPT ![p] = <<Upsert("agent", a, entry)>> \o Published("agent", a)]
    BY DEF PutAgent, Gated, Start
  <1>7. rows' = rows /\ loaded' = loaded /\ approved' = approved
    BY DEF PutAgent, history
  <1> HIDE DEF entry
  <1> QED BY <1>1, <1>4, <1>5, <1>6, <1>7, EditGood, TodoOnly

LEMMA PutSkillStep ==
  ASSUME Inv, NEW p \in Procs, NEW s \in Ids, NEW content \in Texts, NEW staging \in Stagings,
         PutSkill(p, s, content, staging)
  PROVE  Inv'
  <1> DEFINE entry == SkillEntry(content, staging)
  <1>1. "skill" \in Kinds
    BY DEF Kinds
  <1>2. entry \in Row /\ entry.content = content /\ entry.status = staging /\ Exists(entry)
    BY EntryTyped, ZenonT(60) DEF SkillEntry, Contents, Statuses
  <1>3. todo' = [todo EXCEPT ![p] = <<Upsert("skill", s, entry)>> \o Published("skill", s)]
    BY DEF PutSkill, Gated, Start
  <1>4. rows' = rows /\ loaded' = loaded /\ approved \subseteq approved'
        /\ (staging # "draft" => <<s, content>> \in approved')
    BY DEF PutSkill
  <1> HIDE DEF entry
  <1>5. Good("skill", s, entry, approved')
    BY <1>2, <1>4 DEF Good
  <1> QED BY <1>1, <1>2, <1>3, <1>4, <1>5, EditGood, TodoOnly

LEMMA ApproveSkillStep ==
  ASSUME Inv, NEW p \in Procs, NEW s \in Ids, ApproveSkill(p, s)
  PROVE  Inv'
  <1> DEFINE entry == [Get(p, "skill", s) EXCEPT !.status = "vetted"]
  <1>1. "skill" \in Kinds
    BY DEF Kinds
  <1>2. Get(p, "skill", s) \in Row
    BY <1>1, ReadGood
  <1>3. entry \in Row
    BY <1>2 DEF Row, Statuses, Stagings
  <1>4. todo' = [todo EXCEPT ![p] = <<Upsert("skill", s, entry)>> \o Published("skill", s)]
        /\ InPlace(p, "skill", s, entry)
    BY DEF ApproveSkill, Gated, Start
  <1>5. loaded' = loaded /\ approved \subseteq approved' /\ <<s, entry.content>> \in approved' /\ Exists(entry)
    BY DEF ApproveSkill
  <1> HIDE DEF entry
  <1>6. Good("skill", s, entry, approved')
    BY <1>5 DEF Good
  <1> QED BY <1>1, <1>3, <1>4, <1>5, <1>6, EditGood, InPlaceAndTodo

LEMMA DeleteStep ==
  ASSUME Inv, NEW p \in Procs, NEW kind \in Kinds, NEW id \in Ids, Delete(p, kind, id)
  PROVE  Inv'
  <1> DEFINE row == Get(p, kind, id)
             entry == [row EXCEPT !.enabled = FALSE]
             kept == IF Exists(entry) THEN entry ELSE NoRow
  <1>1. row \in Row /\ Good(kind, id, row, approved)
    BY ReadGood
  <1>2. entry \in Row /\ Good(kind, id, entry, approved)
    BY <1>1 DEF Row, Good, Exists
  <1>3. kept \in Row /\ Good(kind, id, kept, approved)
    BY <1>2, NoRowGood DEF Good
  <1>4. approved' = approved /\ loaded' = loaded /\ InPlace(p, kind, id, kept)
    BY DEF Delete, history
  <1>5. PICK steps : /\ todo' = [todo EXCEPT ![p] = steps]
                     /\ \/ steps = <<Reload>>
                        \/ Exists(entry) /\ steps = <<Upsert(kind, id, entry)>> \o Published(kind, id)
                        \/ steps = Published(kind, id)
    BY DEF Delete, Gated, Start
  <1> HIDE DEF row, entry, kept
  <1>6. StepsGood(steps, approved)
    BY <1>2, <1>5, EditGood, PublishedGood
  <1> QED BY <1>3, <1>4, <1>5, <1>6, InPlaceAndTodo

LEMMA PutResourceStep ==
  ASSUME Inv, NEW p \in Procs, NEW kind \in Kinds, NEW id \in Ids, NEW content \in Texts,
         NEW enabled \in BOOLEAN, PutResource(p, kind, id, content, enabled)
  PROVE  Inv'
  <1> DEFINE entry == ResourceEntry(content, enabled)
  <1>1. entry \in Row /\ Exists(entry)
    BY EntryTyped DEF ResourceEntry, Contents, Statuses
  <1>2. kind # "skill"
    BY DEF PutResource
  <1>3. todo' = [todo EXCEPT ![p] = <<Upsert(kind, id, entry)>> \o Published(kind, id)]
        /\ rows' = rows /\ loaded' = loaded /\ approved' = approved
    BY DEF PutResource, Gated, Start, history
  <1> HIDE DEF entry
  <1>4. Good(kind, id, entry, approved')
    BY <1>2 DEF Good
  <1> QED BY <1>1, <1>3, <1>4, EditGood, TodoOnly

\* A step that changes rows of one kind other than skills.
LEMMA OtherKind ==
  ASSUME Inv, NEW p \in Procs, NEW steps, approved \subseteq approved', StepsGood(steps, approved'),
         todo' = [todo EXCEPT ![p] = steps], loaded' = loaded,
         NEW store \in Stores, NEW kind \in Kinds \ {"skill"}, NEW column \in [Ids -> Row],
         rows' = [rows EXCEPT ![store][kind] = column]
  PROVE  Inv'
  <1>1. RowsGood(rows, approved')
    BY RowsGrow DEF Inv
  <1>2. rows' \in [Stores -> [Kinds -> [Ids -> Row]]]
    BY <1>1 DEF RowsGood
  <1>3. ASSUME NEW s \in Stores, NEW k \in Kinds, NEW i \in Ids
        PROVE  Good(k, i, rows'[s][k][i], approved')
    <2>1. CASE k = kind
      BY <2>1 DEF Good
    <2>2. CASE k # kind
      <3>1. rows'[s][k][i] = rows[s][k][i]
        BY <1>1, <2>2 DEF RowsGood
      <3> QED BY <3>1, <1>1 DEF RowsGood
    <2> QED BY <2>1, <2>2
  <1>4. TodoGood(todo, approved')
    BY TodoGrows DEF Inv
  <1>5. TodoGood(todo', approved')
    BY <1>4, TodoChange
  <1>6. LoadedIsVetted'
    BY DEF Inv, LoadedIsVetted
  <1> QED BY <1>2, <1>3, <1>5, <1>6 DEF Inv, RowsGood

LEMMA ActivatePlanStep ==
  ASSUME Inv, NEW p \in Procs, NEW id \in Ids, ActivatePlan(p, id)
  PROVE  Inv'
  <1> DEFINE Activated(row, i) ==
               IF Persistent THEN [row EXCEPT !.active = Exists(row) /\ i = id]
               ELSE [row EXCEPT !.active = FALSE, !.flag = FALSE]
             column == [i \in Ids |-> Activated(rows[Store(p)]["plan"][i], i)]
  <1>1. "plan" \in Kinds \ {"skill"}
    BY DEF Kinds
  <1>2. Store(p) \in Stores
    BY <1>1, ReadGood
  <1>3. ASSUME NEW row \in Row, NEW i \in Ids PROVE Activated(row, i) \in Row
    <2>1. (Exists(row) /\ i = id) \in BOOLEAN
      OBVIOUS
    <2> QED BY <2>1 DEF Row
  <1>4. \A i \in Ids : rows[Store(p)]["plan"][i] \in Row
    BY <1>1, <1>2 DEF Inv, RowsGood
  <1> HIDE DEF Activated
  <1>5. column \in [Ids -> Row]
    BY <1>3, <1>4
  <1>6. rows' = [rows EXCEPT ![Store(p)]["plan"] = column]
    BY DEF ActivatePlan, Activated
  <1>7. PICK steps : todo' = [todo EXCEPT ![p] = steps] /\ (steps = <<Reload>> \/ steps = << >>)
    BY DEF ActivatePlan, Start
  <1>8. loaded' = loaded /\ approved' = approved
    BY DEF ActivatePlan, history
  <1>9. StepsGood(steps, approved')
    BY <1>7, <1>1, NoSteps, PublishedGood
  <1> HIDE DEF column
  <1> QED BY <1>1, <1>2, <1>5, <1>6, <1>7, <1>8, <1>9, OtherKind

LEMMA HealthCheckStep ==
  ASSUME Inv, NEW p \in Procs, NEW id \in Ids, NEW health \in {"healthy", "unreachable"},
         HealthCheck(p, id, health)
  PROVE  Inv'
  <1> DEFINE entry == [Get(p, "server", id) EXCEPT !.status = health]
  <1>1. "server" \in Kinds /\ "server" # "skill"
    BY DEF Kinds
  <1>2. Get(p, "server", id) \in Row
    BY <1>1, ReadGood
  <1>3. entry \in Row
    BY <1>2 DEF Row, Statuses
  <1>4. todo' = [todo EXCEPT ![p] = <<Overwrite("server", id, entry)>>]
        /\ rows' = rows /\ loaded' = loaded /\ approved' = approved /\ Exists(entry)
    BY DEF HealthCheck, Start, history
  <1> HIDE DEF entry
  <1>5. Good("server", id, entry, approved')
    BY <1>1 DEF Good
  <1> QED BY <1>1, <1>3, <1>4, <1>5, SaveGood, TodoOnly

LEMMA PutPolicyStep ==
  ASSUME Inv, NEW p \in Procs, NEW new, EditPolicy(p, new)
  PROVE  Inv'
  <1> DEFINE steps == <<[do |-> "policy"], Record("profile", Profile), Reload>>
  <1>1. [do |-> "policy"] \in Steps \ Saves /\ Record("profile", Profile) \in Steps \ Saves
        /\ Reload \in Steps \ Saves
    BY DEF Record, Reload, Steps, Saves
  <1>2. StepsGood(steps, approved')
    BY <1>1 DEF StepsGood
  <1>3. todo' = [todo EXCEPT ![p] = steps] /\ rows' = rows /\ loaded' = loaded /\ approved' = approved
    BY DEF EditPolicy, Gated, Start, history
  <1> QED BY <1>2, <1>3, TodoOnly

LEMMA SeedStep == ASSUME Inv, NEW p \in Procs, Seed(p) PROVE Inv'
  <1> USE CatalogAssumption
  <1> DEFINE column == [a \in Ids |-> IF a \in Filed THEN Seeded("agent") ELSE rows[Store(p)]["agent"][a]]
  <1>1. {"agent", "skill", "plan", "server", "tool"} \subseteq Kinds /\ "agent" \in Kinds \ {"skill"}
    BY DEF Kinds
  <1>2. Store(p) \in Stores
    BY DEF Store, Stores
  <1>3. column \in [Ids -> Row]
    BY <1>1, <1>2, SeededTyped DEF Inv, RowsGood
  <1>4. approved \subseteq approved' /\ loaded' = loaded
        /\ \A i \in DOMAIN Manifest : <<Manifest[i], FileText>> \in approved'
    BY DEF Seed, Filed
  <1>5. ASSUME NEW kind \in Kinds PROVE StepsGood(FanOut(kind), approved')
    <2>1. Seeded(kind) \in Row /\ Seeded(kind).content = FileText /\ Exists(Seeded(kind))
      BY SeededTyped
    <2>2. \A i \in DOMAIN Manifest : Manifest[i] \in Ids
      OBVIOUS
    <2>3. \A i \in DOMAIN Manifest : Good(kind, Manifest[i], Seeded(kind), approved')
      BY <1>4, <2>1 DEF Good
    <2>4. \A i \in DOMAIN Manifest : FanOut(kind)[i] \in Saves /\ FanOut(kind)[i].kind = kind
             /\ FanOut(kind)[i].id = Manifest[i] /\ FanOut(kind)[i].row = Seeded(kind)
      BY <2>1, <2>2 DEF FanOut, Upsert, Saves
    <2>5. FanOut(kind) \in Seq(Saves) /\ DOMAIN FanOut(kind) = DOMAIN Manifest
      BY <2>4 DEF FanOut
    <2>6. FanOut(kind) \in Seq(Steps)
      BY <2>5 DEF Steps
    <2> QED BY <2>3, <2>4, <2>5, <2>6 DEF StepsGood
  <1> DEFINE steps == FanOut("skill") \o FanOut("plan") \o FanOut("server") \o FanOut("tool") \o <<Reload>>
  <1>6. todo' = [todo EXCEPT ![p] = steps]
    BY DEF Seed, Start
  <1>7. rows' = [rows EXCEPT ![Store(p)]["agent"] = column]
    BY DEF Seed, SeedAgents
  <1> HIDE DEF column
  <1>8. StepsGood(FanOut("skill") \o FanOut("plan"), approved')
    BY <1>1, <1>5, ConcatGood
  <1>9. StepsGood(FanOut("skill") \o FanOut("plan") \o FanOut("server"), approved')
    BY <1>1, <1>5, <1>8, ConcatGood
  <1>10. StepsGood(FanOut("skill") \o FanOut("plan") \o FanOut("server") \o FanOut("tool"), approved')
    BY <1>1, <1>5, <1>9, ConcatGood
  <1>11. StepsGood(<<Reload>>, approved')
    BY <1>1, PublishedGood
  <1>12. StepsGood(steps, approved')
    BY <1>10, <1>11, ConcatGood
  <1> HIDE DEF steps
  <1> QED BY <1>1, <1>2, <1>3, <1>4, <1>6, <1>7, <1>12, OtherKind

LEMMA ReloadCatalogStep == ASSUME Inv, NEW p \in Procs, ReloadCatalog(p) PROVE Inv'
  <1>1. "agent" \in Kinds
    BY DEF Kinds
  <1>2. StepsGood(<<Reload>>, approved')
    BY <1>1, PublishedGood
  <1> QED BY <1>2, TodoOnly DEF ReloadCatalog, Start, history

\* What a counting hook writes: the entry it read, with one more count.
LEMMA CountedGood ==
  ASSUME Inv, NEW p \in Procs, NEW kind \in Kinds, NEW id \in Ids, NEW entry,
         entry = [Get(p, kind, id) EXCEPT !.quality = @ + 1]
  PROVE  entry \in Row /\ Good(kind, id, entry, approved)
  <1>1. Get(p, kind, id) \in Row /\ Good(kind, id, Get(p, kind, id), approved)
    BY ReadGood
  <1> QED BY <1>1 DEF Row, Good, Exists

LEMMA RecordQualityStep ==
  ASSUME Inv, NEW p \in Procs, NEW a \in Ids, RecordQuality(p, a)
  PROVE  Inv'
  <1> DEFINE entry == [Get(p, "agent", a) EXCEPT !.quality = @ + 1]
  <1>1. "agent" \in Kinds
    BY DEF Kinds
  <1>2. entry \in Row /\ Good("agent", a, entry, approved)
    BY <1>1, CountedGood
  <1>3. todo' = [todo EXCEPT ![p] = <<Upsert("agent", a, entry)>>]
        /\ InPlace(p, "agent", a, entry) /\ loaded' = loaded /\ approved' = approved
        /\ Exists(entry)
    BY DEF RecordQuality, Start
  <1> HIDE DEF entry
  <1> QED BY <1>1, <1>2, <1>3, SaveGood, InPlaceAndTodo

LEMMA RecordMatchStep ==
  ASSUME Inv, NEW p \in Procs, NEW id \in Ids, RecordMatch(p, id)
  PROVE  Inv'
  <1> DEFINE entry == [Get(p, "plan", id) EXCEPT !.quality = @ + 1]
  <1>1. "plan" \in Kinds
    BY DEF Kinds
  <1>2. entry \in Row /\ Good("plan", id, entry, approved)
    BY <1>1, CountedGood
  <1>3. todo' = [todo EXCEPT ![p] = <<Upsert("plan", id, entry)>>]
        /\ InPlace(p, "plan", id, entry) /\ loaded' = loaded /\ approved' = approved
        /\ Exists(entry)
    BY DEF RecordMatch, Start, history
  <1> HIDE DEF entry
  <1> QED BY <1>1, <1>2, <1>3, SaveGood, InPlaceAndTodo

\* What is given away comes from a row that exists and is no draft.
LEMMA LoadSkillStep ==
  ASSUME Inv, NEW p \in Procs, NEW s \in Ids, LoadSkill(p, s)
  PROVE  Inv'
  <1> DEFINE row == Get(p, "skill", s)
  <1>1. "skill" \in Kinds
    BY DEF Kinds
  <1>2. row \in Row /\ Good("skill", s, row, approved)
    BY <1>1, ReadGood
  <1>3. loaded' = loaded \/ (FromCatalog(p, s) = "row" /\ loaded' = loaded \cup {<<s, row.content>>})
    BY DEF LoadSkill
  <1>4. FromCatalog(p, s) = "row" => Exists(row) /\ row.status # "draft"
    BY DEF FromCatalog
  <1>5. approved' = approved /\ rows' = rows /\ todo' = [todo EXCEPT ![p] = <<[do |-> "usage", id |-> s]>>]
    BY DEF LoadSkill, Start
  <1> HIDE DEF row
  <1>6. LoadedIsVetted'
    BY <1>2, <1>3, <1>4, <1>5 DEF Inv, LoadedIsVetted, Good
  <1>7. [do |-> "usage", id |-> s] \in Steps \ Saves
    BY DEF Steps, Saves
  <1>8. StepsGood(<<[do |-> "usage", id |-> s]>>, approved)
    BY <1>7, OtherGood
  <1>9. TodoGood(todo', approved)
    BY <1>5, <1>8, TodoChange DEF Inv
  <1> QED BY <1>5, <1>6, <1>9 DEF Inv

(***************************************************************************)
(* The steps of a handler under way.                                       *)
(***************************************************************************)
\* The first step left, by what it does.
LEMMA HeadGood ==
  ASSUME Inv, NEW p \in Procs, NEW do, At(p, do)
  PROVE  /\ StepsGood(Tail(todo[p]), approved)
         /\ Head(todo[p]) \in Steps
         /\ do = "usage" => Head(todo[p]).id \in Ids
         /\ do \in {"merge", "write"} =>
               /\ Head(todo[p]).kind \in Kinds /\ Head(todo[p]).id \in Ids /\ Head(todo[p]).row \in Row
               /\ Good(Head(todo[p]).kind, Head(todo[p]).id, Head(todo[p]).row, approved)
               /\ Exists(Head(todo[p]).row)
  <1> DEFINE h == Head(todo[p])
  <1>1. StepsGood(todo[p], approved) /\ todo[p] # << >> /\ h.do = do
    BY DEF Inv, TodoGood, At, IsIdle
  <1>2. StepsGood(Tail(todo[p]), approved) /\ h \in Steps
        /\ (h \in Saves => Good(h.kind, h.id, h.row, approved))
    BY <1>1, TailGood
  <1> HIDE DEF h
  <1>3. CASE h \in Saves
    BY <1>1, <1>2, <1>3 DEF Saves, h
  <1>4. CASE h \in [do : {"audit"}, kind : Kinds \cup {"profile"}, id : Ids \cup {Profile}]
    BY <1>1, <1>2, <1>4 DEF h
  <1>5. CASE h \in [do : {"usage"}, id : Ids]
    BY <1>1, <1>2, <1>5 DEF h
  <1>6. CASE h \in [do : {"policy", "reload", "stuck"}]
    BY <1>1, <1>2, <1>6 DEF h
  <1> QED BY <1>2, <1>3, <1>4, <1>5, <1>6 DEF Steps

LEMMA CountUseStep == ASSUME Inv, NEW p \in Procs, CountUse(p) PROVE Inv'
  <1> DEFINE s == Head(todo[p]).id
             entry == [Get(p, "skill", s) EXCEPT !.quality = @ + 1]
             kept == IF Exists(entry) THEN entry ELSE NoRow
  <1>1. "skill" \in Kinds
    BY DEF Kinds
  <1>2. s \in Ids
    BY HeadGood DEF CountUse
  <1>3. InPlace(p, "skill", s, kept) /\ loaded' = loaded /\ approved' = approved
    BY DEF CountUse, history
  <1>4. PICK steps : todo' = [todo EXCEPT ![p] = steps]
                     /\ ((Exists(entry) /\ steps = <<Upsert("skill", s, entry)>>) \/ steps = << >>)
    BY DEF CountUse, Proceed
  <1> HIDE DEF s
  <1>5. entry \in Row /\ Good("skill", s, entry, approved)
    BY <1>1, <1>2, CountedGood
  <1> HIDE DEF entry
  <1>6. kept \in Row /\ Good("skill", s, kept, approved)
    BY <1>5, NoRowGood DEF Good
  <1>7. StepsGood(steps, approved)
    BY <1>1, <1>2, <1>4, <1>5, SaveGood, NoSteps
  <1> HIDE DEF kept
  <1> QED BY <1>1, <1>2, <1>3, <1>4, <1>6, <1>7, InPlaceAndTodo

\* Merging keeps what is written: it takes the version and the quality of the stored row.
LEMMA MergedGood ==
  ASSUME NEW A, NEW kind \in Kinds, NEW id, NEW new \in Row, NEW old \in Row, Exists(new),
         Good(kind, id, new, A)
  PROVE  Merged(kind, new, old) \in Row /\ Exists(Merged(kind, new, old))
         /\ Good(kind, id, Merged(kind, new, old), A)
  <1> DEFINE quality == IF kind = "plan" /\ ~Persistent THEN new.quality ELSE old.quality
             both == [new EXCEPT !.version = old.version + 1, !.quality = quality]
  <1>1. quality \in Nat /\ old.version + 1 \in Nat \ {0}
    BY DEF Row
  <1>2. Merged(kind, new, old) = new \/ Merged(kind, new, old) = both
    BY DEF Merged
  <1> HIDE DEF quality
  <1>3. both \in Row /\ both.content = new.content /\ both.status = new.status
        /\ both.version = old.version + 1
    BY <1>1 DEF Row
  <1> HIDE DEF both
  <1>4. Exists(both)
    BY <1>1, <1>3 DEF Exists
  <1> QED BY <1>2, <1>3, <1>4 DEF Good

LEMMA MergeStep == ASSUME Inv, NEW p \in Procs, Merge(p) PROVE Inv'
  <1> DEFINE h == Head(todo[p])
             row == Merged(h.kind, h.row, Get(p, h.kind, h.id))
  <1>1. h.kind \in Kinds /\ h.id \in Ids /\ h.row \in Row /\ Exists(h.row)
        /\ Good(h.kind, h.id, h.row, approved) /\ StepsGood(Tail(todo[p]), approved)
    BY HeadGood DEF Merge
  <1>2. Get(p, h.kind, h.id) \in Row
    BY <1>1, ReadGood
  <1>3. row \in Row /\ Exists(row) /\ Good(h.kind, h.id, row, approved)
    BY <1>1, <1>2, MergedGood
  <1>4. todo' = [todo EXCEPT ![p] = <<Overwrite(h.kind, h.id, row)>> \o Tail(todo[p])]
        /\ rows' = rows /\ loaded' = loaded /\ approved' = approved
    BY DEF Merge, Proceed, history
  <1> HIDE DEF h, row
  <1>5. StepsGood(<<Overwrite(h.kind, h.id, row)>> \o Tail(todo[p]), approved)
    BY <1>1, <1>3, SaveGood, ConcatGood
  <1> QED BY <1>4, <1>5, TodoOnly

LEMMA WriteStep == ASSUME Inv, NEW p \in Procs, Write(p) PROVE Inv'
  <1> DEFINE h == Head(todo[p])
  <1>1. h.kind \in Kinds /\ h.id \in Ids /\ h.row \in Row /\ Exists(h.row)
        /\ Good(h.kind, h.id, h.row, approved) /\ StepsGood(Tail(todo[p]), approved)
    BY HeadGood DEF Write
  <1>2. Saved(h.row) \in Row /\ Good(h.kind, h.id, Saved(h.row), approved)
    <2> HIDE DEF h
    <2> QED BY <1>1 DEF Saved, Row, Good, Exists
  <1>3. rows' = [rows EXCEPT ![Store(p)][h.kind][h.id] = Saved(h.row)]
        /\ todo' = [todo EXCEPT ![p] = Tail(todo[p])] /\ loaded' = loaded /\ approved' = approved
    BY DEF Write, Proceed, history
  <1>4. Store(p) \in Stores
    BY DEF Store, Stores
  <1> HIDE DEF h
  <1> QED BY <1>1, <1>2, <1>3, <1>4, RowAndTodo

LEMMA QuietStep ==
  ASSUME Inv, NEW p \in Procs, WritePolicy(p) \/ WriteAudit(p) \/ ReloadRegistry(p)
  PROVE  Inv'
  <1>1. PICK do : At(p, do)
    BY DEF WritePolicy, WriteAudit, ReloadRegistry
  <1>2. StepsGood(Tail(todo[p]), approved)
    BY <1>1, HeadGood
  <1>3. todo' = [todo EXCEPT ![p] = Tail(todo[p])] /\ rows' = rows /\ loaded' = loaded /\ approved' = approved
    BY DEF WritePolicy, WriteAudit, ReloadRegistry, Proceed, history
  <1> QED BY <1>2, <1>3, TodoOnly

LEMMA RestartStep == ASSUME Inv, NEW p \in Procs, Restart(p) PROVE Inv'
  <1>1. p \in Stores
    BY DEF Stores
  <1>2. NoRows \in [Kinds -> [Ids -> Row]] /\ \A kind \in Kinds, id \in Ids : NoRows[kind][id] = NoRow
    BY NoRowGood DEF NoRows
  <1>3. rows' = [rows EXCEPT ![p] = NoRows] /\ todo' = [todo EXCEPT ![p] = << >>]
        /\ loaded' = loaded /\ approved' = approved
    BY DEF Restart, Proceed
  <1>4. RowsGood(rows', approved')
    BY <1>1, <1>2, <1>3, NoRowGood DEF Inv, RowsGood, Good
  <1>5. TodoGood(todo', approved')
    BY <1>3, NoSteps, TodoChange DEF Inv
  <1> QED BY <1>3, <1>4, <1>5 DEF Inv, LoadedIsVetted

\* What a step does to all but the registry that a runtime has.
Others == <<deployment, rows, policy, audit, registry, todo, merged, calls, history>>
Moves == Handler \/ \E p \in Procs : Restart(p)

LEMMA MovesOrNot == ASSUME [Next]_vars PROVE Moves \/ UNCHANGED Others
  <1>1. CASE UNCHANGED vars
    BY <1>1 DEF vars, Others
  <1>2. ASSUME NEW p \in Procs, GetRuntime(p) PROVE UNCHANGED Others
    BY <1>2 DEF GetRuntime, Others
  <1> QED BY <1>1, <1>2 DEF Next, Moves

\* Every step of every process keeps the invariant.
THEOREM NextInv == Inv /\ [Next]_vars => Inv'
  <1> SUFFICES ASSUME Inv, [Next]_vars PROVE Inv'
    OBVIOUS
  <1> USE CatalogAssumption
  <1>1. CASE UNCHANGED Others
    BY <1>1 DEF Others, history, Inv, LoadedIsVetted
  <1>2. ASSUME NEW p \in Procs, Step(p) \/ Restart(p) PROVE Inv'
    BY <1>2, CountUseStep, MergeStep, WriteStep, QuietStep, RestartStep DEF Step
  <1>3. ASSUME NEW p \in Procs, CatalogCommand(p) PROVE Inv'
    BY <1>3, SeedStep, ReloadCatalogStep, PutPolicyStep DEF CatalogCommand, PutPolicy
  <1>4. ASSUME NEW p \in Procs, JobHook(p) PROVE Inv'
    BY <1>4, RecordQualityStep, RecordMatchStep, LoadSkillStep DEF JobHook
  <1>5. ASSUME NEW p \in Procs, AgentRequest(p) PROVE Inv'
    BY <1>5, PutAgentStep, PutSkillStep, ApproveSkillStep, DeleteStep DEF AgentRequest
  <1>6. ASSUME NEW p \in Procs, ResourceRequest(p) PROVE Inv'
    BY <1>6, PutResourceStep, ActivatePlanStep, HealthCheckStep, PutPolicyStep, BuildWriteGateStep
       DEF ResourceRequest, PutPolicy, PutProfile
  <1> QED BY <1>1, <1>2, <1>3, <1>4, <1>5, <1>6, MovesOrNot DEF Moves, Handler

\* load_skill never gives an agent a wording of a catalog skill that nobody vetted.
THEOREM OnlyVettedIsLoaded == Spec => []LoadedIsVetted
  <1>1. Inv => LoadedIsVetted
    BY DEF Inv
  <1> QED BY <1>1, InitInv, NextInv, PTL DEF Spec

(***************************************************************************)
(* Catalogs in memory. A process alone writes its rows, its registry and   *)
(* its policies, one handler after the other. Between two handlers the     *)
(* registry serves the rows: a handler that changes what an agent is ends  *)
(* with a reload, and one that does not writes back the entry it read.     *)
(* The count of quality events is in the row from the moment of the event, *)
(* so that every entry to be saved carries it already.                     *)
(***************************************************************************)
\* What a process runs, by its rows of agents.
Agents(column) ==
    [a \in Ids |->
        IF Dynamic /\ Exists(column[a]) /\ column[a].enabled THEN column[a].content
        ELSE IF a \in Filed THEN FileText ELSE NoAgent]

SameAgent(row, old) ==
    Exists(row) /\ Exists(old) /\ row.content = old.content /\ row.enabled = old.enabled

SavesAgent(h) == h \in Saves /\ h.kind = "agent"
Repeats(column) == {h \in Steps : SavesAgent(h) => SameAgent(h.row, column[h.id])}
Carries(count) == {h \in Steps : SavesAgent(h) => h.row.quality = count[h.id]}
Lasting == {h \in Steps : h.do \notin {"usage", "policy"}}

\* The handler ends with a reload.
Reloads(steps) == steps \in Seq(Lasting) /\ steps # << >> /\ steps[Len(steps)] = Reload

Counted(column, count) ==
    \A a \in Ids : column[a].quality = count[a] /\ (~Exists(column[a]) => count[a] = 0)

\* One process: its agents, its quality events, the steps it has left and its registry.
Kept(column, count, steps, served) ==
    /\ Counted(column, count)
    /\ steps \in Seq(Carries(count))
    /\ \/ served = Agents(column) /\ steps \in Seq(Repeats(column))
       \/ Reloads(steps)

MemoryInv ==
    /\ registry \in [Procs -> [Ids -> Contents \cup {NoAgent}]]
    /\ samples \in [Stores -> [Ids -> Nat]]
    /\ ~Persistent => \A p \in Procs : Kept(rows[p]["agent"], samples[p], todo[p], registry[p])

\* Policies: what a handler is about to save is the stored policy with an edit merged in,
\* and only its first step saves it.
Edits == Patches \cup {DefaultPolicy}
NoPolicyStep == {h \in Steps : h.do # "policy"}
MadeOfStored(p) ==
    HasProfile(p) => \E patch \in Edits : merged[p] = MergePolicy(policy[p][Profile], patch)

PolicyInv ==
    /\ DOMAIN policy = Stores /\ DOMAIN merged = Procs
    /\ \A store \in Stores : Profile \in DOMAIN policy[store] => IsPolicy(policy[store][Profile])
    /\ \A p \in Procs : IsPolicy(merged[p])
    /\ \A p \in Procs : /\ todo[p] \in Seq(NoPolicyStep) \/ Tail(todo[p]) \in Seq(NoPolicyStep)
                        /\ ~Persistent => todo[p] \in Seq(NoPolicyStep) \/ MadeOfStored(p)

\* Saves of anything but agents, and the other steps.
Plain == {h \in Steps : ~SavesAgent(h)}

LEMMA PlainIsKept ==
  ASSUME NEW column, NEW count
  PROVE  Plain \subseteq Carries(count) /\ Plain \subseteq Repeats(column)
  BY DEF Plain, Carries, Repeats

LEMMA PlainStep ==
  ASSUME NEW h \in Steps, h.kind # "agent"
  PROVE  h \in Plain
  BY DEF Plain, SavesAgent

LEMMA OneOfSteps ==
  ASSUME NEW S, NEW h, <<h>> \in Seq(S)
  PROVE  h \in S
  <1>1. <<h>>[1] \in S
    OBVIOUS
  <1> QED BY <1>1

LEMMA NoneLeft ==
  ASSUME NEW S, NEW s \in Seq(S)
  PROVE  s = << >> <=> Len(s) = 0
  OBVIOUS

LEMMA FirstOfSteps ==
  ASSUME NEW S, NEW T, NEW a, NEW t \in Seq(T), <<a>> \o t \in Seq(S)
  PROVE  a \in S
  <1>1. Len(<<a>> \o t) = 1 + Len(t) /\ Len(t) \in Nat /\ (<<a>> \o t)[1] = a
    OBVIOUS
  <1>2. 1 \in DOMAIN (<<a>> \o t)
    BY <1>1
  <1> QED BY <1>1, <1>2

LEMMA PublishedSteps ==
  ASSUME NEW kind \in Kinds, NEW id \in Ids
  PROVE  Reloads(Published(kind, id)) /\ Published(kind, id) \in Seq(Plain)
  <1> DEFINE b == Record(kind, id)
             steps == Published(kind, id)
  <1>0. b.do = "audit" /\ Reload.do = "reload" /\ Reload \notin Saves /\ b \notin Saves
        /\ b \in Steps /\ Reload \in Steps
    BY DEF Record, Reload, Saves, Steps
  <1>1. steps = <<b, Reload>>
    BY DEF Published
  <1> HIDE DEF b, steps
  <1>3. b \in Lasting /\ Reload \in Lasting /\ b \in Plain /\ Reload \in Plain
    BY <1>0 DEF Lasting, Plain, SavesAgent
  <1>4. steps \in Seq(Lasting) /\ steps \in Seq(Plain) /\ Len(steps) = 2 /\ steps[2] = Reload
    BY <1>1, <1>3
  <1>5. steps # << >>
    BY <1>1
  <1>6. steps[Len(steps)] = Reload
    BY <1>4
  <1>7. Reloads(steps)
    BY <1>4, <1>5, <1>6 DEF Reloads
  <1> QED BY <1>4, <1>7 DEF steps

LEMMA ReloadSteps == Reloads(<<Reload>>) /\ <<Reload>> \in Seq(Plain) /\ Reload \in Plain
  <1>1. Reload \in Steps /\ Reload.do = "reload" /\ Reload \notin Saves
    BY DEF Reload, Steps, Saves
  <1>2. Reload \in Lasting /\ Reload \in Plain
    BY <1>1 DEF Lasting, Plain, SavesAgent
  <1> QED BY <1>2 DEF Reloads

\* Steps in front of a reload, and the steps after the first one.
LEMMA BeforeReload ==
  ASSUME NEW s \in Seq(Lasting), NEW t, Reloads(t)
  PROVE  Reloads(s \o t)
  <1>1. t \in Seq(Lasting) /\ Len(t) \in Nat /\ Len(t) > 0 /\ t[Len(t)] = Reload
    BY DEF Reloads
  <1>2. s \o t \in Seq(Lasting) /\ Len(s \o t) = Len(s) + Len(t) /\ Len(s) \in Nat
    BY <1>1
  <1>3. (s \o t)[Len(s) + Len(t)] = t[Len(t)]
    BY <1>1, <1>2
  <1>4. s \o t # << >>
    BY <1>1, <1>2, NoneLeft
  <1> QED BY <1>1, <1>2, <1>3, <1>4 DEF Reloads

LEMMA AfterFirst ==
  ASSUME NEW steps, Reloads(steps)
  PROVE  /\ Head(steps) \in Lasting /\ Tail(steps) \in Seq(Lasting)
         /\ Tail(steps) = << >> \/ Reloads(Tail(steps))
         /\ Head(steps).do # "reload" => Reloads(Tail(steps))
  <1>0. PICK rest : rest = Tail(steps)
    OBVIOUS
  <1>1. steps \in Seq(Lasting) /\ Len(steps) \in Nat /\ steps # << >> /\ steps[Len(steps)] = Reload
    BY DEF Reloads
  <1>2. Len(steps) > 0
    BY <1>1, NoneLeft
  <1>3. Head(steps) = steps[1] /\ steps[1] \in Lasting /\ rest \in Seq(Lasting) /\ Len(rest) = Len(steps) - 1
    BY <1>0, <1>1, <1>2
  <1>4. \A i \in 1..(Len(steps) - 1) : rest[i] = steps[i + 1]
    BY <1>0, <1>1, <1>2
  <1>5. CASE Len(steps) = 1
    <2>1. rest = << >>
      BY <1>3, <1>5, NoneLeft
    <2>2. Head(steps) = Reload /\ Reload.do = "reload"
      BY <1>1, <1>3, <1>5 DEF Reload
    <2> QED BY <1>0, <1>3, <2>1, <2>2
  <1>6. CASE Len(steps) > 1
    <2>1. Len(steps) - 1 \in 1..(Len(steps) - 1) /\ Len(steps) - 1 + 1 = Len(steps)
      BY <1>1, <1>6
    <2>2. rest[Len(rest)] = Reload
      BY <1>1, <1>3, <1>4, <2>1
    <2>3. rest # << >>
      BY <1>3, <1>6, NoneLeft
    <2>4. Reloads(rest)
      BY <1>3, <2>2, <2>3 DEF Reloads
    <2> QED BY <1>0, <1>3, <2>4
  <1>7. Len(steps) = 1 \/ Len(steps) > 1
    <2>1. PICK n \in Nat : n = Len(steps)
      BY <1>1
    <2>2. n > 0 => n = 1 \/ n > 1
      OBVIOUS
    <2> QED BY <1>2, <2>1, <2>2
  <1> QED BY <1>5, <1>6, <1>7

\* An edit through the gate, of anything and of what is no agent.
LEMMA EditSteps ==
  ASSUME NEW kind \in Kinds, NEW id \in Ids, NEW row,
         <<Upsert(kind, id, row)>> \o Published(kind, id) \in Seq(Steps)
  PROVE  /\ Upsert(kind, id, row) \in Steps
         /\ Reloads(<<Upsert(kind, id, row)>> \o Published(kind, id))
         /\ kind # "agent" => <<Upsert(kind, id, row)>> \o Published(kind, id) \in Seq(Plain)
         /\ \A count : Upsert(kind, id, row) \in Carries(count)
                          => <<Upsert(kind, id, row)>> \o Published(kind, id) \in Seq(Carries(count))
  <1> DEFINE a == Upsert(kind, id, row)
             t == Published(kind, id)
  <1>0. a.do = "merge" /\ a.kind = kind
    BY DEF Upsert
  <1>1. Reloads(t) /\ t \in Seq(Plain)
    BY PublishedSteps
  <1> HIDE DEF a, t
  <1>2. a \in Steps
    BY <1>1, FirstOfSteps DEF a, t
  <1>3. a \in Lasting /\ (kind # "agent" => a \in Plain)
    BY <1>0, <1>2 DEF Lasting, Plain, SavesAgent
  <1>4. Reloads(<<a>> \o t)
    <2>1. <<a>> \in Seq(Lasting)
      BY <1>3
    <2> QED BY <1>1, <2>1, BeforeReload
  <1>5. kind # "agent" => <<a>> \o t \in Seq(Plain)
    BY <1>1, <1>3
  <1>6. ASSUME NEW count, a \in Carries(count) PROVE <<a>> \o t \in Seq(Carries(count))
    <2>1. t \in Seq(Carries(count))
      BY <1>1, PlainIsKept
    <2> QED BY <1>6, <2>1
  <1> QED BY <1>2, <1>4, <1>5, <1>6 DEF a, t

\* Rows that differ neither in existence nor, if they exist, in content and enabling.
LEMMA AgentsSame ==
  ASSUME NEW c, NEW d,
         \A a \in Ids : /\ Exists(c[a]) <=> Exists(d[a])
                        /\ Exists(c[a]) => c[a].content = d[a].content /\ c[a].enabled = d[a].enabled
  PROVE  Agents(c) = Agents(d)
  BY DEF Agents

LEMMA InMemory ==
  ASSUME ~Persistent, NEW p
  PROVE  /\ Store(p) = p
         /\ HybridRegistry(p) = Agents(rows[p]["agent"])
         /\ \A kind, id : Get(p, kind, id) = rows[p][kind][id]
  BY DEF Store, HybridRegistry, Agents, Get

\* The step of one process in memory: the other processes keep what they have.
LEMMA OneProcess ==
  ASSUME Inv, MemoryInv, ~Persistent, deployment' = deployment,
         NEW p \in Procs, NEW column, NEW count \in [Ids -> Nat], NEW steps,
         NEW served \in [Ids -> Contents \cup {NoAgent}],
         Kept(column, count, steps, served),
         \A q \in Procs : rows'[q]["agent"] = IF q = p THEN column ELSE rows[q]["agent"],
         samples' = [samples EXCEPT ![p] = count],
         todo' = [todo EXCEPT ![p] = steps],
         registry' = [registry EXCEPT ![p] = served]
  PROVE  MemoryInv'
  <1>1. registry' \in [Procs -> [Ids -> Contents \cup {NoAgent}]] /\ samples' \in [Stores -> [Ids -> Nat]]
    BY DEF MemoryInv
  <1>2. p \in Stores /\ DOMAIN samples = Stores /\ DOMAIN registry = Procs /\ DOMAIN todo = Procs
    BY DEF Stores, MemoryInv, Inv, TodoGood
  <1>3. ASSUME NEW q \in Procs
        PROVE  Kept(rows'[q]["agent"], samples'[q], todo'[q], registry'[q])
    <2>1. CASE q = p
      <3>1. rows'[q]["agent"] = column /\ samples'[q] = count /\ todo'[q] = steps /\ registry'[q] = served
        BY <1>2, <2>1
      <3> QED BY <3>1
    <2>2. CASE q # p
      <3>1. q \in Stores
        BY DEF Stores
      <3>2. rows'[q]["agent"] = rows[q]["agent"] /\ samples'[q] = samples[q] /\ todo'[q] = todo[q]
            /\ registry'[q] = registry[q]
        BY <1>2, <2>2, <3>1
      <3> QED BY <3>2 DEF MemoryInv
    <2> QED BY <2>1, <2>2
  <1>4. \A c, n, t, r : Kept(c, n, t, r) => Kept(c, n, t, r)'
    BY DEF Kept, Agents, Dynamic
  <1>5. \A q \in Procs : Kept(rows[q]["agent"], samples[q], todo[q], registry[q])'
    BY <1>3, <1>4
  <1> QED BY <1>1, <1>5 DEF MemoryInv

\* A step that leaves agents, samples and registry as they are.
LEMMA OnlySteps ==
  ASSUME Inv, MemoryInv, ~Persistent, deployment' = deployment,
         NEW p \in Procs, NEW steps,
         Kept(rows[p]["agent"], samples[p], steps, registry[p]),
         \A q \in Procs : rows'[q]["agent"] = rows[q]["agent"],
         samples' = samples, todo' = [todo EXCEPT ![p] = steps], registry' = registry
  PROVE  MemoryInv'
  <1>1. p \in Stores
    BY DEF Stores
  <1>2. samples[p] \in [Ids -> Nat] /\ registry[p] \in [Ids -> Contents \cup {NoAgent}]
    BY <1>1 DEF MemoryInv
  <1>3. samples' = [samples EXCEPT ![p] = samples[p]] /\ registry' = [registry EXCEPT ![p] = registry[p]]
    BY <1>1 DEF MemoryInv
  <1>4. PICK column, count, served : column = rows[p]["agent"] /\ count = samples[p] /\ served = registry[p]
    OBVIOUS
  <1>5. \A q \in Procs : rows'[q]["agent"] = IF q = p THEN column ELSE rows[q]["agent"]
    BY <1>4
  <1>6. /\ Kept(column, count, steps, served) /\ count \in [Ids -> Nat]
        /\ served \in [Ids -> Contents \cup {NoAgent}]
        /\ samples' = [samples EXCEPT ![p] = count] /\ registry' = [registry EXCEPT ![p] = served]
    BY <1>2, <1>3, <1>4
  <1> QED BY <1>5, <1>6, OneProcess

LEMMA IdleServes ==
  ASSUME MemoryInv, ~Persistent, NEW p \in Procs, IsIdle(p)
  PROVE  Counted(rows[p]["agent"], samples[p]) /\ registry[p] = Agents(rows[p]["agent"])
  BY DEF MemoryInv, Kept, IsIdle, Reloads

\* A handler that starts and touches no agent.
LEMMA PlainStart ==
  ASSUME Inv, MemoryInv, ~Persistent, deployment' = deployment,
         NEW p \in Procs, IsIdle(p), NEW steps \in Seq(Plain),
         \A q \in Procs : rows'[q]["agent"] = rows[q]["agent"],
         samples' = samples, todo' = [todo EXCEPT ![p] = steps], registry' = registry
  PROVE  MemoryInv'
  <1>1. steps \in Seq(Carries(samples[p])) /\ steps \in Seq(Repeats(rows[p]["agent"]))
    BY PlainIsKept
  <1>2. Kept(rows[p]["agent"], samples[p], steps, registry[p])
    BY <1>1, IdleServes DEF Kept
  <1> QED BY <1>2, OnlySteps

\* Changing a row of another kind leaves the agents.
LEMMA OtherKindKept ==
  ASSUME Inv, ~Persistent, NEW p \in Procs, NEW kind \in Kinds \ {"agent"}, NEW id \in Ids, NEW row,
         InPlace(p, kind, id, row)
  PROVE  \A q \in Procs : rows'[q]["agent"] = rows[q]["agent"]
  <1>1. Procs \subseteq Stores /\ "agent" \in Kinds
    BY DEF Stores, Kinds
  <1>2. rows \in [Stores -> [Kinds -> [Ids -> Row]]] /\ rows' = [rows EXCEPT ![p][kind][id] = row]
    BY DEF Inv, RowsGood, InPlace
  <1> QED BY <1>1, <1>2

LEMMA TodoOf ==
  ASSUME Inv, Inv', NEW p \in Procs, NEW steps, todo' = [todo EXCEPT ![p] = steps]
  PROVE  steps \in Seq(Steps)
  BY DEF Inv, TodoGood

\* The handlers that start without touching an agent.
LEMMA PlainHandlers ==
  ASSUME Inv, Inv', MemoryInv, ~Persistent, NEW p \in Procs, NEW id \in Ids,
         \/ \E content \in Texts, staging \in Stagings : PutSkill(p, id, content, staging)
         \/ ApproveSkill(p, id)
         \/ Delete(p, "skill", id)
         \/ \E kind \in Kinds, content \in Texts, enabled \in BOOLEAN : PutResource(p, kind, id, content, enabled)
         \/ \E health : HealthCheck(p, id, health)
         \/ RecordMatch(p, id)
         \/ LoadSkill(p, id)
  PROVE  MemoryInv'
  <1> DEFINE Goal == \E steps \in Seq(Plain) :
               /\ deployment' = deployment /\ IsIdle(p)
               /\ \A q \in Procs : rows'[q]["agent"] = rows[q]["agent"]
               /\ samples' = samples /\ todo' = [todo EXCEPT ![p] = steps] /\ registry' = registry
  <1>0. SUFFICES Goal
    BY PlainStart
  <1>a. {"skill", "plan", "server", "tool"} \subseteq Kinds \ {"agent"}
    BY DEF Kinds
  <1>1. ASSUME NEW content \in Texts, NEW staging \in Stagings, PutSkill(p, id, content, staging) PROVE Goal
    <2> DEFINE steps == <<Upsert("skill", id, SkillEntry(content, staging))>> \o Published("skill", id)
    <2>1. deployment' = deployment /\ IsIdle(p) /\ rows' = rows /\ samples' = samples
          /\ todo' = [todo EXCEPT ![p] = steps] /\ registry' = registry
      BY <1>1 DEF PutSkill, Gated, Start
    <2>2. steps \in Seq(Plain)
      BY <1>a, <2>1, TodoOf, EditSteps
    <2> HIDE DEF steps
    <2> QED BY <2>1, <2>2
  <1>2. CASE ApproveSkill(p, id)
    <2> DEFINE entry == [Get(p, "skill", id) EXCEPT !.status = "vetted"]
               steps == <<Upsert("skill", id, entry)>> \o Published("skill", id)
    <2>1. deployment' = deployment /\ IsIdle(p) /\ InPlace(p, "skill", id, entry) /\ samples' = samples
          /\ todo' = [todo EXCEPT ![p] = steps] /\ registry' = registry
      BY <1>2 DEF ApproveSkill, Gated, Start
    <2> HIDE DEF entry
    <2>2. steps \in Seq(Plain)
      BY <1>a, <2>1, TodoOf, EditSteps
    <2>3. \A q \in Procs : rows'[q]["agent"] = rows[q]["agent"]
      BY <1>a, <2>1, OtherKindKept
    <2> HIDE DEF steps
    <2> QED BY <2>1, <2>2, <2>3
  <1>3. CASE Delete(p, "skill", id)
    <2>1. PICK steps, row : /\ todo' = [todo EXCEPT ![p] = steps] /\ InPlace(p, "skill", id, row)
                            /\ steps = <<Reload>> \/ steps = Published("skill", id)
      BY <1>3 DEF Delete, Gated, Start
    <2>2. deployment' = deployment /\ IsIdle(p) /\ samples' = samples /\ registry' = registry
      BY <1>3 DEF Delete, Gated, Start, history
    <2>3. steps \in Seq(Plain)
      BY <1>a, <2>1, ReloadSteps, PublishedSteps
    <2>4. \A q \in Procs : rows'[q]["agent"] = rows[q]["agent"]
      BY <1>a, <2>1, OtherKindKept
    <2> QED BY <2>1, <2>2, <2>3, <2>4
  <1>4. ASSUME NEW kind \in Kinds, NEW content \in Texts, NEW enabled \in BOOLEAN,
               PutResource(p, kind, id, content, enabled)
        PROVE  Goal
    <2> DEFINE steps == <<Upsert(kind, id, ResourceEntry(content, enabled))>> \o Published(kind, id)
    <2>1. deployment' = deployment /\ IsIdle(p) /\ rows' = rows /\ samples' = samples
          /\ todo' = [todo EXCEPT ![p] = steps] /\ registry' = registry /\ kind # "agent"
      BY <1>4 DEF PutResource, Gated, Start, history
    <2>2. steps \in Seq(Plain)
      BY <1>a, <2>1, TodoOf, EditSteps
    <2> HIDE DEF steps
    <2> QED BY <2>1, <2>2
  <1>5. ASSUME NEW health, HealthCheck(p, id, health) PROVE Goal
    <2> DEFINE h == Overwrite("server", id, [Get(p, "server", id) EXCEPT !.status = health])
    <2>1. deployment' = deployment /\ IsIdle(p) /\ rows' = rows /\ samples' = samples
          /\ todo' = [todo EXCEPT ![p] = <<h>>] /\ registry' = registry
      BY <1>5 DEF HealthCheck, Start, history
    <2>2. h.kind # "agent"
      BY DEF Overwrite
    <2> HIDE DEF h
    <2>3. h \in Steps
      BY <2>1, TodoOf, OneOfSteps
    <2>4. <<h>> \in Seq(Plain)
      BY <2>2, <2>3, PlainStep
    <2> QED BY <2>1, <2>4
  <1>6. CASE RecordMatch(p, id)
    <2> DEFINE entry == [Get(p, "plan", id) EXCEPT !.quality = @ + 1]
               h == Upsert("plan", id, entry)
    <2>1. deployment' = deployment /\ IsIdle(p) /\ InPlace(p, "plan", id, entry) /\ samples' = samples
          /\ todo' = [todo EXCEPT ![p] = <<h>>] /\ registry' = registry
      BY <1>6 DEF RecordMatch, Start, history
    <2> HIDE DEF entry
    <2>2. h.kind # "agent"
      BY DEF Upsert
    <2> HIDE DEF h
    <2>3. h \in Steps
      BY <2>1, TodoOf, OneOfSteps
    <2>4. <<h>> \in Seq(Plain)
      BY <2>2, <2>3, PlainStep
    <2>5. \A q \in Procs : rows'[q]["agent"] = rows[q]["agent"]
      BY <1>a, <2>1, OtherKindKept
    <2> QED BY <2>1, <2>4, <2>5
  <1>7. CASE LoadSkill(p, id)
    <2> DEFINE h == [do |-> "usage", id |-> id]
    <2>1. h \in Plain
      BY DEF Plain, SavesAgent, Steps, Saves
    <2>2. <<h>> \in Seq(Plain)
      BY <2>1
    <2>3. deployment' = deployment /\ IsIdle(p) /\ rows' = rows /\ samples' = samples
          /\ todo' = [todo EXCEPT ![p] = <<h>>] /\ registry' = registry
      BY <1>7 DEF LoadSkill, Start
    <2> HIDE DEF h
    <2> QED BY <2>2, <2>3
  <1> HIDE DEF Goal
  <1> QED BY <1>1, <1>2, <1>3, <1>4, <1>5, <1>6, <1>7

LEMMA PlainCommands ==
  ASSUME Inv, MemoryInv, ~Persistent, NEW p \in Procs,
         BuildWriteGate(p) \/ ReloadCatalog(p) \/ \E new : EditPolicy(p, new)
  PROVE  MemoryInv'
  <1> DEFINE Goal == \E steps \in Seq(Plain) :
               /\ deployment' = deployment /\ IsIdle(p)
               /\ \A q \in Procs : rows'[q]["agent"] = rows[q]["agent"]
               /\ samples' = samples /\ todo' = [todo EXCEPT ![p] = steps] /\ registry' = registry
  <1>0. SUFFICES Goal
    BY PlainStart
  <1>1. CASE BuildWriteGate(p)
    <2> DEFINE h == [do |-> "stuck"]
    <2>1. h \in Plain
      BY DEF Plain, SavesAgent, Steps, Saves
    <2>2. <<h>> \in Seq(Plain)
      BY <2>1
    <2>3. deployment' = deployment /\ IsIdle(p) /\ rows' = rows /\ samples' = samples
          /\ todo' = [todo EXCEPT ![p] = <<h>>] /\ registry' = registry
      BY <1>1 DEF BuildWriteGate, Start, history
    <2> HIDE DEF h
    <2> QED BY <2>2, <2>3
  <1>2. CASE ReloadCatalog(p)
    <2>1. deployment' = deployment /\ IsIdle(p) /\ rows' = rows /\ samples' = samples
          /\ todo' = [todo EXCEPT ![p] = <<Reload>>] /\ registry' = registry
      BY <1>2 DEF ReloadCatalog, Start, history
    <2> QED BY <2>1, ReloadSteps
  <1>3. ASSUME NEW new, EditPolicy(p, new) PROVE Goal
    <2> DEFINE a == [do |-> "policy"]
               b == Record("profile", Profile)
               steps == <<a, b, Reload>>
    <2>1. deployment' = deployment /\ IsIdle(p) /\ rows' = rows /\ samples' = samples
          /\ todo' = [todo EXCEPT ![p] = steps] /\ registry' = registry
      BY <1>3 DEF EditPolicy, Gated, Start, history
    <2>2. a \in Plain /\ b \in Plain
      BY DEF Plain, SavesAgent, Steps, Saves, Record
    <2> HIDE DEF a, b
    <2>3. steps \in Seq(Plain)
      BY <2>2, ReloadSteps
    <2> HIDE DEF steps
    <2> QED BY <2>1, <2>3
  <1> HIDE DEF Goal
  <1> QED BY <1>1, <1>2, <1>3

\* activate_plan touches plans alone, and reloads when there is one.
LEMMA ActivatePlanKept ==
  ASSUME Inv, MemoryInv, ~Persistent, NEW p \in Procs, NEW id \in Ids, ActivatePlan(p, id)
  PROVE  MemoryInv'
  <1>1. PICK column : rows' = [rows EXCEPT ![p]["plan"] = column]
    BY InMemory DEF ActivatePlan
  <1>2. \A q \in Procs : rows'[q]["agent"] = rows[q]["agent"]
    <2>1. rows \in [Stores -> [Kinds -> [Ids -> Row]]] /\ Procs \subseteq Stores /\ "agent" \in Kinds
      BY DEF Inv, RowsGood, Stores, Kinds
    <2> QED BY <1>1, <2>1
  <1>3. PICK steps : todo' = [todo EXCEPT ![p] = steps] /\ (steps = <<Reload>> \/ steps = << >>)
    BY DEF ActivatePlan, Start
  <1>4. steps \in Seq(Plain)
    <2>1. << >> \in Seq(Plain)
      OBVIOUS
    <2> QED BY <1>3, <2>1, ReloadSteps
  <1>5. deployment' = deployment /\ IsIdle(p) /\ samples' = samples /\ registry' = registry
    BY DEF ActivatePlan, Start, history
  <1> QED BY <1>2, <1>3, <1>4, <1>5, PlainStart

\* A PUT agent carries the stored quality and is reloaded.
LEMMA PutAgentKept ==
  ASSUME Inv, Inv', MemoryInv, ~Persistent, NEW p \in Procs, NEW a \in Ids, NEW content \in Texts,
         NEW enabled \in BOOLEAN, PutAgent(p, a, content, enabled)
  PROVE  MemoryInv'
  <1> DEFINE entry == AgentEntry(p, a, content, enabled)
             h == Upsert("agent", a, entry)
             steps == <<h>> \o Published("agent", a)
  <1>1. "agent" \in Kinds
    BY DEF Kinds
  <1>2. deployment' = deployment /\ IsIdle(p) /\ rows' = rows /\ samples' = samples
        /\ todo' = [todo EXCEPT ![p] = steps] /\ registry' = registry
    BY DEF PutAgent, Gated, Start, history
  <1>3. entry.quality = Get(p, "agent", a).quality
    BY DEF AgentEntry, Entry, NoRow
  <1>4. h.id = a /\ h.row = entry
    BY DEF Upsert
  <1>5. entry.quality = samples[p][a]
    BY <1>2, <1>3, IdleServes, InMemory DEF Counted
  <1> HIDE DEF entry
  <1>6. h \in Steps /\ Reloads(steps) /\ (h \in Carries(samples[p]) => steps \in Seq(Carries(samples[p])))
    BY <1>1, <1>2, TodoOf, EditSteps
  <1> HIDE DEF h
  <1>7. h \in Carries(samples[p])
    BY <1>4, <1>5, <1>6 DEF Carries
  <1>8. Kept(rows[p]["agent"], samples[p], steps, registry[p])
    BY <1>2, <1>6, <1>7, IdleServes DEF Kept
  <1> HIDE DEF steps
  <1> QED BY <1>2, <1>8, OnlySteps

LEMMA RowsTyped ==
  ASSUME Inv
  PROVE  rows \in [Stores -> [Kinds -> [Ids -> Row]]] /\ Procs \subseteq Stores /\ "agent" \in Kinds
  BY DEF Inv, RowsGood, Stores, Kinds

LEMMA ColumnTyped ==
  ASSUME Inv, NEW p \in Procs
  PROVE  rows[p]["agent"] \in [Ids -> Row]
  BY DEF Inv, RowsGood, Stores, Kinds

LEMMA DeleteAgentKept ==
  ASSUME Inv, MemoryInv, ~Persistent, NEW p \in Procs, NEW a \in Ids, Delete(p, "agent", a)
  PROVE  MemoryInv'
  <1> DEFINE old == Get(p, "agent", a)
             entry == [old EXCEPT !.enabled = FALSE]
             kept == IF Exists(entry) THEN entry ELSE NoRow
  <1>1. "agent" \in Kinds /\ p \in Stores
    BY DEF Kinds, Stores
  <1>2. old = rows[p]["agent"][a] /\ old \in Row
    BY <1>1, InMemory, ReadGood
  <1>3. InPlace(p, "agent", a, kept) /\ deployment' = deployment /\ IsIdle(p)
        /\ samples' = samples /\ registry' = registry
    BY DEF Delete, Gated, Start, history
  <1>4. PICK steps : todo' = [todo EXCEPT ![p] = steps] /\ (steps = <<Reload>> \/ steps = Published("agent", a))
    BY DEF Delete, Gated, Start
  <1> HIDE DEF old
  <1>5. entry.quality = old.quality /\ (Exists(entry) <=> Exists(old))
    BY <1>2 DEF Row, Exists
  <1> HIDE DEF entry
  <1>6. PICK column, count, row : column = rows[p]["agent"] /\ count = samples[p] /\ row = kept
    OBVIOUS
  <1>7. column \in [Ids -> Row] /\ count \in [Ids -> Nat] /\ Counted(column, count)
        /\ registry[p] \in [Ids -> Contents \cup {NoAgent}]
    BY <1>1, <1>3, <1>6, ColumnTyped, IdleServes DEF MemoryInv
  <1>8. row.quality = count[a] /\ (~Exists(row) => count[a] = 0)
    <2>1. CASE Exists(old)
      BY <1>2, <1>5, <1>6, <1>7, <2>1 DEF Counted
    <2>2. CASE ~Exists(old)
      <3>1. row = NoRow /\ NoRow.quality = 0 /\ count[a] = 0
        BY <1>2, <1>5, <1>6, <1>7, <2>2 DEF Counted, NoRow
      <3> QED BY <3>1
    <2> QED BY <2>1, <2>2
  <1>9. Counted([column EXCEPT ![a] = row], count)
    BY <1>7, <1>8 DEF Counted
  <1>10. Reloads(steps) /\ steps \in Seq(Carries(count))
    <2>1. Reloads(steps) /\ steps \in Seq(Plain)
      BY <1>1, <1>4, ReloadSteps, PublishedSteps
    <2>2. Plain \subseteq Carries(count)
      BY PlainIsKept
    <2> QED BY <2>1, <2>2
  <1>11. PICK changed, served : changed = [column EXCEPT ![a] = row] /\ served = registry[p]
    OBVIOUS
  <1>12. Kept(changed, count, steps, served)
    BY <1>9, <1>10, <1>11 DEF Kept
  <1>13. \A q \in Procs : rows'[q]["agent"] = IF q = p THEN changed ELSE rows[q]["agent"]
    <2>1. rows' = [rows EXCEPT ![p]["agent"][a] = row]
      BY <1>3, <1>6 DEF InPlace
    <2>2. \A q \in Procs : rows'[q]["agent"] =
            IF q = p THEN [rows[p]["agent"] EXCEPT ![a] = row] ELSE rows[q]["agent"]
      BY <2>1, RowsTyped
    <2>3. changed = [rows[p]["agent"] EXCEPT ![a] = row]
      BY <1>6, <1>11
    <2> QED BY <2>2, <2>3
  <1>14. samples' = [samples EXCEPT ![p] = count] /\ registry' = [registry EXCEPT ![p] = served]
    BY <1>1, <1>3, <1>6, <1>11 DEF MemoryInv
  <1>15. served \in [Ids -> Contents \cup {NoAgent}]
    BY <1>7, <1>11
  <1> QED BY <1>3, <1>4, <1>7, <1>12, <1>13, <1>14, <1>15, OneProcess

\* A quality event is counted in the row at once, and written back as it is there.
LEMMA RecordQualityKept ==
  ASSUME Inv, Inv', MemoryInv, ~Persistent, NEW p \in Procs, NEW a \in Ids, RecordQuality(p, a)
  PROVE  MemoryInv'
  <1> DEFINE old == Get(p, "agent", a)
             entry == [old EXCEPT !.quality = @ + 1]
             h == Upsert("agent", a, entry)
  <1>1. "agent" \in Kinds /\ p \in Stores
    BY DEF Kinds, Stores
  <1>2. old = rows[p]["agent"][a] /\ old \in Row
    BY <1>1, InMemory, ReadGood
  <1>3. InPlace(p, "agent", a, entry) /\ deployment' = deployment /\ IsIdle(p) /\ Exists(entry)
        /\ samples' = [samples EXCEPT ![p][a] = @ + 1] /\ registry' = registry
        /\ todo' = [todo EXCEPT ![p] = <<h>>]
    BY InMemory DEF RecordQuality, Start
  <1> HIDE DEF old
  <1>4. entry.quality = old.quality + 1 /\ entry.content = old.content /\ entry.enabled = old.enabled
        /\ entry.version = old.version
    BY <1>2 DEF Row
  <1>5. h.id = a /\ h.row = entry
    BY DEF Upsert
  <1> HIDE DEF entry
  <1>6. Exists(old)
    BY <1>3, <1>4 DEF Exists
  <1> HIDE DEF h
  <1>7. h \in Steps
    BY <1>3, TodoOf, OneOfSteps
  <1>8. PICK column, count, row, served :
          column = rows[p]["agent"] /\ count = samples[p] /\ row = entry /\ served = registry[p]
    OBVIOUS
  <1>9. column \in [Ids -> Row] /\ count \in [Ids -> Nat] /\ Counted(column, count)
        /\ served \in [Ids -> Contents \cup {NoAgent}] /\ served = Agents(column)
    BY <1>1, <1>3, <1>8, ColumnTyped, IdleServes DEF MemoryInv
  <1>10. PICK changed, more : changed = [column EXCEPT ![a] = row] /\ more = [count EXCEPT ![a] = count[a] + 1]
    OBVIOUS
  <1>11. more \in [Ids -> Nat] /\ more[a] = count[a] + 1 /\ changed[a] = row
         /\ \A b \in Ids \ {a} : more[b] = count[b] /\ changed[b] = column[b]
    BY <1>9, <1>10
  <1>12. row.quality = more[a] /\ Exists(row)
    BY <1>2, <1>3, <1>4, <1>8, <1>9, <1>11 DEF Counted
  <1>13. Counted(changed, more)
    BY <1>9, <1>11, <1>12 DEF Counted
  <1>14. <<h>> \in Seq(Carries(more))
    <2>1. h \in Carries(more)
      BY <1>5, <1>7, <1>8, <1>12 DEF Carries
    <2> QED BY <2>1
  <1>15. <<h>> \in Seq(Repeats(changed))
    <2>1. SameAgent(h.row, changed[h.id])
      BY <1>5, <1>8, <1>11, <1>12 DEF SameAgent
    <2>2. h \in Repeats(changed)
      BY <1>7, <2>1 DEF Repeats
    <2> QED BY <2>2
  <1>16. served = Agents(changed)
    <2>1. row.content = column[a].content /\ row.enabled = column[a].enabled /\ Exists(column[a])
      BY <1>2, <1>4, <1>6, <1>8
    <2>2. Agents(column) = Agents(changed)
      BY <1>11, <1>12, <2>1, AgentsSame
    <2> QED BY <1>9, <2>2
  <1>17. Kept(changed, more, <<h>>, served)
    BY <1>13, <1>14, <1>15, <1>16 DEF Kept
  <1>18. \A q \in Procs : rows'[q]["agent"] = IF q = p THEN changed ELSE rows[q]["agent"]
    <2>1. rows' = [rows EXCEPT ![p]["agent"][a] = row]
      BY <1>3, <1>8 DEF InPlace
    <2>2. \A q \in Procs : rows'[q]["agent"] =
            IF q = p THEN [rows[p]["agent"] EXCEPT ![a] = row] ELSE rows[q]["agent"]
      BY <2>1, RowsTyped
    <2>3. changed = [rows[p]["agent"] EXCEPT ![a] = row]
      BY <1>8, <1>10
    <2> QED BY <2>2, <2>3
  <1>19. samples' = [samples EXCEPT ![p] = more] /\ registry' = [registry EXCEPT ![p] = served]
    BY <1>1, <1>3, <1>8, <1>10 DEF MemoryInv
  <1>20. PICK steps : steps = <<h>>
    OBVIOUS
  <1>21. todo' = [todo EXCEPT ![p] = steps] /\ Kept(changed, more, steps, served) /\ deployment' = deployment
    BY <1>3, <1>17, <1>20
  <1> QED BY <1>9, <1>11, <1>18, <1>19, <1>21, OneProcess

\* What the first step leaves of the steps that are left.
LEMMA TailKept ==
  ASSUME NEW column, NEW count, NEW steps, NEW served, steps # << >>,
         Kept(column, count, steps, served), Head(steps).do # "reload"
  PROVE  Kept(column, count, Tail(steps), served) /\ Tail(steps) \in Seq(Carries(count))
         /\ Head(steps) \in Carries(count)
  <1>1. steps \in Seq(Carries(count)) /\ Counted(column, count)
    BY DEF Kept
  <1>2. Tail(steps) \in Seq(Carries(count)) /\ Head(steps) \in Carries(count)
    BY <1>1
  <1>3. CASE served = Agents(column) /\ steps \in Seq(Repeats(column))
    <2>1. Tail(steps) \in Seq(Repeats(column))
      BY <1>3
    <2> QED BY <1>1, <1>2, <1>3, <2>1 DEF Kept
  <1>4. CASE Reloads(steps)
    <2>1. Reloads(Tail(steps))
      BY <1>4, AfterFirst
    <2> QED BY <1>1, <1>2, <2>1 DEF Kept
  <1> QED BY <1>3, <1>4 DEF Kept

LEMMA QuietKept ==
  ASSUME Inv, MemoryInv, ~Persistent, NEW p \in Procs, WritePolicy(p) \/ WriteAudit(p)
  PROVE  MemoryInv'
  <1>1. PICK steps : steps = Tail(todo[p])
    OBVIOUS
  <1>2. todo[p] # << >> /\ Head(todo[p]).do # "reload"
    BY DEF WritePolicy, WriteAudit, At, IsIdle
  <1>3. Kept(rows[p]["agent"], samples[p], todo[p], registry[p])
    BY DEF MemoryInv
  <1>4. Kept(rows[p]["agent"], samples[p], steps, registry[p])
    BY <1>1, <1>2, <1>3, TailKept
  <1>5. deployment' = deployment /\ rows' = rows /\ samples' = samples /\ registry' = registry
        /\ todo' = [todo EXCEPT ![p] = steps]
    BY <1>1 DEF WritePolicy, WriteAudit, Proceed, history
  <1> QED BY <1>4, <1>5, OnlySteps

LEMMA CountUseKept ==
  ASSUME Inv, MemoryInv, ~Persistent, NEW p \in Procs, CountUse(p)
  PROVE  MemoryInv'
  <1>1. At(p, "usage") /\ deployment' = deployment /\ samples' = samples /\ registry' = registry
        /\ todo' = [todo EXCEPT ![p] = << >>]
    BY DEF CountUse, Proceed, history
  <1>2. PICK row : InPlace(p, "skill", Head(todo[p]).id, row)
    BY DEF CountUse
  <1>3. Head(todo[p]).id \in Ids
    BY <1>1, HeadGood
  <1>4. \A q \in Procs : rows'[q]["agent"] = rows[q]["agent"]
    <2>1. "skill" \in Kinds \ {"agent"}
      BY DEF Kinds
    <2> QED BY <1>2, <1>3, <2>1, OtherKindKept
  <1>5. ~Reloads(todo[p])
    <2>1. Reloads(todo[p]) => Head(todo[p]) \in Lasting
      BY AfterFirst
    <2> QED BY <1>1, <2>1 DEF At, Lasting
  <1>6. Kept(rows[p]["agent"], samples[p], << >>, registry[p])
    BY <1>5 DEF MemoryInv, Kept
  <1>7. PICK steps : steps = << >>
    OBVIOUS
  <1>8. Kept(rows[p]["agent"], samples[p], steps, registry[p]) /\ todo' = [todo EXCEPT ![p] = steps]
    BY <1>1, <1>6, <1>7
  <1> QED BY <1>1, <1>4, <1>8, OnlySteps

\* The reload serves the rows as they are.
LEMMA ReloadKept ==
  ASSUME Inv, MemoryInv, ~Persistent, NEW p \in Procs, ReloadRegistry(p)
  PROVE  MemoryInv'
  <1>1. p \in Stores
    BY DEF Stores
  <1>2. PICK column, count, steps, served :
          /\ column = rows[p]["agent"] /\ count = samples[p]
          /\ steps = Tail(todo[p]) /\ served = Agents(column)
    OBVIOUS
  <1>3. todo[p] # << >> /\ deployment' = deployment /\ rows' = rows /\ samples' = samples
        /\ todo' = [todo EXCEPT ![p] = steps] /\ registry' = [registry EXCEPT ![p] = served]
    BY <1>2, InMemory DEF ReloadRegistry, At, IsIdle, Proceed, history
  <1>4. column \in [Ids -> Row] /\ count \in [Ids -> Nat]
    BY <1>1, <1>2, ColumnTyped DEF MemoryInv
  <1>5. served \in [Ids -> Contents \cup {NoAgent}]
    BY <1>2, <1>4 DEF Agents, Row, Contents
  <1>6. PICK left : left = todo[p]
    OBVIOUS
  <1>7. Counted(column, count) /\ left \in Seq(Carries(count)) /\ left # << >>
        /\ (left \in Seq(Repeats(column)) \/ Reloads(left)) /\ steps = Tail(left)
    BY <1>2, <1>3, <1>6 DEF MemoryInv, Kept
  <1>8. steps \in Seq(Carries(count))
    BY <1>7
  <1>9. Reloads(left) => steps = << >> \/ Reloads(steps)
    BY <1>7, AfterFirst
  <1>10. left \in Seq(Repeats(column)) => steps \in Seq(Repeats(column))
    BY <1>7
  <1>11. << >> \in Seq(Repeats(column))
    OBVIOUS
  <1>12. Kept(column, count, steps, served)
    BY <1>2, <1>7, <1>8, <1>9, <1>10, <1>11 DEF Kept
  <1>13. \A q \in Procs : rows'[q]["agent"] = IF q = p THEN column ELSE rows[q]["agent"]
    BY <1>2, <1>3
  <1>14. samples' = [samples EXCEPT ![p] = count]
    BY <1>1, <1>2, <1>3 DEF MemoryInv
  <1> QED BY <1>3, <1>4, <1>5, <1>12, <1>13, <1>14, OneProcess

\* Merging an agent keeps what it says, and the count is the same before and after.
LEMMA MergedKeeps ==
  ASSUME NEW new \in Row, NEW old \in Row, Exists(new)
  PROVE  LET row == Merged("agent", new, old) IN
         /\ row.content = new.content /\ row.enabled = new.enabled /\ Exists(row)
         /\ row.quality = new.quality \/ row.quality = old.quality
  <1> DEFINE both == [new EXCEPT !.version = old.version + 1, !.quality = old.quality]
             row == Merged("agent", new, old)
  <1>1. row = new \/ row = both
    BY DEF Merged
  <1>2. old.version + 1 \in Nat \ {0}
    BY DEF Row
  <1>3. both.content = new.content /\ both.enabled = new.enabled /\ both.quality = old.quality
        /\ both.version = old.version + 1
    BY DEF Row
  <1> HIDE DEF both, row
  <1>4. Exists(both)
    BY <1>2, <1>3 DEF Exists
  <1>5. /\ row.content = new.content /\ row.enabled = new.enabled /\ Exists(row)
        /\ row.quality = new.quality \/ row.quality = old.quality
    BY <1>1, <1>3, <1>4
  <1> QED BY <1>5 DEF row

LEMMA MergeKept ==
  ASSUME Inv, Inv', MemoryInv, ~Persistent, NEW p \in Procs, Merge(p)
  PROVE  MemoryInv'
  <1> DEFINE h == Head(todo[p])
             new == Merged(h.kind, h.row, Get(p, h.kind, h.id))
             g == Overwrite(h.kind, h.id, new)
  <1>1. At(p, "merge") /\ todo[p] # << >> /\ h.do = "merge"
    BY DEF Merge, At, IsIdle
  <1>2. h.kind \in Kinds /\ h.id \in Ids /\ h.row \in Row /\ Exists(h.row) /\ h \in Steps
    BY <1>1, HeadGood
  <1>3. h \in Saves
    BY <1>1, <1>2 DEF Steps, Saves
  <1>4. Get(p, h.kind, h.id) \in Row /\ Get(p, h.kind, h.id) = rows[p][h.kind][h.id]
    BY <1>2, ReadGood, InMemory
  <1>5. g.do = "write" /\ g.kind = h.kind /\ g.id = h.id /\ g.row = new
    BY DEF Overwrite
  <1>6. deployment' = deployment /\ rows' = rows /\ samples' = samples /\ registry' = registry
        /\ todo' = [todo EXCEPT ![p] = <<g>> \o Tail(todo[p])]
    BY DEF Merge, Proceed, history
  <1> HIDE DEF h, g
  <1>7. PICK column, count, left, served :
          /\ column = rows[p]["agent"] /\ count = samples[p] /\ left = todo[p] /\ served = registry[p]
    OBVIOUS
  <1>8. Kept(column, count, left, served)
    BY <1>7 DEF MemoryInv
  <1>9. left # << >> /\ Head(left) = h
    BY <1>1, <1>7 DEF h
  <1>10. PICK rest : rest = Tail(left)
    OBVIOUS
  <1>11. Kept(column, count, rest, served) /\ rest \in Seq(Carries(count)) /\ h \in Carries(count)
    BY <1>1, <1>8, <1>9, <1>10, TailKept
  <1>12. PICK steps : steps = <<g>> \o rest
    OBVIOUS
  <1>13. todo' = [todo EXCEPT ![p] = steps]
    BY <1>6, <1>7, <1>10, <1>12
  <1>14. g \in Steps
    <2>1. steps \in Seq(Steps)
      BY <1>13, TodoOf
    <2> QED BY <1>11, <1>12, <2>1, FirstOfSteps
  <1>15. h.kind = "agent" => /\ new.content = h.row.content /\ new.enabled = h.row.enabled /\ Exists(new)
                             /\ new.quality = h.row.quality \/ new.quality = column[h.id].quality
    BY <1>2, <1>4, <1>7, MergedKeeps
  <1> HIDE DEF new
  <1>16. g \in Carries(count)
    <2>1. CASE h.kind # "agent"
      BY <1>5, <1>14, <2>1, PlainStep, PlainIsKept
    <2>2. CASE h.kind = "agent"
      <3>1. h.row.quality = count[h.id]
        BY <1>3, <1>11, <2>2 DEF Carries, SavesAgent
      <3>2. column[h.id].quality = count[h.id]
        BY <1>2, <1>8 DEF Kept, Counted
      <3> QED BY <1>5, <1>14, <1>15, <2>2, <3>1, <3>2 DEF Carries
    <2> QED BY <2>1, <2>2
  <1>17. steps \in Seq(Carries(count))
    BY <1>11, <1>12, <1>16
  <1>18. CASE served = Agents(column) /\ left \in Seq(Repeats(column))
    <2>1. h \in Repeats(column) /\ rest \in Seq(Repeats(column))
      BY <1>9, <1>10, <1>18
    <2>2. g \in Repeats(column)
      <3>1. CASE h.kind # "agent"
        BY <1>5, <1>14, <3>1, PlainStep, PlainIsKept
      <3>2. CASE h.kind = "agent"
        <4>1. SameAgent(h.row, column[h.id])
          BY <1>3, <2>1, <3>2 DEF Repeats, SavesAgent
        <4>2. SameAgent(g.row, column[g.id])
          BY <1>5, <1>15, <3>2, <4>1 DEF SameAgent
        <4> QED BY <1>14, <4>2 DEF Repeats
      <3> QED BY <3>1, <3>2
    <2>3. steps \in Seq(Repeats(column))
      BY <1>12, <2>1, <2>2
    <2>4. Kept(column, count, steps, served)
      BY <1>8, <1>17, <1>18, <2>3 DEF Kept
    <2> QED BY <1>6, <1>7, <1>13, <2>4, OnlySteps
  <1>19. CASE Reloads(left)
    <2>1. Reloads(rest)
      BY <1>1, <1>9, <1>10, <1>19, AfterFirst
    <2>2. g \in Lasting
      BY <1>5, <1>14 DEF Lasting
    <2>3. <<g>> \in Seq(Lasting)
      BY <2>2
    <2>4. Reloads(steps)
      BY <1>12, <2>1, <2>3, BeforeReload
    <2>5. Kept(column, count, steps, served)
      BY <1>8, <1>17, <2>4 DEF Kept
    <2> QED BY <1>6, <1>7, <1>13, <2>5, OnlySteps
  <1> QED BY <1>8, <1>18, <1>19 DEF Kept

\* Writing an agent: it says what the row says already, or a reload is to come.
LEMMA WriteKept ==
  ASSUME Inv, MemoryInv, ~Persistent, NEW p \in Procs, Write(p)
  PROVE  MemoryInv'
  <1> DEFINE h == Head(todo[p])
  <1>1. At(p, "write") /\ todo[p] # << >> /\ h.do = "write"
    BY DEF Write, At, IsIdle
  <1>2. h.kind \in Kinds /\ h.id \in Ids /\ h.row \in Row /\ Exists(h.row) /\ h \in Steps
    BY <1>1, HeadGood
  <1>3. h \in Saves /\ p \in Stores
    BY <1>1, <1>2 DEF Steps, Saves, Stores
  <1>4. deployment' = deployment /\ samples' = samples /\ registry' = registry
        /\ todo' = [todo EXCEPT ![p] = Tail(todo[p])]
        /\ rows' = [rows EXCEPT ![p][h.kind][h.id] = Saved(h.row)]
    BY InMemory DEF Write, Proceed, history
  <1> HIDE DEF h
  <1>5. PICK column, count, left, served, rest :
          /\ column = rows[p]["agent"] /\ count = samples[p] /\ left = todo[p] /\ served = registry[p]
          /\ rest = Tail(left)
    OBVIOUS
  <1>6. Kept(column, count, left, served) /\ column \in [Ids -> Row] /\ count \in [Ids -> Nat]
        /\ served \in [Ids -> Contents \cup {NoAgent}]
    BY <1>3, <1>5, ColumnTyped DEF MemoryInv
  <1>7. left # << >> /\ Head(left) = h
    BY <1>1, <1>5 DEF h
  <1>8. Kept(column, count, rest, served) /\ rest \in Seq(Carries(count)) /\ h \in Carries(count)
    BY <1>1, <1>5, <1>6, <1>7, TailKept
  <1>9. todo' = [todo EXCEPT ![p] = rest]
    BY <1>4, <1>5
  <1>10. CASE h.kind # "agent"
    <2>1. \A q \in Procs : rows'[q]["agent"] = rows[q]["agent"]
      BY <1>2, <1>4, <1>10, RowsTyped
    <2> QED BY <1>4, <1>5, <1>8, <1>9, <2>1, OnlySteps
  <1>11. CASE h.kind = "agent"
    <2>1. PICK a, new : a = h.id /\ new = Saved(h.row)
      OBVIOUS
    <2>2. new.quality = h.row.quality /\ new.content = h.row.content /\ new.enabled = h.row.enabled
          /\ new.version = h.row.version
      BY <1>2, <2>1 DEF Saved, Row
    <2>3. Exists(new)
      BY <1>2, <2>2 DEF Exists
    <2>4. PICK changed : changed = [column EXCEPT ![a] = new]
      OBVIOUS
    <2>5. a \in Ids /\ changed[a] = new /\ \A b \in Ids \ {a} : changed[b] = column[b]
      BY <1>2, <1>6, <2>1, <2>4
    <2>6. new.quality = count[a]
      BY <1>3, <1>8, <1>11, <2>1, <2>2 DEF Carries, SavesAgent
    <2>7. Counted(changed, count)
      BY <1>6, <2>3, <2>5, <2>6 DEF Kept, Counted
    <2>8. \A q \in Procs : rows'[q]["agent"] = IF q = p THEN changed ELSE rows[q]["agent"]
      <3>1. rows' = [rows EXCEPT ![p]["agent"][a] = new]
        BY <1>4, <1>11, <2>1
      <3>2. \A q \in Procs : rows'[q]["agent"] =
              IF q = p THEN [rows[p]["agent"] EXCEPT ![a] = new] ELSE rows[q]["agent"]
        BY <3>1, RowsTyped
      <3>3. changed = [rows[p]["agent"] EXCEPT ![a] = new]
        BY <1>5, <2>4
      <3> QED BY <3>2, <3>3
    <2>9. samples' = [samples EXCEPT ![p] = count] /\ registry' = [registry EXCEPT ![p] = served]
      BY <1>3, <1>4, <1>5 DEF MemoryInv
    <2>10. Kept(changed, count, rest, served)
      <3>1. CASE served = Agents(column) /\ left \in Seq(Repeats(column))
        <4>1. h \in Repeats(column) /\ rest \in Seq(Repeats(column))
          <5>1. rest = Tail(left)
            BY <1>5
          <5> QED BY <1>7, <3>1, <5>1
        <4>2. SameAgent(h.row, column[a])
          BY <1>3, <1>11, <2>1, <4>1 DEF Repeats, SavesAgent
        <4>3. Exists(column[a]) /\ new.content = column[a].content /\ new.enabled = column[a].enabled
          BY <2>2, <4>2 DEF SameAgent
        <4>4. Agents(changed) = Agents(column)
          BY <2>3, <2>5, <4>3, AgentsSame
        <4>5. \A b \in Ids : \A row : SameAgent(row, column[b]) => SameAgent(row, changed[b])
          BY <2>3, <2>5, <4>3 DEF SameAgent
        <4>6. \A g : SavesAgent(g) => g.id \in Ids
          BY DEF SavesAgent, Saves
        <4>7. Repeats(column) \subseteq Repeats(changed)
          BY <4>5, <4>6 DEF Repeats
        <4>8. rest \in Seq(Repeats(changed))
          BY <4>1, <4>7
        <4> QED BY <1>8, <2>7, <3>1, <4>4, <4>8 DEF Kept
      <3>2. CASE Reloads(left)
        <4>1. Reloads(rest)
          BY <1>1, <1>5, <1>7, <3>2, AfterFirst
        <4> QED BY <1>8, <2>7, <4>1 DEF Kept
      <3> QED BY <1>6, <3>1, <3>2 DEF Kept
    <2>11. deployment' = deployment
      BY <1>4
    <2> QED BY <1>6, <1>9, <2>8, <2>9, <2>10, <2>11, OneProcess
  <1> QED BY <1>10, <1>11

\* A process that starts again has no rows, no samples and the agents of the files.
LEMMA RestartKept ==
  ASSUME Inv, MemoryInv, ~Persistent, NEW p \in Procs, Restart(p)
  PROVE  MemoryInv'
  <1>1. p \in Stores
    BY DEF Stores
  <1>2. PICK column, count, steps, served :
          /\ column = [id \in Ids |-> NoRow] /\ count = [a \in Ids |-> 0] /\ steps = << >>
          /\ served = [a \in Ids |-> IF a \in Filed THEN FileText ELSE NoAgent]
    OBVIOUS
  <1>3. deployment' = deployment /\ rows' = [rows EXCEPT ![p] = NoRows]
        /\ samples' = [samples EXCEPT ![p] = count] /\ todo' = [todo EXCEPT ![p] = steps]
        /\ registry' = [registry EXCEPT ![p] = served]
    BY <1>2 DEF Restart, Proceed
  <1>4. NoRows["agent"] = column
    BY <1>2 DEF NoRows, Kinds
  <1>5. \A q \in Procs : rows'[q]["agent"] = IF q = p THEN column ELSE rows[q]["agent"]
    BY <1>3, <1>4, RowsTyped
  <1>6. count \in [Ids -> Nat] /\ served \in [Ids -> Contents \cup {NoAgent}]
    BY <1>2 DEF Contents
  <1>7. served = Agents(column)
    <2>1. \A a \in Ids : column[a] = NoRow
      BY <1>2
    <2> QED BY <1>2, <2>1, NoRowGood DEF Agents
  <1>8. Counted(column, count)
    <2>1. NoRow.quality = 0
      BY DEF NoRow
    <2> QED BY <1>2, <2>1 DEF Counted
  <1>9. steps \in Seq(Carries(count)) /\ steps \in Seq(Repeats(column))
    BY <1>2
  <1>10. Kept(column, count, steps, served)
    BY <1>7, <1>8, <1>9 DEF Kept
  <1> QED BY <1>3, <1>5, <1>6, <1>10, OneProcess

LEMMA FanOutSteps ==
  ASSUME NEW kind \in Kinds \ {"agent"}
  PROVE  FanOut(kind) \in Seq(Plain) /\ FanOut(kind) \in Seq(Lasting)
  <1> USE CatalogAssumption
  <1>1. Seeded(kind) \in Row /\ Exists(Seeded(kind))
    BY SeededTyped
  <1>2. \A i \in DOMAIN Manifest : Manifest[i] \in Ids
    OBVIOUS
  <1>3. \A i \in DOMAIN Manifest : /\ FanOut(kind)[i] \in Saves /\ FanOut(kind)[i].kind = kind
                                   /\ FanOut(kind)[i].do = "merge"
    BY <1>1, <1>2 DEF FanOut, Upsert, Saves
  <1>4. \A i \in DOMAIN Manifest : FanOut(kind)[i] \in Plain /\ FanOut(kind)[i] \in Lasting
    BY <1>3 DEF Plain, Lasting, SavesAgent, Steps
  <1>5. FanOut(kind) \in Seq(Plain)
    BY <1>4 DEF FanOut
  <1>6. FanOut(kind) \in Seq(Lasting)
    BY <1>4 DEF FanOut
  <1> QED BY <1>5, <1>6

\* The seed saves no agent after the first transaction and ends with a reload.
LEMMA SeedSteps ==
  ASSUME NEW steps,
         steps = FanOut("skill") \o FanOut("plan") \o FanOut("server") \o FanOut("tool") \o <<Reload>>
  PROVE  Reloads(steps) /\ steps \in Seq(Plain)
  <1> USE CatalogAssumption
  <1>1. {"skill", "plan", "server", "tool"} \subseteq Kinds \ {"agent"}
    BY DEF Kinds
  <1>2. ASSUME NEW kind \in Kinds \ {"agent"}
         PROVE  FanOut(kind) \in Seq(Plain) /\ FanOut(kind) \in Seq(Lasting)
    BY FanOutSteps
  <1>3. Reloads(steps) /\ steps \in Seq(Plain)
    <2>1. PICK s \in Seq(Plain) : s \in Seq(Lasting)
                 /\ s = FanOut("skill") \o FanOut("plan") \o FanOut("server") \o FanOut("tool")
      <3>1. FanOut("skill") \o FanOut("plan") \in Seq(Plain)
            /\ FanOut("skill") \o FanOut("plan") \in Seq(Lasting)
        BY <1>1, <1>2
      <3>2. FanOut("skill") \o FanOut("plan") \o FanOut("server") \in Seq(Plain)
            /\ FanOut("skill") \o FanOut("plan") \o FanOut("server") \in Seq(Lasting)
        BY <1>1, <1>2, <3>1
      <3>3. FanOut("skill") \o FanOut("plan") \o FanOut("server") \o FanOut("tool") \in Seq(Plain)
            /\ FanOut("skill") \o FanOut("plan") \o FanOut("server") \o FanOut("tool") \in Seq(Lasting)
        BY <1>1, <1>2, <3>2
      <3> QED BY <3>3
    <2>2. steps = s \o <<Reload>>
      BY <2>1
    <2>3. Reloads(steps)
      BY <2>1, <2>2, ReloadSteps, BeforeReload
    <2> QED BY <2>1, <2>2, <2>3, ReloadSteps
  <1> QED BY <1>3

\* The seed replaces agents and their samples, and ends with a reload.
LEMMA SeedKept ==
  ASSUME Inv, Inv', MemoryInv, ~Persistent, NEW p \in Procs, Seed(p)
  PROVE  MemoryInv'
  <1> USE CatalogAssumption
  <1>1. p \in Stores /\ "agent" \in Kinds /\ {"skill", "plan", "server", "tool"} \subseteq Kinds \ {"agent"}
    BY DEF Stores, Kinds
  <1>2. PICK old, before : old = rows[p]["agent"] /\ before = samples[p]
    OBVIOUS
  <1>3. PICK column, count, served :
          /\ column = [a \in Ids |-> IF a \in Filed THEN Seeded("agent") ELSE old[a]]
          /\ count = [a \in Ids |-> IF a \in Filed THEN 0 ELSE before[a]]
          /\ served = registry[p]
    OBVIOUS
  <1>4. PICK steps : steps = FanOut("skill") \o FanOut("plan") \o FanOut("server") \o FanOut("tool") \o <<Reload>>
    OBVIOUS
  <1>5. deployment' = deployment /\ registry' = registry /\ IsIdle(p) /\ todo' = [todo EXCEPT ![p] = steps]
    BY <1>4 DEF Seed, Start
  <1>6. rows' = [rows EXCEPT ![p]["agent"] = column]
    BY <1>1, <1>2, <1>3, InMemory, RowsTyped DEF Seed, SeedAgents
  <1>7. samples' = [samples EXCEPT ![p] = count]
    BY <1>1, <1>2, <1>3, InMemory DEF Seed, MemoryInv
  <1>8. before \in [Ids -> Nat] /\ served \in [Ids -> Contents \cup {NoAgent}] /\ Counted(old, before)
        /\ registry' = [registry EXCEPT ![p] = served]
    BY <1>1, <1>2, <1>3, <1>5, IdleServes DEF MemoryInv
  <1>9. count \in [Ids -> Nat]
    BY <1>3, <1>8
  <1>10. Counted(column, count)
    <2>1. Seeded("agent").quality = 0
      BY DEF Seeded, Entry, NoRow
    <2>2. Exists(Seeded("agent"))
      BY <1>1, SeededTyped
    <2> QED BY <1>3, <1>8, <2>1, <2>2 DEF Counted
  <1>12. Reloads(steps) /\ steps \in Seq(Plain)
    BY <1>4, SeedSteps
  <1>13. steps \in Seq(Carries(count))
    BY <1>12, PlainIsKept
  <1>14. Kept(column, count, steps, served)
    BY <1>10, <1>12, <1>13 DEF Kept
  <1>15. \A q \in Procs : rows'[q]["agent"] = IF q = p THEN column ELSE rows[q]["agent"]
    BY <1>6, RowsTyped
  <1> QED BY <1>5, <1>7, <1>8, <1>9, <1>14, <1>15, OneProcess

\* What a process may do, one operation after the other.
LEMMA Operations ==
  ASSUME Moves
  PROVE  \E p \in Procs :
    \/ CountUse(p) \/ Merge(p) \/ Write(p) \/ WritePolicy(p) \/ WriteAudit(p) \/ ReloadRegistry(p)
    \/ Restart(p) \/ Seed(p) \/ ReloadCatalog(p) \/ BuildWriteGate(p)
    \/ \E patch \in Edits : PutPolicy(p, patch) \/ PutProfile(p, patch)
    \/ \E id \in Ids :
         \/ RecordQuality(p, id) \/ RecordMatch(p, id) \/ LoadSkill(p, id)
         \/ \E content \in Texts, enabled \in BOOLEAN : PutAgent(p, id, content, enabled)
         \/ \E content \in Texts, staging \in Stagings : PutSkill(p, id, content, staging)
         \/ ApproveSkill(p, id)
         \/ \E kind \in {"agent", "skill"} : Delete(p, kind, id)
         \/ \E kind \in Kinds, content \in Texts, enabled \in BOOLEAN : PutResource(p, kind, id, content, enabled)
         \/ ActivatePlan(p, id)
         \/ \E health : HealthCheck(p, id, health)
  <1> DEFINE Op(p) ==
    \/ CountUse(p) \/ Merge(p) \/ Write(p) \/ WritePolicy(p) \/ WriteAudit(p) \/ ReloadRegistry(p)
    \/ Restart(p) \/ Seed(p) \/ ReloadCatalog(p) \/ BuildWriteGate(p)
    \/ \E patch \in Edits : PutPolicy(p, patch) \/ PutProfile(p, patch)
    \/ \E id \in Ids :
         \/ RecordQuality(p, id) \/ RecordMatch(p, id) \/ LoadSkill(p, id)
         \/ \E content \in Texts, enabled \in BOOLEAN : PutAgent(p, id, content, enabled)
         \/ \E content \in Texts, staging \in Stagings : PutSkill(p, id, content, staging)
         \/ ApproveSkill(p, id)
         \/ \E kind \in {"agent", "skill"} : Delete(p, kind, id)
         \/ \E kind \in Kinds, content \in Texts, enabled \in BOOLEAN : PutResource(p, kind, id, content, enabled)
         \/ ActivatePlan(p, id)
         \/ \E health : HealthCheck(p, id, health)
  <1>1. Apis \subseteq Procs
    BY CatalogAssumption
  <1>2. ASSUME NEW p, Step(p) \/ Restart(p) PROVE Op(p)
    BY <1>2 DEF Step
  <1>3. ASSUME NEW p, CatalogCommand(p) PROVE Op(p)
    BY <1>3 DEF CatalogCommand, Edits
  <1>4. ASSUME NEW p, JobHook(p) PROVE Op(p)
    BY <1>4 DEF JobHook
  <1>5. ASSUME NEW p, AgentRequest(p) PROVE Op(p)
    <2>1. \A id, kind : Delete(p, kind, id) => kind \in {"agent", "skill"}
      BY DEF Delete
    <2> QED BY <1>5, <2>1 DEF AgentRequest
  <1>6. ASSUME NEW p, ResourceRequest(p) PROVE Op(p)
    BY <1>6 DEF ResourceRequest, Edits
  <1> HIDE DEF Op
  <1>7. \E p \in Procs : Op(p)
    BY <1>1, <1>2, <1>3, <1>4, <1>5, <1>6 DEF Moves, Handler
  <1> QED BY <1>7 DEF Op

\* In PostgreSQL the invariant is about the types alone.
LEMMA TypesKept ==
  ASSUME Inv, MemoryInv, Persistent, Moves
  PROVE  MemoryInv'
  <1> DEFINE Goal == /\ deployment' = deployment
                     /\ registry' \in [Procs -> [Ids -> Contents \cup {NoAgent}]]
                     /\ samples' \in [Stores -> [Ids -> Nat]]
  <1>0. registry \in [Procs -> [Ids -> Contents \cup {NoAgent}]] /\ samples \in [Stores -> [Ids -> Nat]]
    BY DEF MemoryInv
  <1>1. ASSUME deployment' = deployment, registry' = registry, samples' = samples PROVE Goal
    BY <1>0, <1>1
  <1>2. \A store \in Stores : HybridRegistry(store) \in [Ids -> Contents \cup {NoAgent}]
    BY RowsTyped DEF HybridRegistry, Row, Contents
  <1>3. "postgres" \in Stores /\ \A p \in Procs : Store(p) \in Stores
    BY DEF Store, Stores
  <1>4. ASSUME NEW p \in Procs, ReloadRegistry(p) PROVE Goal
    BY <1>0, <1>2, <1>3, <1>4 DEF ReloadRegistry, history
  <1>5. ASSUME NEW p \in Procs, Restart(p) PROVE Goal
    <2>1. p \in Stores
      BY DEF Stores
    <2>2. deployment' = deployment /\ registry' = [registry EXCEPT ![p] = HybridRegistry("postgres")]
          /\ samples' = [samples EXCEPT ![p] = [a \in Ids |-> 0]]
      BY <1>5 DEF Restart
    <2> QED BY <1>0, <1>2, <1>3, <2>1, <2>2
  <1>6. ASSUME NEW p \in Procs, Seed(p) PROVE Goal
    BY <1>0, <1>3, <1>6 DEF Seed
  <1>7. ASSUME NEW p \in Procs, NEW id \in Ids, RecordQuality(p, id) PROVE Goal
    BY <1>0, <1>3, <1>7 DEF RecordQuality
  <1> HIDE DEF Goal
  <1>8. ASSUME NEW p \in Procs,
               CountUse(p) \/ Merge(p) \/ Write(p) \/ WritePolicy(p) \/ WriteAudit(p)
               \/ ReloadCatalog(p) \/ BuildWriteGate(p)
        PROVE  Goal
    BY <1>1, <1>8 DEF CountUse, Merge, Write, WritePolicy, WriteAudit, ReloadCatalog, BuildWriteGate, history
  <1>9. ASSUME NEW p \in Procs, NEW patch, PutPolicy(p, patch) \/ PutProfile(p, patch) PROVE Goal
    BY <1>1, <1>9 DEF PutPolicy, PutProfile, EditPolicy, history
  <1>10. ASSUME NEW p \in Procs, NEW id \in Ids,
                RecordMatch(p, id) \/ LoadSkill(p, id) \/ ApproveSkill(p, id) \/ ActivatePlan(p, id)
                \/ \E health : HealthCheck(p, id, health)
         PROVE  Goal
    BY <1>1, <1>10 DEF RecordMatch, LoadSkill, ApproveSkill, ActivatePlan, HealthCheck, history
  <1>11. ASSUME NEW p \in Procs, NEW id \in Ids,
                \/ \E content, enabled : PutAgent(p, id, content, enabled)
                \/ \E content, staging : PutSkill(p, id, content, staging)
                \/ \E kind : Delete(p, kind, id)
                \/ \E kind, content, enabled : PutResource(p, kind, id, content, enabled)
         PROVE  Goal
    BY <1>1, <1>11 DEF PutAgent, PutSkill, Delete, PutResource, history
  <1>12. Goal
    BY <1>4, <1>5, <1>6, <1>7, <1>8, <1>9, <1>10, <1>11, Operations
  <1> QED BY <1>12 DEF Goal, MemoryInv, Persistent

\* The empty catalog and its empty registry agree, with nothing counted.
THEOREM MemoryInit == Init => MemoryInv
  <1> SUFFICES ASSUME Init PROVE MemoryInv
    OBVIOUS
  <1>1. registry \in [Procs -> [Ids -> Contents \cup {NoAgent}]] /\ samples \in [Stores -> [Ids -> Nat]]
    BY DEF Init, Contents
  <1>2. ASSUME NEW p \in Procs
        PROVE  Kept(rows[p]["agent"], samples[p], todo[p], registry[p])
    <2>1. PICK column, count : column = [id \in Ids |-> NoRow] /\ count = [a \in Ids |-> 0]
      OBVIOUS
    <2>2. rows[p]["agent"] = column /\ samples[p] = count /\ todo[p] = << >>
      BY <2>1 DEF Init, NoRows, Kinds, Stores
    <2>3. registry[p] = Agents(column)
      BY <2>1, NoRowGood DEF Init, Agents
    <2>4. NoRow.quality = 0
      BY DEF NoRow
    <2>5. Counted(column, count)
      BY <2>1, <2>4 DEF Counted
    <2>6. << >> \in Seq(Carries(count)) /\ << >> \in Seq(Repeats(column))
      OBVIOUS
    <2> QED BY <2>2, <2>3, <2>5, <2>6 DEF Kept
  <1> QED BY <1>1, <1>2 DEF MemoryInv

\* Every step keeps the registry served or a reload ahead, and every count carried.
THEOREM MemoryNext == Inv /\ MemoryInv /\ [Next]_vars => MemoryInv'
  <1> SUFFICES ASSUME Inv, MemoryInv, [Next]_vars PROVE MemoryInv'
    OBVIOUS
  <1>0. Inv'
    BY NextInv
  <1>1. CASE UNCHANGED Others
    <2>1. deployment' = deployment /\ registry' = registry /\ samples' = samples /\ rows' = rows /\ todo' = todo
      BY <1>1 DEF Others, history
    <2> QED BY <2>1 DEF MemoryInv, Kept, Agents, Dynamic, Persistent
  <1>2. CASE Persistent /\ Moves
    BY <1>2, TypesKept
  <1>3. CASE ~Persistent /\ Moves
    <2> USE <1>0, <1>3
    <2>1. ASSUME NEW p \in Procs, CountUse(p) \/ Merge(p) \/ Write(p) \/ WritePolicy(p) \/ WriteAudit(p)
                                  \/ ReloadRegistry(p) \/ Restart(p) \/ Seed(p)
          PROVE  MemoryInv'
      BY <2>1, CountUseKept, MergeKept, WriteKept, QuietKept, ReloadKept, RestartKept, SeedKept
    <2>2. ASSUME NEW p \in Procs, NEW id \in Ids, NEW kind \in {"agent", "skill"}, Delete(p, kind, id)
          PROVE  MemoryInv'
      BY <2>2, DeleteAgentKept, PlainHandlers
    <2>3. ASSUME NEW p \in Procs, NEW id \in Ids,
                 \/ RecordQuality(p, id)
                 \/ ActivatePlan(p, id)
                 \/ \E content \in Texts, enabled \in BOOLEAN : PutAgent(p, id, content, enabled)
          PROVE  MemoryInv'
      BY <2>3, RecordQualityKept, ActivatePlanKept, PutAgentKept
    <2>4. ASSUME NEW p \in Procs, NEW id \in Ids,
                 \/ RecordMatch(p, id) \/ LoadSkill(p, id) \/ ApproveSkill(p, id)
                 \/ \E content \in Texts, staging \in Stagings : PutSkill(p, id, content, staging)
                 \/ \E kind \in Kinds, content \in Texts, enabled \in BOOLEAN :
                       PutResource(p, kind, id, content, enabled)
                 \/ \E health : HealthCheck(p, id, health)
          PROVE  MemoryInv'
      BY <2>4, PlainHandlers
    <2>5. ASSUME NEW p \in Procs,
                 \/ ReloadCatalog(p) \/ BuildWriteGate(p)
                 \/ \E patch : PutPolicy(p, patch) \/ PutProfile(p, patch)
          PROVE  MemoryInv'
      BY <2>5, PlainCommands DEF PutPolicy, PutProfile
    <2> QED BY <2>1, <2>2, <2>3, <2>4, <2>5, Operations
  <1> QED BY <1>1, <1>2, <1>3, MovesOrNot

\* Between two requests the registry of a process whose catalog is in memory holds the agents
\* that its rows and the files say, for any processes, names, contents and manifests.
THEOREM RegistriesServe == Spec => []RegistryServes
  <1>1. Inv /\ MemoryInv => RegistryServes
    BY IdleServes, InMemory DEF RegistryServes
  <1> QED BY <1>1, InitInv, NextInv, MemoryInit, MemoryNext, PTL DEF Spec

\* A process whose catalog is in memory runs its agents as its rows and the files had them when
\* its runtime was made, for any processes, names, contents and manifests.
THEOREM RuntimesServe == Spec => RuntimeServes
  <1> DEFINE Typed == DOMAIN runtime = Procs
             Serves == \A p \in Procs : ~Persistent /\ runtime'[p] # runtime[p] =>
                          \/ runtime[p] = NoRuntime /\ runtime'[p] = HybridRegistry(p)
                          \/ runtime'[p] = NoRuntime /\ registry'[p] = HybridRegistry(p)'
  <1>1. Init => Typed
    BY DEF Init
  <1>2. Handler => runtime' = runtime
    BY DEF Handler
  <1>3. ASSUME NEW q \in Procs, GetRuntime(q) PROVE runtime' = [runtime EXCEPT ![q] = registry[q]]
    BY <1>3 DEF GetRuntime
  <1>4. ASSUME Inv, NEW q \in Procs, Restart(q)
        PROVE  runtime' = [runtime EXCEPT ![q] = NoRuntime] /\ IsIdle(q)' /\ deployment' = deployment
    <2>1. DOMAIN todo = Procs
      BY <1>4 DEF Inv, TodoGood
    <2>2. todo' = [todo EXCEPT ![q] = << >>]
      BY <1>4 DEF Restart, Proceed
    <2> QED BY <1>4, <2>1, <2>2 DEF Restart, IsIdle
  <1>5. Inv /\ Typed /\ [Next]_vars => Typed'
    BY <1>2, <1>3, <1>4 DEF Next, vars
  <1>6. Inv /\ MemoryInv => RegistryServes
    BY IdleServes, InMemory DEF RegistryServes
  <1>7. Inv /\ Typed /\ RegistryServes /\ RegistryServes' /\ [Next]_vars => Serves
    <2> SUFFICES ASSUME Inv, Typed, RegistryServes, RegistryServes', [Next]_vars,
                        NEW p \in Procs, ~Persistent, runtime'[p] # runtime[p]
                 PROVE  \/ runtime[p] = NoRuntime /\ runtime'[p] = HybridRegistry(p)
                        \/ runtime'[p] = NoRuntime /\ registry'[p] = HybridRegistry(p)'
      OBVIOUS
    <2>1. CASE UNCHANGED vars \/ Handler
      BY <1>2, <2>1 DEF vars
    <2>2. ASSUME NEW q \in Procs, GetRuntime(q)
          PROVE  runtime[p] = NoRuntime /\ runtime'[p] = HybridRegistry(p)
      <3>1. p = q /\ runtime'[q] = registry[q]
        BY <1>3, <2>2
      <3>2. IsIdle(q) /\ runtime[q] = NoRuntime
        BY <2>2 DEF GetRuntime
      <3> QED BY <3>1, <3>2 DEF RegistryServes
    <2>3. ASSUME NEW q \in Procs, Restart(q)
          PROVE  runtime'[p] = NoRuntime /\ registry'[p] = HybridRegistry(p)'
      <3>1. p = q /\ runtime'[q] = NoRuntime
        BY <1>4, <2>3
      <3>2. IsIdle(q)' /\ ~Persistent'
        BY <1>4, <2>3 DEF Persistent
      <3> QED BY <3>1, <3>2 DEF RegistryServes
    <2> QED BY <2>1, <2>2, <2>3 DEF Next
  <1>8. Inv /\ Typed /\ RegistryServes /\ RegistryServes' /\ [Next]_vars => [Serves]_vars
    BY <1>7
  <1> HIDE DEF Typed, Serves
  <1>9. Spec => [][Serves]_vars
    BY <1>1, <1>5, <1>6, <1>8, InitInv, NextInv, MemoryInit, MemoryNext, PTL DEF Spec
  <1> QED BY <1>9 DEF Serves, RuntimeServes

\* In memory no quality event is lost: the row of a persona has counted each one.
THEOREM SamplesAreCounted == Spec => []MemorySamples
  <1>1. Inv /\ MemoryInv => MemorySamples
    BY IdleServes, InMemory DEF MemorySamples, Counted
  <1> QED BY <1>1, InitInv, NextInv, MemoryInit, MemoryNext, PTL DEF Spec

(***************************************************************************)
(* Policies.                                                               *)
(***************************************************************************)
LEMMA MergedPolicy ==
  ASSUME NEW old, IsPolicy(old), NEW patch
  PROVE  LET new == MergePolicy(old, patch) IN
         /\ IsPolicy(new)
         /\ old.modes.plan_blocked \subseteq new.modes.plan_blocked
         /\ old.modes.mutating \subseteq new.modes.mutating
  <1> DEFINE new == MergePolicy(old, patch)
  <1>1. DOMAIN new = DOMAIN old /\ "modes" \in DOMAIN new
    BY DEF MergePolicy, IsPolicy
  <1>2. new.modes = old.modes \/ new.modes = MergeModes(old.modes, patch.modes)
    BY DEF MergePolicy, IsPolicy
  <1> HIDE DEF new
  <1>3. CASE new.modes = old.modes
    BY <1>1, <1>3 DEF IsPolicy, new
  <1>4. CASE new.modes = MergeModes(old.modes, patch.modes)
    <2>1. PICK modes, list : modes = old.modes /\ list = patch.modes
      OBVIOUS
    <2>2. {"read_only", "plan_blocked", "mutating"} \subseteq DOMAIN modes
      BY <2>1 DEF IsPolicy
    <2>3. DOMAIN MergeModes(modes, list) = DOMAIN modes
          /\ modes.plan_blocked \subseteq MergeModes(modes, list).plan_blocked
          /\ modes.mutating \subseteq MergeModes(modes, list).mutating
      BY <2>2 DEF MergeModes
    <2>4. new.modes = MergeModes(modes, list)
      BY <1>4, <2>1
    <2>5. IsPolicy(new)
      BY <1>1, <2>2, <2>3, <2>4 DEF IsPolicy
    <2> QED BY <2>1, <2>3, <2>4, <2>5 DEF new
  <1> QED BY <1>2, <1>3, <1>4

LEMMA NewPolicy == ASSUME NEW patch PROVE IsPolicy(CreatedPolicy(patch))
  <1> DEFINE new == CreatedPolicy(patch)
  <1>1. DOMAIN new = DOMAIN EmptyPolicy /\ "modes" \in DOMAIN EmptyPolicy
        /\ {"read_only", "plan_blocked", "mutating"} \subseteq DOMAIN EmptyPolicy.modes
    BY PolicyAssumption DEF CreatedPolicy, IsPolicy
  <1>2. new.modes = EmptyPolicy.modes \/ new.modes = Updated(EmptyPolicy.modes, patch.modes)
    BY <1>1 DEF CreatedPolicy
  <1>3. \A list : DOMAIN EmptyPolicy.modes \subseteq DOMAIN Updated(EmptyPolicy.modes, list)
    BY DEF Updated
  <1> HIDE DEF new
  <1>4. IsPolicy(new)
    BY <1>1, <1>2, <1>3 DEF IsPolicy
  <1> QED BY <1>4 DEF new

\* In plan mode an edit of a policy that stores both lists only ever takes tools away.
LEMMA PlanModeShrinks ==
  ASSUME NEW old, IsPolicy(old), NEW patch, old.modes.plan_blocked # {}, old.modes.mutating # {},
         NEW tool, ~AllowTool("plan", tool, old)
  PROVE  ~AllowTool("plan", tool, MergePolicy(old, patch))
  <1>1. PICK new : new = MergePolicy(old, patch)
    OBVIOUS
  <1>2. /\ old.modes.plan_blocked \subseteq new.modes.plan_blocked
        /\ old.modes.mutating \subseteq new.modes.mutating
    BY <1>1, MergedPolicy
  <1>3. ASSUME NEW policy_, policy_.modes.plan_blocked # {}, policy_.modes.mutating # {}
        PROVE  AllowTool("plan", tool, policy_) <=>
                 /\ tool \notin policy_.modes.plan_blocked
                 /\ tool \notin policy_.modes.mutating /\ tool \notin Prefixed
    <2>1. ModeSets(policy_.modes).plan_blocked = policy_.modes.plan_blocked
          /\ ModeSets(policy_.modes).mutating = policy_.modes.mutating
      BY <1>3 DEF ModeSets
    <2>2. AllowTool("plan", tool, policy_) <=>
            /\ tool \notin ModeSets(policy_.modes).plan_blocked
            /\ ~IsMutating(tool, ModeSets(policy_.modes).mutating)
      BY DEF AllowTool
    <2> QED BY <2>1, <2>2 DEF IsMutating
  <1>4. AllowTool("plan", tool, old) <=>
          /\ tool \notin old.modes.plan_blocked /\ tool \notin old.modes.mutating /\ tool \notin Prefixed
    BY <1>3
  <1>5. AllowTool("plan", tool, new) <=>
          /\ tool \notin new.modes.plan_blocked /\ tool \notin new.modes.mutating /\ tool \notin Prefixed
    BY <1>2, <1>3
  <1> QED BY <1>1, <1>2, <1>4, <1>5

LEMMA LastingSteps ==
  ASSUME NEW steps \in Seq(Lasting)
  PROVE  steps \in Seq(NoPolicyStep)
  <1>1. Lasting \subseteq NoPolicyStep
    BY DEF Lasting, NoPolicyStep
  <1> QED BY <1>1

\* A step after which a process has no policy to save, whatever became of the stored ones.
LEMMA PolicyStep ==
  ASSUME PolicyInv, Inv, deployment' = deployment, NEW p \in Procs,
         NEW steps \in Seq(NoPolicyStep), todo' = [todo EXCEPT ![p] = steps],
         DOMAIN policy' = Stores, DOMAIN merged' = Procs,
         \A store \in Stores : Profile \in DOMAIN policy'[store] => IsPolicy(policy'[store][Profile]),
         IsPolicy(merged'[p]),
         \A q \in Procs \ {p} : merged'[q] = merged[q] /\ (~Persistent => policy'[q] = policy[q])
  PROVE  PolicyInv'
  <1>1. \A q \in Procs : IsPolicy(merged'[q])
    BY DEF PolicyInv
  <1>2. Persistent' = Persistent /\ (~Persistent => \A q : Store(q) = q /\ Store(q)' = q)
    BY DEF Persistent, Store
  <1>3. todo'[p] = steps /\ \A q \in Procs \ {p} : todo'[q] = todo[q]
    BY DEF Inv, TodoGood
  <1>4. ASSUME NEW q \in Procs
        PROVE  /\ todo'[q] \in Seq(NoPolicyStep) \/ Tail(todo'[q]) \in Seq(NoPolicyStep)
               /\ ~Persistent => todo'[q] \in Seq(NoPolicyStep) \/ MadeOfStored(q)'
    <2>1. CASE q = p
      BY <1>3, <2>1
    <2>2. CASE q # p
      <3>1. ~Persistent => (MadeOfStored(q) => MadeOfStored(q)')
        BY <1>2, <2>2 DEF MadeOfStored, HasProfile
      <3> QED BY <1>3, <2>2, <3>1 DEF PolicyInv
    <2> QED BY <2>1, <2>2
  <1> QED BY <1>1, <1>2, <1>4 DEF PolicyInv

LEMMA NoPolicyTouched ==
  ASSUME PolicyInv, Inv, deployment' = deployment, NEW p \in Procs,
         NEW steps \in Seq(NoPolicyStep), todo' = [todo EXCEPT ![p] = steps],
         policy' = policy, merged' = merged
  PROVE  PolicyInv'
  BY PolicyStep DEF PolicyInv

LEMMA TailHasNone ==
  ASSUME PolicyInv, NEW p \in Procs, todo[p] # << >>
  PROVE  Tail(todo[p]) \in Seq(NoPolicyStep)
  <1>1. PICK left : left = todo[p]
    OBVIOUS
  <1>2. left \in Seq(NoPolicyStep) \/ Tail(left) \in Seq(NoPolicyStep)
    BY <1>1 DEF PolicyInv
  <1>3. left \in Seq(NoPolicyStep) => Tail(left) \in Seq(NoPolicyStep)
    BY <1>1
  <1> QED BY <1>1, <1>2, <1>3

\* The operations that leave policies alone, and what is left of them to do.
LEMMA OtherHandlers ==
  ASSUME Inv, Inv', PolicyInv, NEW p \in Procs, NEW id \in Ids,
         \/ \E content, enabled : PutAgent(p, id, content, enabled)
         \/ \E content, staging : PutSkill(p, id, content, staging)
         \/ ApproveSkill(p, id)
         \/ \E kind \in {"agent", "skill"} : Delete(p, kind, id)
         \/ \E kind \in Kinds : \E content, enabled : PutResource(p, kind, id, content, enabled)
         \/ ActivatePlan(p, id)
         \/ \E health : HealthCheck(p, id, health)
         \/ RecordQuality(p, id) \/ RecordMatch(p, id) \/ LoadSkill(p, id)
  PROVE  PolicyInv'
  <1> DEFINE Goal == \E steps \in Seq(NoPolicyStep) : todo' = [todo EXCEPT ![p] = steps]
  <1>0. deployment' = deployment /\ policy' = policy /\ merged' = merged
    BY DEF PutAgent, PutSkill, ApproveSkill, Delete, PutResource, ActivatePlan, HealthCheck, RecordQuality,
           RecordMatch, LoadSkill
  <1>1. SUFFICES Goal
    BY <1>0, NoPolicyTouched
  <1>2. {"agent", "skill"} \subseteq Kinds
    BY DEF Kinds
  <1>3. ASSUME NEW kind \in Kinds, NEW row,
               todo' = [todo EXCEPT ![p] = <<Upsert(kind, id, row)>> \o Published(kind, id)]
        PROVE  Goal
    <2>1. PICK steps : steps = <<Upsert(kind, id, row)>> \o Published(kind, id)
      OBVIOUS
    <2>2. steps \in Seq(Steps)
      BY <1>3, <2>1, TodoOf
    <2>3. Reloads(steps)
      BY <2>1, <2>2, EditSteps
    <2>4. steps \in Seq(NoPolicyStep)
      BY <2>3, LastingSteps DEF Reloads
    <2> QED BY <1>3, <2>1, <2>4
  <1>4. ASSUME NEW steps, Reloads(steps), todo' = [todo EXCEPT ![p] = steps] PROVE Goal
    <2>1. steps \in Seq(NoPolicyStep)
      BY <1>4, LastingSteps DEF Reloads
    <2> QED BY <1>4, <2>1
  <1>5. ASSUME NEW h, h.do # "policy", todo' = [todo EXCEPT ![p] = <<h>>] PROVE Goal
    <2>1. PICK steps : steps = <<h>>
      OBVIOUS
    <2>2. steps \in Seq(Steps)
      BY <1>5, <2>1, TodoOf
    <2>3. h \in NoPolicyStep
      BY <1>5, <2>1, <2>2, OneOfSteps DEF NoPolicyStep
    <2>4. steps \in Seq(NoPolicyStep)
      BY <2>1, <2>3
    <2> QED BY <1>5, <2>1, <2>4
  <1>6. \A kind, row : Upsert(kind, id, row).do # "policy" /\ Overwrite(kind, id, row).do # "policy"
    BY DEF Upsert, Overwrite
  <1>6a. [do |-> "usage", id |-> id].do # "policy"
    OBVIOUS
  <1> HIDE DEF Goal
  <1>7. ASSUME NEW content, NEW enabled, PutAgent(p, id, content, enabled) PROVE Goal
    BY <1>2, <1>3, <1>7 DEF PutAgent, Gated, Start
  <1>8. ASSUME NEW content, NEW staging, PutSkill(p, id, content, staging) PROVE Goal
    BY <1>2, <1>3, <1>8 DEF PutSkill, Gated, Start
  <1>9. CASE ApproveSkill(p, id)
    BY <1>2, <1>3, <1>9 DEF ApproveSkill, Gated, Start
  <1>10. ASSUME NEW kind \in {"agent", "skill"}, Delete(p, kind, id) PROVE Goal
    <2>1. PICK row : \/ todo' = [todo EXCEPT ![p] = <<Reload>>]
                     \/ todo' = [todo EXCEPT ![p] = <<Upsert(kind, id, row)>> \o Published(kind, id)]
                     \/ todo' = [todo EXCEPT ![p] = Published(kind, id)]
      BY <1>10 DEF Delete, Gated, Start
    <2>2. Reloads(Published(kind, id)) /\ Reloads(<<Reload>>) /\ kind \in Kinds
      BY <1>2, ReloadSteps, PublishedSteps
    <2> QED BY <1>3, <1>4, <2>1, <2>2
  <1>11. ASSUME NEW kind \in Kinds, NEW content, NEW enabled, PutResource(p, kind, id, content, enabled)
         PROVE  Goal
    BY <1>3, <1>11 DEF PutResource, Gated, Start
  <1>12. CASE ActivatePlan(p, id)
    <2>1. PICK steps : todo' = [todo EXCEPT ![p] = steps] /\ (steps = <<Reload>> \/ steps = << >>)
      BY <1>12 DEF ActivatePlan, Start
    <2>2. << >> \in Seq(NoPolicyStep)
      OBVIOUS
    <2>3. steps = << >> => Goal
      BY <2>1, <2>2 DEF Goal
    <2> QED BY <1>4, <2>1, <2>3, ReloadSteps
  <1>13. ASSUME NEW health, HealthCheck(p, id, health) PROVE Goal
    <2>1. PICK row : todo' = [todo EXCEPT ![p] = <<Overwrite("server", id, row)>>]
      BY <1>13 DEF HealthCheck, Start
    <2>2. PICK h : h = Overwrite("server", id, row)
      OBVIOUS
    <2>3. h.do # "policy" /\ todo' = [todo EXCEPT ![p] = <<h>>]
      BY <1>6, <2>1, <2>2
    <2> QED BY <1>5, <2>3
  <1>14. CASE RecordQuality(p, id)
    <2>1. PICK row : todo' = [todo EXCEPT ![p] = <<Upsert("agent", id, row)>>]
      BY <1>14 DEF RecordQuality, Start
    <2>2. PICK h : h = Upsert("agent", id, row)
      OBVIOUS
    <2>3. h.do # "policy" /\ todo' = [todo EXCEPT ![p] = <<h>>]
      BY <1>6, <2>1, <2>2
    <2> QED BY <1>5, <2>3
  <1>15. CASE RecordMatch(p, id)
    <2>1. PICK row : todo' = [todo EXCEPT ![p] = <<Upsert("plan", id, row)>>]
      BY <1>15 DEF RecordMatch, Start
    <2>2. PICK h : h = Upsert("plan", id, row)
      OBVIOUS
    <2>3. h.do # "policy" /\ todo' = [todo EXCEPT ![p] = <<h>>]
      BY <1>6, <2>1, <2>2
    <2> QED BY <1>5, <2>3
  <1>16. CASE LoadSkill(p, id)
    BY <1>5, <1>6a, <1>16 DEF LoadSkill, Start
  <1> QED BY <1>7, <1>8, <1>9, <1>10, <1>11, <1>12, <1>13, <1>14, <1>15, <1>16

LEMMA OtherSteps ==
  ASSUME Inv, Inv', PolicyInv, NEW p \in Procs,
         \/ CountUse(p) \/ Merge(p) \/ Write(p) \/ WriteAudit(p) \/ ReloadRegistry(p)
         \/ ReloadCatalog(p) \/ BuildWriteGate(p)
  PROVE  PolicyInv'
  <1> DEFINE Goal == \E steps \in Seq(NoPolicyStep) : todo' = [todo EXCEPT ![p] = steps]
  <1>0. deployment' = deployment /\ policy' = policy /\ merged' = merged
    BY DEF CountUse, Merge, Write, WriteAudit, ReloadRegistry, ReloadCatalog, BuildWriteGate
  <1>1. SUFFICES Goal
    BY <1>0, NoPolicyTouched
  <1>2. CASE Write(p) \/ WriteAudit(p) \/ ReloadRegistry(p)
    <2>1. todo[p] # << >> /\ todo' = [todo EXCEPT ![p] = Tail(todo[p])]
      BY <1>2 DEF Write, WriteAudit, ReloadRegistry, At, IsIdle, Proceed
    <2> QED BY <2>1, TailHasNone
  <1>3. CASE Merge(p)
    <2>1. PICK g, rest : /\ todo' = [todo EXCEPT ![p] = <<g>> \o rest] /\ g.do = "write"
                         /\ rest = Tail(todo[p]) /\ todo[p] # << >>
      <3>1. PICK kind, id, row : todo' = [todo EXCEPT ![p] = <<Overwrite(kind, id, row)>> \o Tail(todo[p])]
        BY <1>3 DEF Merge, Proceed
      <3>2. Overwrite(kind, id, row).do = "write"
        BY DEF Overwrite
      <3>3. todo[p] # << >>
        BY <1>3 DEF Merge, At, IsIdle
      <3> QED BY <3>1, <3>2, <3>3
    <2>2. rest \in Seq(NoPolicyStep)
      BY <2>1, TailHasNone
    <2>3. PICK steps : steps = <<g>> \o rest
      OBVIOUS
    <2>4. steps \in Seq(Steps)
      BY <2>1, <2>3, TodoOf
    <2>5. g \in Steps
      BY <2>2, <2>3, <2>4, FirstOfSteps
    <2>6. g \in NoPolicyStep
      BY <2>1, <2>5 DEF NoPolicyStep
    <2>7. steps \in Seq(NoPolicyStep)
      BY <2>2, <2>3, <2>6
    <2> QED BY <2>1, <2>3, <2>7
  <1>4. CASE CountUse(p)
    <2>1. PICK h, steps : /\ todo' = [todo EXCEPT ![p] = steps] /\ h.do = "merge"
                          /\ steps = <<h>> \/ steps = << >>
      <3>1. PICK id, row : \/ todo' = [todo EXCEPT ![p] = <<Upsert("skill", id, row)>>]
                           \/ todo' = [todo EXCEPT ![p] = << >>]
        BY <1>4 DEF CountUse, Proceed
      <3>2. Upsert("skill", id, row).do = "merge"
        BY DEF Upsert
      <3> QED BY <3>1, <3>2
    <2>2. CASE steps = << >>
      <3>1. steps \in Seq(NoPolicyStep)
        BY <2>2
      <3> QED BY <2>1, <3>1
    <2>3. CASE steps = <<h>>
      <3>1. h \in Steps
        BY <2>1, <2>3, TodoOf, OneOfSteps
      <3>2. h \in NoPolicyStep
        BY <2>1, <3>1 DEF NoPolicyStep
      <3>3. steps \in Seq(NoPolicyStep)
        BY <2>3, <3>2
      <3> QED BY <2>1, <3>3
    <2> QED BY <2>1, <2>2, <2>3
  <1>5. CASE ReloadCatalog(p)
    <2>1. todo' = [todo EXCEPT ![p] = <<Reload>>]
      BY <1>5 DEF ReloadCatalog, Start
    <2>2. <<Reload>> \in Seq(NoPolicyStep)
      BY ReloadSteps, LastingSteps DEF Reloads
    <2> QED BY <2>1, <2>2
  <1>6. CASE BuildWriteGate(p)
    <2>1. PICK h : todo' = [todo EXCEPT ![p] = <<h>>] /\ h = [do |-> "stuck"]
      BY <1>6 DEF BuildWriteGate, Start
    <2>2. h \in NoPolicyStep
      BY <2>1 DEF NoPolicyStep, Steps
    <2>3. <<h>> \in Seq(NoPolicyStep)
      BY <2>2
    <2> QED BY <2>1, <2>3
  <1> QED BY <1>2, <1>3, <1>4, <1>5, <1>6

LEMMA SeedHasNone ==
  ASSUME NEW p \in Procs, Seed(p)
  PROVE  \E steps \in Seq(NoPolicyStep) : todo' = [todo EXCEPT ![p] = steps]
  <1>1. PICK steps : /\ todo' = [todo EXCEPT ![p] = steps]
                     /\ steps = FanOut("skill") \o FanOut("plan") \o FanOut("server") \o FanOut("tool")
                                   \o <<Reload>>
    BY DEF Seed, Start
  <1>2. steps \in Seq(Lasting)
    BY <1>1, SeedSteps DEF Reloads
  <1> QED BY <1>1, <1>2, LastingSteps

LEMMA WithPolicyIs ==
  ASSUME NEW stored, NEW new
  PROVE  Profile \in DOMAIN WithPolicy(stored, new) /\ WithPolicy(stored, new)[Profile] = new
  BY DEF WithPolicy

\* A policy is made of the stored one, and saved, while nobody else can write it.
LEMMA EditPolicyKept ==
  ASSUME Inv, PolicyInv, NEW p \in Procs, NEW patch \in Edits,
         PutPolicy(p, patch) \/ PutProfile(p, patch)
  PROVE  PolicyInv'
  <1>1. PICK new : EditPolicy(p, new) /\ (\/ new = Patched(p, patch)
                                          \/ ~HasProfile(p) /\ new = CreatedPolicy(patch))
    BY DEF PutPolicy, PutProfile
  <1>2. Store(p) \in Stores
    BY DEF Store, Stores
  <1>3. IsPolicy(Patched(p, patch))
    BY <1>2, MergedPolicy, PolicyAssumption DEF Patched, PolicyInv, HasProfile
  <1>4. IsPolicy(new)
    BY <1>1, <1>3, NewPolicy
  <1>5. PICK a, b, steps : /\ todo' = [todo EXCEPT ![p] = steps] /\ steps = <<a, b, Reload>>
                           /\ a = [do |-> "policy"] /\ b = Record("profile", Profile)
    BY <1>1 DEF EditPolicy, Gated, Start
  <1>6. deployment' = deployment /\ policy' = policy /\ merged' = [merged EXCEPT ![p] = new]
    BY <1>1 DEF EditPolicy
  <1>7. Tail(steps) \in Seq(NoPolicyStep)
    <2>1. a \in Steps /\ b \in NoPolicyStep /\ Reload \in NoPolicyStep
      BY <1>5 DEF NoPolicyStep, Steps, Record, Reload
    <2>2. Tail(steps) = <<b, Reload>>
      BY <1>5
    <2>3. <<b, Reload>> \in Seq(NoPolicyStep)
      BY <2>1
    <2> QED BY <2>2, <2>3
  <1>8. merged'[p] = new /\ \A q \in Procs \ {p} : merged'[q] = merged[q]
    BY <1>6 DEF PolicyInv
  <1>9. \A q \in Procs : IsPolicy(merged'[q])
    BY <1>4, <1>8 DEF PolicyInv
  <1>10. todo'[p] = steps /\ \A q \in Procs \ {p} : todo'[q] = todo[q]
    BY <1>5 DEF Inv, TodoGood
  <1>11. Persistent' = Persistent /\ \A q : HasProfile(q)' = HasProfile(q)
    BY <1>6 DEF Persistent, HasProfile, Store
  <1>12. ASSUME NEW q \in Procs
         PROVE  /\ todo'[q] \in Seq(NoPolicyStep) \/ Tail(todo'[q]) \in Seq(NoPolicyStep)
                /\ ~Persistent => todo'[q] \in Seq(NoPolicyStep) \/ MadeOfStored(q)'
    <2>1. CASE q = p
      <3>1. ~Persistent /\ HasProfile(p) => new = MergePolicy(policy[p][Profile], patch)
        BY <1>1, InMemory DEF Patched
      <3>2. ~Persistent => MadeOfStored(p)'
        BY <1>6, <1>8, <1>11, <3>1 DEF MadeOfStored
      <3> QED BY <1>7, <1>10, <2>1, <3>2
    <2>2. CASE q # p
      <3>1. MadeOfStored(q) => MadeOfStored(q)'
        BY <1>6, <1>8, <1>11, <2>2 DEF MadeOfStored
      <3> QED BY <1>10, <2>2, <3>1 DEF PolicyInv
    <2> QED BY <2>1, <2>2
  <1>13. DOMAIN merged' = Procs /\ DOMAIN policy' = Stores
         /\ \A store \in Stores : Profile \in DOMAIN policy'[store] => IsPolicy(policy'[store][Profile])
    BY <1>6 DEF PolicyInv
  <1> QED BY <1>9, <1>11, <1>12, <1>13 DEF PolicyInv

LEMMA StoredChange ==
  ASSUME PolicyInv, NEW store \in Stores, NEW stored,
         policy' = [policy EXCEPT ![store] = stored],
         Profile \in DOMAIN stored => IsPolicy(stored[Profile])
  PROVE  /\ DOMAIN policy' = Stores
         /\ \A s \in Stores : Profile \in DOMAIN policy'[s] => IsPolicy(policy'[s][Profile])
         /\ \A s \in Stores \ {store} : policy'[s] = policy[s]
         /\ policy'[store] = stored
  BY DEF PolicyInv

LEMMA StorePolicyKept ==
  ASSUME Inv, Inv', PolicyInv, NEW p \in Procs, WritePolicy(p) \/ Seed(p) \/ Restart(p)
  PROVE  PolicyInv'
  <1>1. Store(p) \in Stores /\ p \in Stores /\ Procs \subseteq Stores /\ (~Persistent => Store(p) = p)
    BY DEF Store, Stores
  <1>2. DOMAIN merged = Procs /\ IsPolicy(merged[p])
    BY DEF PolicyInv
  <1>3. CASE WritePolicy(p)
    <2>1. PICK stored, steps : /\ policy' = [policy EXCEPT ![Store(p)] = stored]
                               /\ stored = WithPolicy(policy[Store(p)], merged[p])
                               /\ steps = Tail(todo[p]) /\ todo' = [todo EXCEPT ![p] = steps]
      BY <1>1, <1>3 DEF WritePolicy, Proceed, PolicyInv
    <2>2. deployment' = deployment /\ merged' = [merged EXCEPT ![p] = EmptyPolicy] /\ todo[p] # << >>
      BY <1>3 DEF WritePolicy, At, IsIdle
    <2>3. steps \in Seq(NoPolicyStep)
      BY <2>1, <2>2, TailHasNone
    <2>4. IsPolicy(stored[Profile])
      BY <1>2, <2>1, WithPolicyIs
    <2>5. /\ DOMAIN policy' = Stores
          /\ \A s \in Stores : Profile \in DOMAIN policy'[s] => IsPolicy(policy'[s][Profile])
          /\ \A s \in Stores \ {Store(p)} : policy'[s] = policy[s]
      BY <1>1, <2>1, <2>4, StoredChange
    <2>6. DOMAIN merged' = Procs /\ IsPolicy(merged'[p]) /\ \A q \in Procs \ {p} : merged'[q] = merged[q]
      BY <1>2, <2>2, PolicyAssumption
    <2>7. \A q \in Procs \ {p} : ~Persistent => policy'[q] = policy[q]
      BY <1>1, <2>5
    <2> QED BY <2>1, <2>2, <2>3, <2>5, <2>6, <2>7, PolicyStep
  <1>4. CASE Seed(p)
    <2>1. PICK stored : /\ policy' = [policy EXCEPT ![Store(p)] = stored]
                        /\ stored = WithPolicy(policy[Store(p)], DefaultPolicy)
      BY <1>1, <1>4 DEF Seed, SeedAgents, PolicyInv
    <2>2. deployment' = deployment /\ merged' = merged
      BY <1>4 DEF Seed
    <2>3. PICK steps : steps \in Seq(NoPolicyStep) /\ todo' = [todo EXCEPT ![p] = steps]
      BY <1>4, SeedHasNone
    <2>4. IsPolicy(stored[Profile])
      BY <2>1, WithPolicyIs, PolicyAssumption
    <2>5. /\ DOMAIN policy' = Stores
          /\ \A s \in Stores : Profile \in DOMAIN policy'[s] => IsPolicy(policy'[s][Profile])
          /\ \A s \in Stores \ {Store(p)} : policy'[s] = policy[s]
      BY <1>1, <2>1, <2>4, StoredChange
    <2>7. \A q \in Procs \ {p} : ~Persistent => policy'[q] = policy[q]
      BY <1>1, <2>5
    <2> QED BY <1>2, <2>2, <2>3, <2>5, <2>7, PolicyStep
  <1>5. CASE Restart(p)
    <2>1. PICK stored, steps : /\ policy' = [policy EXCEPT ![p] = stored] /\ stored = << >>
                               /\ steps = << >> /\ todo' = [todo EXCEPT ![p] = steps]
      BY <1>5 DEF Restart, Proceed
    <2>2. deployment' = deployment /\ merged' = [merged EXCEPT ![p] = EmptyPolicy]
      BY <1>5 DEF Restart
    <2>3. steps \in Seq(NoPolicyStep)
      BY <2>1
    <2>4. Profile \notin DOMAIN stored
      BY <2>1
    <2>5. /\ DOMAIN policy' = Stores
          /\ \A s \in Stores : Profile \in DOMAIN policy'[s] => IsPolicy(policy'[s][Profile])
          /\ \A s \in Stores \ {p} : policy'[s] = policy[s]
      BY <1>1, <2>1, <2>4, StoredChange
    <2>6. DOMAIN merged' = Procs /\ IsPolicy(merged'[p]) /\ \A q \in Procs \ {p} : merged'[q] = merged[q]
      BY <1>2, <2>2, PolicyAssumption
    <2>7. \A q \in Procs \ {p} : ~Persistent => policy'[q] = policy[q]
      BY <1>1, <2>5
    <2> QED BY <2>1, <2>2, <2>3, <2>5, <2>6, <2>7, PolicyStep
  <1> QED BY <1>3, <1>4, <1>5

\* No profile has a policy and nothing is about to be saved.
THEOREM PolicyInit == Init => PolicyInv
  <1> SUFFICES ASSUME Init PROVE PolicyInv
    OBVIOUS
  <1>1. DOMAIN policy = Stores /\ DOMAIN merged = Procs /\ \A p \in Procs : merged[p] = EmptyPolicy
    BY DEF Init
  <1>2. \A store \in Stores : DOMAIN policy[store] = {}
    BY DEF Init
  <1>3. \A p \in Procs : todo[p] = << >>
    BY DEF Init
  <1>4. << >> \in Seq(NoPolicyStep)
    OBVIOUS
  <1>5. \A p \in Procs : todo[p] \in Seq(NoPolicyStep)
    BY <1>3, <1>4
  <1> QED BY <1>1, <1>2, <1>5, PolicyAssumption DEF PolicyInv

\* Every step keeps what is about to be saved made of what is stored: nothing comes between
\* the read and the save of a policy in memory.
THEOREM PolicyNext == Inv /\ PolicyInv /\ [Next]_vars => PolicyInv'
  <1> SUFFICES ASSUME Inv, PolicyInv, [Next]_vars PROVE PolicyInv'
    OBVIOUS
  <1>0. Inv'
    BY NextInv
  <1>1. CASE UNCHANGED Others
    <2>1. deployment' = deployment /\ policy' = policy /\ merged' = merged /\ todo' = todo
      BY <1>1 DEF Others
    <2> QED BY <2>1 DEF PolicyInv, MadeOfStored, HasProfile, Store, Persistent
  <1>2. CASE Moves
    BY <1>0, <1>2, Operations, OtherHandlers, OtherSteps, EditPolicyKept, StorePolicyKept
  <1> QED BY <1>1, <1>2, MovesOrNot

\* While a process in memory is about to save a policy, its policies change by that or go
\* with the process.
LEMMA OnlyItsOwn ==
  ASSUME Inv, PolicyInv, [Next]_vars, ~Persistent, NEW p \in Procs, At(p, "policy")
  PROVE  policy'[p] = policy[p] \/ WritePolicy(p) \/ Restart(p)
  <1>1. p \in Stores /\ Procs \subseteq Stores /\ DOMAIN policy = Stores
    BY DEF Stores, PolicyInv
  <1>2. ~IsIdle(p) /\ Head(todo[p]).do = "policy"
    BY DEF At
  <1>3. ASSUME policy' = policy PROVE policy'[p] = policy[p]
    BY <1>3
  <1>4. CASE UNCHANGED Others
    BY <1>3, <1>4 DEF Others
  <1>5. ASSUME NEW q \in Procs, Seed(q) PROVE policy'[p] = policy[p]
    <2>1. q # p
      BY <1>2, <1>5 DEF Seed, Start
    <2> QED BY <1>1, <1>5, <2>1, InMemory DEF Seed, SeedAgents
  <1>6. ASSUME NEW q \in Procs, WritePolicy(q) \/ Restart(q), q # p PROVE policy'[p] = policy[p]
    <2>1. PICK stored : policy' = [policy EXCEPT ![q] = stored]
      BY <1>6, InMemory DEF WritePolicy, Restart
    <2> QED BY <1>1, <1>6, <2>1
  <1>7. ASSUME NEW q \in Procs,
               CountUse(q) \/ Merge(q) \/ Write(q) \/ WriteAudit(q) \/ ReloadRegistry(q)
               \/ ReloadCatalog(q) \/ BuildWriteGate(q)
        PROVE  policy' = policy
    BY <1>7 DEF CountUse, Merge, Write, WriteAudit, ReloadRegistry, ReloadCatalog, BuildWriteGate
  <1>8. ASSUME NEW q \in Procs, NEW patch, PutPolicy(q, patch) \/ PutProfile(q, patch) PROVE policy' = policy
    BY <1>8 DEF PutPolicy, PutProfile, EditPolicy
  <1>9. ASSUME NEW q \in Procs, NEW id,
               \/ \E content, enabled : PutAgent(q, id, content, enabled)
               \/ \E content, staging : PutSkill(q, id, content, staging)
               \/ ApproveSkill(q, id)
               \/ \E kind : Delete(q, kind, id)
               \/ \E kind, content, enabled : PutResource(q, kind, id, content, enabled)
               \/ ActivatePlan(q, id)
               \/ \E health : HealthCheck(q, id, health)
               \/ RecordQuality(q, id) \/ RecordMatch(q, id) \/ LoadSkill(q, id)
        PROVE  policy' = policy
    BY <1>9 DEF PutAgent, PutSkill, ApproveSkill, Delete, PutResource, ActivatePlan, HealthCheck, RecordQuality,
                RecordMatch, LoadSkill
  <1>10. CASE Moves
    BY <1>3, <1>5, <1>6, <1>7, <1>8, <1>9, <1>10, Operations
  <1> QED BY <1>4, <1>10, MovesOrNot

\* In memory, once a profile stores its lists of mutating and plan-blocked tools, no edit makes
\* a tool callable in plan mode: for any policies and patches.
THEOREM PlanModeIsKept == Spec => PlanBlockKept
  <1> DEFINE Shrinks == \A p \in Procs :
        /\ ~Persistent /\ At(p, "policy") /\ Profile \in DOMAIN policy[p] /\ Profile \in DOMAIN policy'[p]
        /\ policy[p][Profile].modes.plan_blocked # {} /\ policy[p][Profile].modes.mutating # {}
        => \A tool \in Tools : ~AllowTool("plan", tool, policy[p][Profile])
                                  => ~AllowTool("plan", tool, policy'[p][Profile])
  <1>1. Inv /\ PolicyInv /\ [Next]_vars => Shrinks
    <2> SUFFICES ASSUME Inv, PolicyInv, [Next]_vars, NEW p \in Procs, ~Persistent, At(p, "policy"),
                        Profile \in DOMAIN policy[p], Profile \in DOMAIN policy'[p],
                        policy[p][Profile].modes.plan_blocked # {}, policy[p][Profile].modes.mutating # {},
                        NEW tool \in Tools, ~AllowTool("plan", tool, policy[p][Profile])
                 PROVE  ~AllowTool("plan", tool, policy'[p][Profile])
      OBVIOUS
    <2>1. p \in Stores /\ Store(p) = p
      BY InMemory DEF Stores
    <2>2. CASE policy'[p] = policy[p]
      BY <2>2
    <2>3. CASE Restart(p)
      <3>1. policy'[p] = << >>
        BY <2>1, <2>3 DEF Restart, PolicyInv
      <3> QED BY <3>1
    <2>4. CASE WritePolicy(p)
      <3>1. policy'[p] = WithPolicy(policy[p], merged[p])
        BY <2>1, <2>4 DEF WritePolicy, PolicyInv
      <3>2. policy'[p][Profile] = merged[p]
        BY <3>1, WithPolicyIs
      <3>3. todo[p] \notin Seq(NoPolicyStep)
        <4>1. todo[p] \in Seq(NoPolicyStep) => Head(todo[p]) \in NoPolicyStep
          BY DEF At, IsIdle
        <4> QED BY <4>1 DEF At, NoPolicyStep
      <3>4. PICK patch : merged[p] = MergePolicy(policy[p][Profile], patch)
        BY <2>1, <3>3 DEF PolicyInv, MadeOfStored, HasProfile
      <3>5. IsPolicy(policy[p][Profile])
        BY <2>1 DEF PolicyInv
      <3>6. PICK old : old = policy[p][Profile]
        OBVIOUS
      <3>7. ~AllowTool("plan", tool, MergePolicy(old, patch))
        BY <3>5, <3>6, PlanModeShrinks
      <3> QED BY <3>2, <3>4, <3>6, <3>7
    <2> QED BY <2>2, <2>3, <2>4, OnlyItsOwn
  <1>2. Inv /\ PolicyInv /\ [Next]_vars => [Shrinks]_vars
    BY <1>1
  <1> QED BY <1>2, InitInv, NextInv, PolicyInit, PolicyNext, PTL DEF Spec, PlanBlockKept
=============================================================================
