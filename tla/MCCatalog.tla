------------------------------ MODULE MCCatalog ------------------------------
(* Model values for the TLC runs of Catalog. *)
EXTENDS Catalog

SomeTools == {"rag_query", "ask_user", "run_scan", "search_tools"}
RunTools == {"run_scan"}
SearchTools == {"search_tools"}

(* The lists of domain/policy/defaults.py, cut down to these tools. *)
Default ==
    [allow   |-> ("soc" :> Unrestricted) @@ ("bench" :> {"rag_query"}),
     risk    |-> ("rag_query" :> LOW) @@ ("run_scan" :> HIGH),
     modes   |-> [read_only |-> {"rag_query"}, plan_blocked |-> {"ask_user"}, mutating |-> {"run_scan"}],
     scalars |-> [trust_floor |-> 50, max_spawn_depth |-> 5]]

Empty ==
    [allow |-> << >>, risk |-> << >>,
     modes |-> [read_only |-> {}, plan_blocked |-> {}, mutating |-> {"run_scan"}],
     scalars |-> [trust_floor |-> 50, max_spawn_depth |-> 5]]

(* An edit of each kind: an allowlist, and lists of the mode policy. *)
SomePatches ==
    {[allow |-> ("soc" :> {"rag_query"})],
     [modes |-> [plan_blocked |-> {"rag_query"}, mutating |-> {}], risk |-> ("ask_user" :> CRITICAL)]}

(* Each store with a write gate, and one API without. *)
SomeDeployments == [store : {"static", "memory", "postgres"}, gate : {TRUE}]
                     \cup {[store |-> "memory", gate |-> FALSE]}

OneFile == <<"x">>

(* An edit that asks for a tool, and one that the sanitizer refuses. *)
ToolsOfText == [c \in {"edit", "attack", "file"} |-> IF c = "edit" THEN {"ask_user"} ELSE {}]
SkillsOfText == [c \in {"edit", "attack", "file"} |-> {}]
=============================================================================
