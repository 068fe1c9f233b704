------------------------------- MODULE MCRuns -------------------------------
(* Values for the TLC run of Runs. *)
EXTENDS Runs

List(ids, status) == [i \in ids |-> status]
SomePlans == {NoTodos, List({"a"}, "pending")}
SomeFiles == {"f"}

Judge(by, score, verdict) == [by |-> by, score |-> score, verdict |-> verdict]
NoDelta == [i \in {} |-> [status |-> "pending", content |-> FALSE]]
Delta(id, status, content) == [i \in {id} |-> [status |-> status, content |-> content]]
Answer(todos, delta, enough, ask, trace, judge) ==
  [todos |-> todos, delta |-> delta, enough |-> enough, ask |-> ask, trace |-> trace, judge |-> judge]

SomeAnswers ==
  {Answer(NoTodos, NoDelta, FALSE, FALSE, {"spawn"}, Judge("nobody", 0, "")),
   Answer(NoTodos, Delta("a", "complete", FALSE), FALSE, FALSE, {"error", "stub", "spawn", "short"},
          Judge("nobody", 0, "")),
   Answer(List({"b"}, "done"), Delta("a", "pending", TRUE), TRUE, TRUE, {"short"}, Judge("nobody", 0, "")),
   Answer(NoTodos, NoDelta, FALSE, FALSE, {}, Judge("backend", 30, "pass")),
   Answer(NoTodos, NoDelta, FALSE, FALSE, {}, Judge("backend", 0, "fail")),
   Answer(NoTodos, NoDelta, FALSE, FALSE, {}, Judge("reasoning", 54, "fail"))}
=============================================================================
