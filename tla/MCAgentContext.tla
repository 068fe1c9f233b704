--------------------------- MODULE MCAgentContext ---------------------------
EXTENDS AgentContext

Text(marks) == [marks |-> marks, wrapped |-> FALSE]
Wrapped(marks) == [marks |-> marks, wrapped |-> TRUE]
MCInputs == {Text({}), Text({"soft", "fuzzy"}), Wrapped({"hard"})}
MCResults == {Text({}), Wrapped({"tags"}), Text({"encodedHard"})}
Finding(t, kind, trust, size, inv) ==
  [text |-> t, kind |-> kind, trust |-> trust, size |-> size, inv |-> inv]
MCFindings == {Finding(Text({}), "finding", 8, 2, "i1"), Finding(Text({"pii"}), "pending_finding", 3, 1, "i1"),
               Finding(Text({}), "finding", 8, 1, "i2"), Finding(Text({"fuzzy"}), "pending_finding", 3, 1, "i1")}
MCSetups == {[memory |-> FALSE, trim |-> TRUE, history |-> 9, entries |-> 0],
             [memory |-> FALSE, trim |-> FALSE, history |-> 7, entries |-> 0],
             [memory |-> TRUE, trim |-> TRUE, history |-> 5, entries |-> 3]}
=============================================================================
