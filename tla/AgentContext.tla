---------------------------- MODULE AgentContext ----------------------------
(***************************************************************************)
(* What an agent's model is shown.  A run (runtime/agent.py) adds the      *)
(* user's text to the session's checkpointed history; every model call     *)
(* passes it through the prompt middleware                                 *)
(* (middleware/prompt_context_middleware.py), the investigation's episodic *)
(* memory (middleware/memory_context_middleware.py over                    *)
(* domain/memory/services.py) and the trimming of old messages             *)
(* (middleware/context_summary_middleware.py).  Meanwhile other workers    *)
(* write to the memory.                                                    *)
(*                                                                         *)
(* A text is the set of marks that the sanitizer                           *)
(* (domain/security/sanitizer.py) can find in it and whether it begins     *)
(* with the USER_DATA_TO_PROCESS delimiter.                                *)
(***************************************************************************)
EXTENDS Naturals, Sequences, SequencesExt, FiniteSets

CONSTANTS
  Inputs,      \* texts a run may be given
  Results,     \* texts a tool may return
  Findings,    \* what may be written to memory: [text, kind, trust, size, inv]
  Own,         \* the investigation of the session
  Setups,      \* [memory, trim, history, entries]: the middlewares switched
               \* on, and bounds on messages and entries
  KeepResults, \* KEEP_TOOL_RESULTS
  MaxMessages, \* CONTEXT_SUMMARY_MAX_MESSAGES
  MaxEntries,  \* max_entries of MemoryContextMiddleware
  MaxChars,    \* max_chars of format_for_prompt
  TTL,         \* MEMORY_TTL_HOURS
  MaxCalls,    \* bound: tool calls of one answer
  MaxClock     \* bound: the clock

ASSUME BoundAssumption ==
  /\ KeepResults \in Nat /\ MaxMessages \in Nat \ {0} /\ MaxEntries \in Nat
  /\ MaxChars \in Nat /\ TTL \in Nat /\ MaxCalls \in Nat /\ MaxClock \in Nat
ASSUME SetupsAssumption ==
  Setups \subseteq [memory : BOOLEAN, trim : BOOLEAN, history : Nat, entries : Nat]

(* The marks: what the sanitizer calls hard, what it calls soft, and        *)
(* personal data.                                                          *)
HardMarks == {"hard", "encodedHard"}
SoftMarks == {"tags", "mixed", "soft", "fuzzy", "encodedSoft"}
Texts == [marks : SUBSET (HardMarks \cup SoftMarks \cup {"pii"}), wrapped : BOOLEAN]

ASSUME TextAssumption ==
  /\ Inputs \subseteq Texts /\ Results \subseteq Texts
  /\ \A f \in Findings : f.text \in Texts /\ f.trust \in Nat

VARIABLES
  setup,
  history,    \* the messages of the checkpoint: [role, text, calls, call]
  phase,      \* "idle", "model" or "tools"
  reader,     \* the agent was built with a memory reader
  attempts,   \* injection_attempts of the agent's monitor
  store,      \* episodic memory, oldest entry first
  clock,
  shown       \* the last request the model got: [messages, entries]

context == <<setup, history, phase, reader, attempts, store, clock, shown>>

-----------------------------------------------------------------------------
(* InputSanitizer. *)
Classify(text) ==
  IF text.marks \cap HardMarks # {} THEN "hard"
  ELSE IF text.marks \cap SoftMarks # {} THEN "soft"
  ELSE "none"

(* The patterns are replaced by a marker; what was found by decoding or    *)
(* stripping the text, by distance or by counting characters stays.        *)
FilterPatterns(text) == [text EXCEPT !.marks = @ \ {"hard", "soft"}]

(* sanitize, for a text that is not hard: one that is delimited already is *)
(* returned as it is.                                                      *)
SanitizeText(text) == IF text.wrapped THEN text ELSE [FilterPatterns(text) EXCEPT !.wrapped = TRUE]

-----------------------------------------------------------------------------
Human(text) == [role |-> "human", text |-> text, calls |-> 0, call |-> 0]
Assistant(n) == [role |-> "ai", text |-> [marks |-> {}, wrapped |-> FALSE], calls |-> n, call |-> 0]
ToolResult(c, text) == [role |-> "tool", text |-> text, calls |-> 0, call |-> c]
Memory == [role |-> "memory", text |-> [marks |-> {}, wrapped |-> TRUE], calls |-> 0, call |-> 0]
NoRequest == [messages |-> << >>, entries |-> << >>]

IsUntrusted(m) == m.role \in {"human", "tool"}
Verdicts(ms, v) == {i \in DOMAIN ms : IsUntrusted(ms[i]) /\ Classify(ms[i].text) = v}

ContextInit ==
  /\ setup \in Setups
  /\ history = << >> /\ phase = "idle" /\ reader = FALSE /\ attempts = 0
  /\ store = << >> /\ clock = 0 /\ shown = NoRequest

(* arun: a hard input is refused before the session sees it, unless it is  *)
(* delimited; otherwise a new agent, with its own monitor, goes on with    *)
(* the session's history.                                                  *)
Arun(text) ==
  /\ phase = "idle" /\ Len(history) + 2 <= setup.history
  /\ text.wrapped \/ Classify(text) # "hard"
  /\ history' = Append(history, Human(SanitizeText(text)))
  /\ phase' = "model" /\ reader' = setup.memory /\ attempts' = 0
  /\ shown' = NoRequest
  /\ UNCHANGED <<setup, store, clock>>

-----------------------------------------------------------------------------
(* The elements of s at the indices I, in the order R. *)
Arranged(s, I, R) ==
  [k \in 1..Cardinality(I) |-> s[CHOOSE i \in I : Cardinality({l \in I : <<l, i>> \in R}) = k - 1]]

Earlier(I) == {x \in I \X I : x[1] < x[2]}

(* MemoryReadService. *)
(* The store's query: the newest entries of the investigation. *)
NewestEntries ==
  LET own == {i \in DOMAIN store : store[i].inv = Own}
  IN {i \in own : Cardinality({k \in own : k > i}) < MaxEntries}

(* The default of the column and of MemoryEntry, the empty string. *)
NoChecksum == << >>

(* An entry without a checksum is taken unverified. *)
VerifyChecksum(e) == e.checksum # NoChecksum => e.checksum = <<e.text, e.inv>>

(* The sort of query_investigation is stable: the newer of two entries of  *)
(* one trust stays before the other.                                       *)
MoreTrusted(I) ==
  {x \in I \X I : \/ store[x[1]].trust > store[x[2]].trust
                   \/ (store[x[1]].trust = store[x[2]].trust /\ x[1] > x[2])}

(* Mutant: every entry of the investigation, of whatever age. *)
QueryInvestigationForever ==
  LET valid == {i \in NewestEntries : VerifyChecksum(store[i])}
  IN Arranged(store, valid, MoreTrusted(valid))

(* query_investigation: the newest entries, without the expired ones and   *)
(* those whose content or investigation does not fit the checksum, the     *)
(* most trusted first.                                                     *)
QueryInvestigation ==
  LET valid == {i \in NewestEntries : clock - store[i].created <= TTL /\ VerifyChecksum(store[i])}
  IN Arranged(store, valid, MoreTrusted(valid))

Chars(entries) == FoldLeft(LAMBDA n, e : n + e.size, 0, entries)

(* format_for_prompt stops at the first entry that does not fit. *)
FormatForPrompt(entries) ==
  LET fits == {k \in 0..Len(entries) : \A l \in 1..k : Chars(SubSeq(entries, 1, l)) <= MaxChars}
  IN SubSeq(entries, 1, CHOOSE k \in fits : \A l \in fits : l <= k)

(* MemoryContextMiddleware appends the entries as the last message. *)
InjectMemory(messages) ==
  IF reader /\ QueryInvestigation # << >> THEN Append(messages, Memory) ELSE messages

-----------------------------------------------------------------------------
(* ContextSummaryMiddleware. *)
(* Mutant: tool results at the beginning are kept. *)
HealNothing(messages) == messages

(* heal_orphaned_tool_messages: results at the beginning are dropped. *)
HealOrphanedToolMessages(messages) ==
  LET others == {i \in DOMAIN messages : messages[i].role # "tool"}
      first == CHOOSE i \in others : \A k \in others : i <= k
  IN IF others = {} THEN << >> ELSE SubSeq(messages, first, Len(messages))

(* Mutant: one result fewer is kept. *)
TrimToolResultsMore(messages) ==
  LET results == {i \in DOMAIN messages : messages[i].role = "tool"}
      later(i) == {k \in results : k >= i}
      kept == {i \in DOMAIN messages : i \in results => Cardinality(later(i)) < KeepResults}
  IN IF KeepResults = 0 \/ Cardinality(results) <= KeepResults THEN messages
     ELSE HealOrphanedToolMessages(Arranged(messages, kept, Earlier(kept)))

(* trim_tool_results: the last KeepResults results, all the other messages. *)
TrimToolResults(messages) ==
  LET results == {i \in DOMAIN messages : messages[i].role = "tool"}
      later(i) == {k \in results : k >= i}
      kept == {i \in DOMAIN messages : i \in results => Cardinality(later(i)) <= KeepResults}
  IN IF KeepResults = 0 \/ Cardinality(results) <= KeepResults THEN messages
     ELSE HealOrphanedToolMessages(Arranged(messages, kept, Earlier(kept)))

(* _maybe_summarize: what is too long is cut at the front.  That always    *)
(* leaves MaxMessages or fewer, so that the summarizer is never called.    *)
TrimMessages(messages) ==
  LET trimmed == TrimToolResults(messages)
      cut == IF Len(trimmed) > MaxMessages THEN Len(trimmed) - MaxMessages ELSE 0
  IN IF setup.trim THEN HealOrphanedToolMessages(SubSeq(trimmed, cut + 1, Len(trimmed)))
     ELSE messages

-----------------------------------------------------------------------------
(* A model call. *)
Delimited(m) == IF IsUntrusted(m) THEN [m EXCEPT !.text = SanitizeText(@)] ELSE m

SanitizeMessages(messages) == [i \in DOMAIN messages |-> Delimited(messages[i])]

(* Mutant: only the message that was added last is looked at. *)
IsHardNewest(i) == i = Len(history) /\ IsUntrusted(history[i]) /\ Classify(history[i].text) = "hard"

IsHard(i) == IsUntrusted(history[i]) /\ Classify(history[i].text) = "hard"

HardOnes == {i \in DOMAIN history : IsHard(i)}

(* Up to the first hard message, every soft one is counted, at every call. *)
Noted ==
  LET soft == Verdicts(history, "soft") IN
  IF HardOnes = {} THEN Cardinality(soft)
  ELSE Cardinality({i \in soft : \A k \in HardOnes : i < k}) + 1

(* A hard message anywhere in the history: the refusal is the answer. *)
Refuse ==
  /\ phase = "model" /\ HardOnes # {}
  /\ history' = Append(history, Assistant(0))
  /\ attempts' = attempts + Noted
  /\ phase' = "idle" /\ shown' = NoRequest
  /\ UNCHANGED <<setup, reader, store, clock>>

(* What the middlewares make of the history, in their order. *)
Request(messages) ==
  [messages |-> TrimMessages(InjectMemory(SanitizeMessages(messages))),
   entries |-> IF reader THEN FormatForPrompt(QueryInvestigation) ELSE << >>]

(* The model is asked and answers with n tool calls, or with a final text, *)
(* which _guard_response replaces by the refusal when it leaks the prompt. *)
ModelCall(n) ==
  /\ phase = "model" /\ HardOnes = {}
  /\ Len(history) + 2 * n + 1 <= setup.history
  /\ shown' = Request(history)
  /\ attempts' = attempts + Noted
  /\ history' = Append(history, Assistant(n))
  /\ phase' = IF n = 0 THEN "idle" ELSE "tools"
  /\ UNCHANGED <<setup, reader, store, clock>>

(* The tools of the answer: their results are added together; an exception *)
(* (a budget, a guard) ends the run and leaves the calls unanswered.       *)
ToolsReturn ==
  /\ phase = "tools"
  /\ \E results \in [1..Last(history).calls -> Results] :
       history' = history \o [c \in DOMAIN results |-> ToolResult(c, results[c])]
  /\ phase' = "model" /\ shown' = NoRequest
  /\ UNCHANGED <<setup, reader, attempts, store, clock>>

ToolsRaise ==
  /\ phase = "tools"
  /\ phase' = "idle" /\ shown' = NoRequest
  /\ UNCHANGED <<setup, history, reader, attempts, store, clock>>

(* The tools waited for a human: aresume builds an agent that is not told  *)
(* its investigation, with a new monitor.                                  *)
Aresume ==
  /\ phase = "tools"
  /\ \E results \in [1..Last(history).calls -> Results] :
       history' = history \o [c \in DOMAIN results |-> ToolResult(c, results[c])]
  /\ phase' = "model" /\ reader' = FALSE /\ attempts' = 0 /\ shown' = NoRequest
  /\ UNCHANGED <<setup, store, clock>>

-----------------------------------------------------------------------------
Redact(text) == [text EXCEPT !.marks = @ \ {"pii"}]
Validated(text) == FilterPatterns(Redact(text))

(* An entry is signed for its investigation. *)
Entry(f) ==
  [text |-> Validated(f.text), kind |-> f.kind, trust |-> f.trust, size |-> f.size, inv |-> f.inv,
   created |-> clock, checksum |-> <<Validated(f.text), f.inv>>]

(* PostgresEpisodicMemoryStore.append: one insert. *)
Insert(e) == store' = Append(store, e)

(* MemoryWriteService.append: a text with any verdict is rejected. *)
AppendEntry(f) ==
  /\ Len(store) < setup.entries
  /\ Classify(f.text) = "none"
  /\ Insert(Entry(f))
  /\ shown' = NoRequest
  /\ UNCHANGED <<setup, history, phase, reader, attempts, clock>>

(* A row is damaged, changes its investigation or loses its checksum       *)
(* behind the service.                                                     *)
Damage ==
  /\ \E i \in DOMAIN store :
       \/ store' = [store EXCEPT ![i].text.marks = @ \cup {"soft"}]
       \/ store' = [store EXCEPT ![i].inv = Own]
       \/ store' = [store EXCEPT ![i].checksum = NoChecksum]
  /\ store' # store
  /\ shown' = NoRequest
  /\ UNCHANGED <<setup, history, phase, reader, attempts, clock>>

TimePasses ==
  /\ clock < MaxClock /\ store # << >>
  /\ clock' = clock + 1 /\ shown' = NoRequest
  /\ UNCHANGED <<setup, history, phase, reader, attempts, store>>

ContextNext ==
  \/ \E t \in Inputs : Arun(t)
  \/ Refuse \/ \E n \in 0..MaxCalls : ModelCall(n)
  \/ ToolsReturn \/ ToolsRaise \/ Aresume
  \/ \E f \in Findings : AppendEntry(f)
  \/ Damage \/ TimePasses

ContextSpec == ContextInit /\ [][ContextNext]_context

-----------------------------------------------------------------------------
(* Every tool result the model is shown follows the answer that asked for  *)
(* it, however the history was cut: heal_orphaned_tool_messages is enough. *)
ResultsHaveCalls ==
  \A i \in DOMAIN shown.messages : shown.messages[i].role = "tool" =>
    \E k \in 1..(i - 1) : /\ shown.messages[k].role = "ai"
                          /\ shown.messages[k].calls >= shown.messages[i].call
                          /\ \A l \in (k + 1)..(i - 1) : shown.messages[l].role = "tool"

(* The answer before the last one of the history, and what followed it. *)
LastTurn ==
  {i \in 1..(Len(history) - 1) : \A k \in (i + 1)..(Len(history) - 1) : history[k].role # "ai"}

(* The results the model has just asked for reach it, together with the    *)
(* answer that asked for them, as long as the two limits leave room for    *)
(* one turn and the memory.                                                *)
LastTurnShown ==
  shown # NoRequest /\ Cardinality(LastTurn) + 1 <= MaxMessages
  /\ Cardinality({i \in LastTurn : history[i].role = "tool"}) <= KeepResults =>
       \A i \in LastTurn :
         \E k \in DOMAIN shown.messages : shown.messages[k] = Delimited(history[i])

(* The model is never called with a hard text in its context, and every    *)
(* human and tool text it sees is delimited as data, also those that an    *)
(* earlier run or a resumed one left in the checkpoint.                    *)
UnsafeNeverShown ==
  \A i \in DOMAIN shown.messages :
    LET m == shown.messages[i] IN
    IsUntrusted(m) => Classify(m.text) # "hard" /\ m.text.wrapped

(* What is retrieved belongs to the session's investigation and is not     *)
(* expired; more trusted entries come first, and of two entries of one     *)
(* trust the newer.  An entry that has a checksum was written for the      *)
(* investigation and carries no mark, whatever happened to the rows; one   *)
(* that has none may be anything.                                          *)
MemoryIsSound ==
  \A i \in DOMAIN shown.entries :
    LET e == shown.entries[i] IN
    /\ e.inv = Own /\ clock - e.created <= TTL
    /\ e.checksum # NoChecksum => e.checksum[2] = Own /\ e.text.marks = {}
    /\ \A k \in 1..(i - 1) : /\ shown.entries[k].trust >= e.trust
                             /\ shown.entries[k].trust = e.trust => shown.entries[k].created >= e.created

(* No suspicious message reaches the model uncounted: the agent's monitor  *)
(* has counted at least the soft messages of the history it passed on,     *)
(* those it did not see arrive included.                                   *)
SoftIsNoted ==
  shown # NoRequest => Cardinality(Verdicts(Front(history), "soft")) <= attempts

(* What the guards promise of a call of the model. *)
ShownIsGuarded == UnsafeNeverShown /\ SoftIsNoted
=============================================================================
