------------------------------ MODULE AgentBus ------------------------------
(***************************************************************************)
(* The SecureAgentBus of one worker process (cys_core/domain/security/     *)
(* agent_bus.py): send_message checks the sender, its circuit breaker, the *)
(* recipient, the message type and the escalation path, then sanitizes and *)
(* signs.  The worker calls receive_message on the envelope it just got,   *)
(* for the recipient it sent it to, before anything else can happen: one   *)
(* step does both.  No other code receives an envelope: the transport only *)
(* carries it, to services that do not verify it.                          *)
(***************************************************************************)
EXTENDS Naturals, Sequences, FiniteSets

CONSTANTS
  Agents,       \* the agents registered by build_agent_bus
  Names,        \* every name a caller may use as sender or recipient
  Trust,        \* Agents -> 0..3, AgentTrustLevel
  Recipients,   \* Agents -> SUBSET Names, allowed_recipients
  Escalations,  \* the set of <<sender, recipient>> in _escalation_paths
  Threshold,    \* breaker_failure_threshold
  Reset,        \* breaker_reset_seconds, in ticks
  MaxAge,       \* the five minutes after which a message has expired, in ticks
  MaxTime, MaxSent, MaxFailures   \* bounds: the clock, messages, failures per agent

ASSUME AgentBusAssumption ==
  /\ Agents \subseteq Names
  /\ Trust \in [Agents -> 0..3]
  /\ Recipients \in [Agents -> SUBSET Names]
  /\ Escalations \subseteq Names \X Names
  /\ Threshold \in Nat \ {0} /\ Reset \in Nat \ {0} /\ MaxAge \in Nat
  /\ MaxTime \in Nat /\ MaxSent \in Nat /\ MaxFailures \in [Agents -> Nat]

VARIABLES
  now,
  failures, openedAt,   \* per agent: its CircuitBreaker
  sent,                 \* what was sent and verified, with the strikes before it
  strikes               \* per agent: the times of all its recorded failures

vars == <<now, failures, openedAt, sent, strikes>>

UNTRUSTED == 0
PRIVILEGED == 2
MessageTypes == {"finding", "escalation", "control", "report"}

(* A payload: is critic_approved set, and where there are keys that start  *)
(* with _system: in the payload and the dicts nested in it, or in a dict   *)
(* that is an item of a list.                                              *)
Payloads == [approved : BOOLEAN, system : SUBSET {"nested", "listed"}]

(* The signature is an HMAC of exactly these fields. *)
Signed == [sender : Names, recipient : Names, type : MessageTypes,
           payload : Payloads, at : Nat]

Signature(m) == [sender |-> m.sender, recipient |-> m.recipient, type |-> m.type,
                 payload |-> m.payload, at |-> m.at]

Envelopes == [sender : Names, recipient : Names, type : MessageTypes,
              payload : Payloads, at : Nat, subject : Names, signature : Signed]

(* register_agent gives every agent a breaker of its own, a closed one. *)
RegisterAgents == failures = [a \in Agents |-> 0] /\ openedAt = [a \in Agents |-> 0]

Init ==
  /\ now = 0
  /\ RegisterAgents
  /\ sent = {}
  /\ strikes = [a \in Agents |-> << >>]

-----------------------------------------------------------------------------
(* CircuitBreaker *)

(* is_open resets a breaker whose time is up ... *)
Recovered(a) == failures[a] >= Threshold /\ now - openedAt[a] >= Reset

(* ... and is true for one that has too many failures and is not reset. *)
IsOpen(a) == failures[a] >= Threshold /\ ~Recovered(a)

(* What looking at is_open does to the breaker. *)
LookAtBreaker(a) ==
  IF Recovered(a) THEN /\ failures' = [failures EXCEPT ![a] = 0]
                       /\ openedAt' = [openedAt EXCEPT ![a] = 0]
                  ELSE UNCHANGED <<failures, openedAt>>

(* Mutant: opened_at is not set again by failures of an open breaker. *)
RecordFailure_OpensOnce(a) ==
  /\ Len(strikes[a]) < MaxFailures[a]
  /\ failures' = [failures EXCEPT ![a] = @ + 1]
  /\ openedAt' = [openedAt EXCEPT ![a] = IF failures[a] + 1 = Threshold THEN now ELSE @]
  /\ strikes' = [strikes EXCEPT ![a] = Append(@, now)]
  /\ UNCHANGED <<now, sent>>

(* record_agent_failure.  (record_success has no caller: a breaker is      *)
(* reset by time only.)                                                    *)
RecordFailure(a) ==
  /\ Len(strikes[a]) < MaxFailures[a]
  /\ failures' = [failures EXCEPT ![a] = @ + 1]
  /\ openedAt' = [openedAt EXCEPT ![a] = IF failures[a] + 1 >= Threshold THEN now ELSE @]
  /\ strikes' = [strikes EXCEPT ![a] = Append(@, now)]
  /\ UNCHANGED <<now, sent>>

-----------------------------------------------------------------------------
(* send_message *)

AllowedTypes(level) ==
  IF level <= UNTRUSTED THEN {"finding"}
  ELSE IF level >= PRIVILEGED THEN MessageTypes
  ELSE {"finding", "escalation"}

PathIsClear(s, r, type, payload) ==
  <<s, r>> \in Escalations => type = "escalation" /\ payload.approved

Permitted(s, r, type, payload) ==
  /\ r \in Recipients[s]
  /\ type \in AllowedTypes(Trust[s])
  /\ PathIsClear(s, r, type, payload)

(* The recursion enters dicts, not the items of a list. *)
Sanitize(payload, level) ==
  IF level < PRIVILEGED THEN [payload EXCEPT !.system = @ \ {"nested"}] ELSE payload

Envelope(s, r, type, payload) ==
  LET m == [sender |-> s, recipient |-> r, type |-> type,
            payload |-> Sanitize(payload, Trust[s]), at |-> now]
  IN  [sender |-> s, recipient |-> r, type |-> type, payload |-> m.payload,
       at |-> now, subject |-> r, signature |-> Signature(m)]

(* The checks of receive_message. *)
Verified(r, m) ==
  /\ m.recipient = r
  /\ m.signature = Signature(m)
  /\ ~(now - m.at > MaxAge)
  /\ m.subject = r

SendMessage(s, r, type, payload) ==
  /\ s \in Agents /\ ~IsOpen(s)
  /\ LookAtBreaker(s)
  /\ \/ /\ Permitted(s, r, type, payload)
        /\ Verified(r, Envelope(s, r, type, payload))
        /\ Cardinality(sent) < MaxSent
        /\ sent' = sent \cup {[message |-> Envelope(s, r, type, payload),
                               strikes |-> strikes[s]]}
     \/ /\ ~Permitted(s, r, type, payload)
        /\ UNCHANGED sent
  /\ UNCHANGED <<now, strikes>>

Tick ==
  /\ now < MaxTime /\ now' = now + 1
  /\ UNCHANGED <<failures, openedAt, sent, strikes>>

-----------------------------------------------------------------------------
Next ==
  \/ \E s, r \in Names, type \in MessageTypes, payload \in Payloads :
       SendMessage(s, r, type, payload)
  \/ \E a \in Agents : RecordFailure(a)
  \/ Tick

Spec == Init /\ [][Next]_vars

-----------------------------------------------------------------------------
TypeOK ==
  /\ now \in Nat
  /\ failures \in [Agents -> Nat] /\ openedAt \in [Agents -> Nat]
  /\ sent \subseteq [message : Envelopes, strikes : Seq(Nat)]
  /\ strikes \in [Agents -> Seq(Nat)]

(* An agent with Threshold failures in the last Reset ticks cannot send,    *)
(* whatever resets and failures came before.                                *)
BreakerHolds ==
  \A x \in sent :
    LET n == Len(x.strikes)
    IN  n >= Threshold => x.strikes[n - Threshold + 1] + Reset <= x.message.at

(* An agent that cannot send has failed in the last Reset ticks. *)
BreakerRecovers ==
  \A a \in Agents : IsOpen(a) => \E i \in 1..Len(strikes[a]) : strikes[a][i] + Reset > now

(* The breaker is open when it has to be, and only then. *)
BreakerIsExact == BreakerHolds /\ BreakerRecovers
=============================================================================
