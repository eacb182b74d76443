---------------------------- MODULE ClaimEvidence ----------------------------
(***************************************************************************)
(* What the record of a run shows about a claim: evaluate/claim_evidence,  *)
(* claim_protocols and evaluate_claim, decide of claims and claim_states.  *)
(*                                                                         *)
(* A record is a sequence of entries, and the place of an entry in it is   *)
(* its canonical sequence number:                                          *)
(*   [kind |-> "attempt", tool, args, writes]   a call is issued           *)
(*   [kind |-> "result", of, status, data, moved, bound, slot]             *)
(*                                              call `of` ended            *)
(*   [kind |-> "said", claims]                  the assistant speaks       *)
(* Arguments and results are records of texts: a JSON boolean is "true" or *)
(* "false", null and other values that are no text are "null".  A result   *)
(* that is no JSON object has the field Unstructured.  moved says what the *)
(* call left in the simulated world ("no", "noop" for writes that change   *)
(* nothing, "yes"), bound whether an authored fixture answered, and slot   *)
(* the one invocation that fixture is for (AnySlot for any).  The copies   *)
(* that the gateway and the adapter write of one fact agree.               *)
(***************************************************************************)
EXTENDS Integers, Sequences, FiniteSets, SequencesExt

CONSTANTS
  Addresses, MessageIds, ThreadIds, DraftIds   \* texts that can refer to a message

None == "none"
Missing == "missing"
AnySlot == 0
NoEntry == 0
Unstructured == "unstructured"
Get(data, key) == IF key \in DOMAIN data THEN data[key] ELSE Missing
Structured(data) == Unstructured \notin DOMAIN data
IsText(v) == v \notin {"true", "false", "null"}

(***************************************************************************)
(* The identity of a message in arguments and results (claim_protocols).   *)
(***************************************************************************)
MessageTools ==
  [send_email |-> "send", send_mail |-> "send", reply_to_thread |-> "reply", reply_email |-> "reply"]
MessageAction(tool) == IF tool \in DOMAIN MessageTools THEN MessageTools[tool] ELSE None

RecipientKeys == {"to", "to_address", "recipient", "recipients"}
ObjectKeys == {"message_id", "draft_id", "client_message_id"}
IdentityKeys == {"subject", "body", "thread_id", "channel"} \cup ObjectKeys

Values(records, keys) ==
  UNION {{records[i][k] : k \in keys \cap DOMAIN records[i]} : i \in DOMAIN records}
Agree(values) == Cardinality(values) <= 1 /\ \A v \in values : IsText(v)

RecipientsAgree(records) ==
  LET values == Values(records, RecipientKeys) IN Agree(values) /\ "" \notin values
IdentityAgrees(records) ==
  RecipientsAgree(records) /\ \A k \in IdentityKeys : Agree(Values(records, {k}))

MessageIdentityMatches(attempt, data) ==
  Structured(data) =>
    /\ Get(data, "operation") \in {Missing, attempt.tool}
    /\ Values(<<attempt.args, data>>, {"channel"}) \subseteq {"email"}
    /\ IdentityAgrees(<<attempt.args, data>>)

ReferenceKeys(ref) ==
  CASE ref \in Addresses -> RecipientKeys
    [] ref \in MessageIds -> {"message_id"}
    [] ref \in ThreadIds -> {"thread_id"}
    [] ref \in DraftIds -> {"draft_id"}
    [] OTHER -> {}
MessageReference(data, ref) == \E k \in ReferenceKeys(ref) : Get(data, k) = ref

\* Whether two groups of records are about one object: an axis they share
\* against axes that conflict, before any protocol is considered.
Objects(records, key) == {v \in Values(records, {key}) : IsText(v) /\ v # ""}
StateRelation(identity, records) ==
  LET Shared(k) == Objects(identity, k) \cap Objects(records, k)
      matched == \E k \in ObjectKeys : Shared(k) # {}
      different == \E k \in ObjectKeys :
        Objects(identity, k) # {} /\ Objects(records, k) # {} /\ Shared(k) = {}
  IN  CASE matched /\ IdentityAgrees(identity \o records) -> "exact"
        [] ~matched /\ different /\ IdentityAgrees(records) -> "unrelated"
        [] OTHER -> "possible"

\* What the result of a send or reply says of the message.
MessageOutcome(result) ==
  LET d == result.data
      sent == Get(d, "sent")
      coherent == Get(d, "ok") \in {Missing, "true"} /\ Get(d, "status") \in {Missing, "success"}
      refused == Get(d, "status") \in {Missing, "success", "failed", "failure", "error"}
  IN  CASE result.status \in {"error", "blocked"} ->
             IF sent \notin {Missing, "false"} THEN "unknown"
             ELSE IF result.moved = "no" THEN "failure" ELSE "ambiguous"
        [] result.status = "success" ->
             IF Get(d, "ok") \notin {Missing, "true", "false"} THEN "unknown"
             ELSE IF sent = "true" /\ coherent THEN "success"
             ELSE IF sent = "false" /\ refused THEN "failure" ELSE "unknown"
        [] OTHER -> "ambiguous"

(***************************************************************************)
(* The record.                                                             *)
(***************************************************************************)
Attempts(run) == {i \in DOMAIN run : run[i].kind = "attempt"}
Results(run) == {i \in DOMAIN run : run[i].kind = "result"}
\* The result that attempt a has before a position.
ResultOf(run, a, position) ==
  LET rs == {r \in Results(run) : run[r].of = a /\ r < position}
  IN  IF rs = {} THEN NoEntry ELSE CHOOSE r \in rs : TRUE

(***************************************************************************)
(* Requirements: a row of the ledger is a name and a state.                *)
(***************************************************************************)
Row(name, satisfied) == <<name, IF satisfied THEN "satisfied" ELSE "violated">>

\* The invocation is counted over the attempts of the record, also those that
\* the adapter refused and the gateway never counted.
Invocation(run, a) == Cardinality({b \in Attempts(run) : b <= a /\ run[b].tool = run[a].tool})
FixtureRows(run, r) ==
  IF ~run[r].bound THEN {<<"fixture.unique", "unknown">>}
  ELSE {Row("fixture.unique", TRUE),
        Row("fixture.invocation", run[r].slot \in {AnySlot, Invocation(run, run[r].of)})}

RecordIdentity(attempt, data) ==
  LET unusable == {v \in Values(<<attempt.args, data>>, IdentityKeys) : ~IsText(v)}
      empty == {v \in Values(<<attempt.args, data>>, IdentityKeys \ {"draft_id"}) : v = ""}
  IN  IF unusable \cup empty # {} THEN "unresolved"
      ELSE IF MessageIdentityMatches(attempt, data) THEN "resolved" ELSE "conflicting"

\* No positive field may stand against another field of the same result.
Flags == {"ok", "sent", "in_sent", "exists", "proven_sent"}
Envelope(data, verification) ==
  LET Says(k) == Get(data, k)
      positive == \E k \in {"sent", "in_sent", "proven_sent"} : Says(k) = "true"
      Denied(keys) == \E k \in keys : Says(k) \notin {Missing, "true"}
      conflicts == \/ positive /\ Denied({"ok", "exists"})
                   \/ positive /\ Says("status") \notin {Missing, "success"}
                   \/ verification /\ Says("proven_sent") = "true" /\ Denied({"sent", "in_sent"})
      fields == {Row("flag", Says(k) \in {"true", "false"}) : k \in Flags \cap DOMAIN data}
                \cup {Row("id", IsText(Says(k)) /\ Says(k) # "") :
                        k \in (ObjectKeys \cup {"thread_id"}) \cap DOMAIN data}
      proof == {Row("structure.required", k \in DOMAIN data) :
                  k \in {"operation", "client_message_id", "proven_sent", "ok", "status"}}
               \cup {Row("structure.operation", Says("operation") = "verify_sent_message")}
      rows == fields \cup {<<"structure.coherence", IF conflicts THEN "conflicting" ELSE "satisfied">>}
              \cup (IF verification THEN proof ELSE {})
  IN  IF ~Structured(data) THEN [integrity |-> "malformed", rows |-> {<<"structure.object", "unknown">>}]
      ELSE [rows |-> rows,
            integrity |-> IF conflicts THEN "contradictory"
                          ELSE IF \A row \in rows : row[2] = "satisfied" THEN "valid" ELSE "malformed"]

\* A lookup that wrote anything does not observe (observed_integrity).
ObservedIntegrity(attempt, result) ==
  [rows |-> {Row("integrity.declared_observational", ~attempt.writes),
             Row("integrity.no_observed_delta", result.moved # "yes"),
             Row("integrity.no_recorded_write", result.moved = "no")},
   integrity |-> CASE result.moved = "yes" -> "mutating"
                   [] result.moved = "noop" \/ (result.moved = "no" /\ ~result.bound) -> "ambiguous"
                   [] result.moved = "no" /\ result.bound /\ attempt.writes -> "mutating"
                   [] OTHER -> "valid"]

AuthorityOf(rows) ==
  LET states == {row[2] : row \in rows}
  IN  CASE "conflicting" \in states -> "conflicting"
        [] "conflicting" \notin states /\ "unknown" \in states -> "unknown"
        [] states = {"satisfied"} -> "authoritative"
        [] states = {} -> "unknown"
        [] OTHER -> "non_authoritative"

\* Seeded fault: calls issued after the proof count too.
MutProofBindings(run, r) ==
  LET cid == Get(run[run[r].of].args, "client_message_id")
      Told(a) == {run[a].args} \cup {run[e].data : e \in {e \in Results(run) : run[e].of = a}}
  IN  IF cid = Missing \/ ~IsText(cid) \/ cid = "" THEN {}
      ELSE {a \in Attempts(run) \ {run[r].of} :
              run[a].writes /\ \E data \in Told(a) : Get(data, "client_message_id") = cid}

\* The mutating calls that one proof of sending could be about: those that
\* carry its correlation id and were issued before it ended.
ProofBindings(run, r) ==
  LET cid == Get(run[run[r].of].args, "client_message_id")
      Carries(a) == \/ Get(run[a].args, "client_message_id") = cid
                    \/ /\ ResultOf(run, a, r) # NoEntry
                       /\ Get(run[ResultOf(run, a, r)].data, "client_message_id") = cid
  IN  IF cid = Missing \/ ~IsText(cid) \/ cid = "" THEN {}
      ELSE {a \in Attempts(run) \ {run[r].of} : a < r /\ run[a].writes /\ Carries(a)}

Verifier == "verify_sent_message"
\* What a proof must show of the call it is to prove.
VerificationRows(run, action, prior, r) ==
  LET data == run[r].data
      lookup == run[r].of
      cid == Get(run[prior].data, "client_message_id")
      usable == cid # Missing /\ IsText(cid) /\ cid # ""
  IN  ObservedIntegrity(run[lookup], run[r]).rows \cup
      {Row("verification.execution", run[r].status = "success"),
       Row("verification.request_after_action", lookup > prior),
       Row("verification.request_identity", usable /\ Get(run[lookup].args, "client_message_id") = cid),
       Row("verification.result_identity", usable /\ Get(data, "client_message_id") = cid),
       Row("verification.unique_operation", ProofBindings(run, r) = {action}),
       Row("verification.strict_proof", /\ Get(data, "proven_sent") = "true" /\ Get(data, "ok") = "true"
                                        /\ Get(data, "status") = "success")}

(***************************************************************************)
(* Evidence about one call: `action` is its attempt, `prior` its result.   *)
(* An evidence is what the result at `position` is worth for the claim.    *)
(***************************************************************************)
Records(run, r) == <<run[run[r].of].args, run[r].data>>

EvaluateEvidence(run, action, prior, r, aspect) ==
  LET data == run[r].data
      attempt == run[run[r].of]
      direct == r = prior
      verification == attempt.tool = Verifier
      unreported == direct /\ run[r].status # "success" /\ ~Structured(data)
      envelope == IF unreported THEN [integrity |-> "valid", rows |-> {Row("structure.coherence", TRUE)}]
                  ELSE Envelope(data, verification)
      observed == ObservedIntegrity(attempt, run[r])
      identity ==
        IF ~IdentityAgrees(Records(run, prior) \o Records(run, r)) THEN "conflicting"
        ELSE IF direct \/ StateRelation(Records(run, prior), Records(run, r)) = "exact"
        THEN RecordIdentity(attempt, data) ELSE "ambiguous"
      protocol == CASE verification -> "verification"
                    [] ~verification /\ direct /\ aspect = "action" -> "action"
                    [] ~verification /\ aspect = "sent_folder" -> "membership"
                    [] OTHER -> "unknown"
      contract ==
        CASE protocol = "verification" -> VerificationRows(run, action, prior, r)
          [] protocol = "action" -> {Row("protocol.mutation_role", attempt.writes)}
          [] protocol = "membership" ->
               {Row("state.protocol", direct \/ attempt.tool = "move_message"),
                Row("state.mutation_contract", attempt.writes),
                Row("state.execution", run[r].status = "success")}
          [] OTHER -> {<<"protocol.unsupported", "unknown">>}
      rows == FixtureRows(run, prior) \cup FixtureRows(run, r) \cup envelope.rows \cup contract
              \cup {Row("identity.all_axes", identity = "resolved")}
      Flagged(key) == CASE Get(data, key) = "true" -> "success"
                        [] Get(data, key) = "false" -> "failure"
                        [] OTHER -> "unknown"
  IN  [position |-> r, operation |-> action, identity |-> identity, protocol |-> protocol,
       authority |-> AuthorityOf(rows),
       integrity |-> IF verification /\ observed.integrity # "valid" THEN observed.integrity
                     ELSE envelope.integrity,
       bindings |-> IF verification THEN ProofBindings(run, r) ELSE {action},
       support |->
         CASE protocol = "verification" -> IF Get(data, "proven_sent") = "true" THEN "success" ELSE "unknown"
           [] protocol = "action" /\ MessageOutcome(run[r]) = "ambiguous" -> "unconfirmed"
           [] protocol = "action" /\ MessageOutcome(run[r]) # "ambiguous" -> MessageOutcome(run[r])
           [] protocol = "membership" -> Flagged("in_sent")
           [] OTHER -> "unknown"]

\* The results before `position` that may be about the call: only what is
\* surely about something else is dropped.
CollectCandidates(run, prior, position, aspect) ==
  LET Foreign(r) == \* of another channel, and nothing names a message
        LET channels == {v \in Values(Records(run, r), {"channel"}) : IsText(v)}
        IN  /\ channels # {} /\ "email" \notin channels
            /\ IdentityAgrees(Records(run, r))
            /\ Values(Records(run, r), ObjectKeys) = {}
      Related(r) ==
        LET tool == run[run[r].of].tool
        IN  /\ aspect = "action" => MessageAction(tool) = None
            /\ ~Foreign(r)
            /\ StateRelation(Records(run, prior), Records(run, r)) # "unrelated"
            /\ \/ aspect = "sent_folder"
               \/ tool = Verifier
               \/ {"sent", "proven_sent"} \cap DOMAIN run[r].data # {}
  IN  {r \in Results(run) : /\ prior <= r /\ r < position
                            /\ IF r = prior THEN aspect # "verification" ELSE Related(r)}

\* A mutation without a result cannot tell where the message is, but may have
\* moved it after the last result that does.
PendingMutations(run, prior, position) ==
  {a \in Attempts(run) :
     /\ prior < a /\ a < position
     /\ run[a].writes /\ ResultOf(run, a, position) = NoEntry
     /\ StateRelation(Records(run, prior), <<run[a].args>>) # "unrelated"}
PendingEvidence(a) ==
  [position |-> a, operation |-> NoEntry, identity |-> "ambiguous", protocol |-> "unknown",
   authority |-> "unknown", integrity |-> "ambiguous", bindings |-> {}, support |-> "unknown"]

\* The latest candidate counts, whatever it is worth; it is current only if
\* it has authority.
Freshness(latest) ==
  IF Cardinality({<<e.support, e.authority, e.identity, e.integrity>> : e \in latest}) > 1 THEN "conflicting"
  ELSE IF \A e \in latest : e.authority = "authoritative" /\ e.integrity = "valid" THEN "current"
  ELSE "unknown"
\* Seeded fault: the latest of those with authority counts.
MutLatest(candidates) ==
  LET usable == {e \in candidates : e.authority = "authoritative"}
  IN  {e \in usable : \A f \in usable : f.position <= e.position}
Latest(candidates) == {e \in candidates : \A f \in candidates : f.position <= e.position}

(***************************************************************************)
(* What a claim is worth at its position.  A claim here has position,      *)
(* scope, lifecycle, action, aspect, references, channel, and whether its  *)
(* wording names an email or a reply.                                      *)
(***************************************************************************)
Unresolved(capture) ==
  [capture |-> capture, identity |-> "unresolved", operation |-> NoEntry, absent |-> FALSE, selected |-> {}]

\* The calls that a claim can be about.
ClaimedActions(run, c) ==
  LET actions == {a \in Attempts(run) : a < c.position /\ MessageAction(run[a].tool) = c.action}
      Told(a) ==
        LET prior == ResultOf(run, a, c.position)
        IN  IF prior = NoEntry THEN {run[a].args}
            ELSE {run[a].args, run[prior].data} \cup
                 {run[r].data : r \in CollectCandidates(run, prior, c.position, "verification")}
  IN  {a \in actions : \A ref \in c.references : \E data \in Told(a) : MessageReference(data, ref)}

EvaluateClaim(run, c, capture, complete) ==
  LET before == {a \in Attempts(run) : a < c.position}
      actions == ClaimedActions(run, c)
      action == CHOOSE a \in actions : TRUE
      prior == ResultOf(run, action, c.position)
      candidates ==
        {EvaluateEvidence(run, action, prior, r, c.aspect) :
           r \in CollectCandidates(run, prior, c.position, c.aspect)}
        \cup (IF c.aspect = "sent_folder"
              THEN {PendingEvidence(a) : a \in PendingMutations(run, prior, c.position)} ELSE {})
      elsewhere == c.channel = None /\ \E a \in before : run[a].writes /\ MessageAction(run[a].tool) # c.action
  IN  IF c.scope # "asserted" \/ c.action \notin {"send", "reply"} THEN Unresolved(capture)
      ELSE IF elsewhere \/ Cardinality(actions) > 1 THEN [Unresolved(capture) EXCEPT !.identity = "ambiguous"]
      ELSE IF actions = {} THEN
        [Unresolved(capture) EXCEPT
           !.identity = "absent",
           !.absent = complete /\ c.aspect = "action" /\ (before = {} \/ c.named)]
      ELSE IF prior = NoEntry THEN [Unresolved(capture) EXCEPT !.operation = action]
      ELSE [Unresolved(capture) EXCEPT
              !.operation = action,
              !.identity = RecordIdentity(run[action], run[prior].data),
              !.selected = Latest(candidates)]

\* The certificate: every stage resolved, or no verdict.
Certifies(trace, e) ==
  /\ e.protocol # "unknown" /\ e.operation = trace.operation
  /\ e.bindings = {trace.operation}
  /\ e.identity = "resolved" /\ e.authority = "authoritative" /\ e.integrity = "valid"
Decide(lifecycle, scope, trace) ==
  LET certified == /\ trace.identity = "resolved" /\ trace.selected # {}
                   /\ Freshness(trace.selected) = "current"
                   /\ \A e \in trace.selected : Certifies(trace, e)
      supports == {e.support : e \in trace.selected}
      judged == lifecycle = "active" /\ scope = "asserted" /\ trace.capture = "satisfied"
  IN  CASE judged /\ (trace.absent \/ (certified /\ supports \subseteq {"failure", "unconfirmed"})) -> "FAIL"
        [] judged /\ ~trace.absent /\ certified /\ supports = {"success"} -> "PASS"
        [] OTHER -> "INCONCLUSIVE"
=============================================================================
