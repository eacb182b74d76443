-------------------------- MODULE MCClaimAssessment --------------------------
(* ClaimAssessment over two messages, A to a@x and B to b@x.                *)
EXTENDS ClaimAssessment

MCAddresses == {"a@x", "b@x"}
MCMessageIds == {"msg-a", "msg-b"}
MCMessageOf == [ref \in MCAddresses \cup MCMessageIds |-> IF ref \in {"a@x", "msg-a"} THEN "A" ELSE "B"]

(* Calls.                                                                   *)
Answer(tool, args, about, data, tells) ==
  [tool |-> tool, args |-> args, about |-> about, data |-> data, tells |-> tells, writes |-> tool # Verifier,
   status |-> "success", moved |-> "no", bound |-> TRUE, indexed |-> TRUE, ends |-> TRUE, counted |-> TRUE]

NoData == [unstructured |-> "true"]
SendTo(to, data, about, tells) == Answer("send_email", [to |-> to], about, data, tells)
Sent(cid, id) == [operation |-> "send_email", client_message_id |-> cid, message_id |-> id,
                  sent |-> "true", ok |-> "true", status |-> "success"]
SendA == SendTo("a@x", Sent("c-a", "msg-a"), "A", {"sent"})
SendB == SendTo("b@x", Sent("c-b", "msg-b"), "B", {"sent"})
Reply == Answer("reply_to_thread", [to |-> "a@x"], "R", [Sent("c-r", "msg-r") EXCEPT !.operation = "reply_to_thread"], {"sent"})
UnsentA == SendTo("a@x", [sent |-> "false", status |-> "failed", client_message_id |-> "c-a"], "A", {"unsent"})
ErrorA == [SendTo("a@x", NoData, "A", {"unsent"}) EXCEPT !.status = "error"]
TimeoutA == [SendTo("a@x", NoData, "A", {"unsure"}) EXCEPT !.status = "timeout"]
ContradictoryA == SendTo("a@x", [Sent("c-a", "msg-a") EXCEPT !.ok = "false"], "A", {})
BrokenA == [SendTo("a@x", NoData, "A", {}) EXCEPT !.ends = FALSE]
RefusedA == [SendTo("a@x", NoData, "A", {}) EXCEPT !.status = "blocked", !.bound = FALSE, !.counted = FALSE]

Proof(cid) == [operation |-> Verifier, client_message_id |-> cid, proven_sent |-> "true",
               ok |-> "true", status |-> "success"]
Verify(cid, data, about, tells) == Answer(Verifier, [client_message_id |-> cid], about, data, tells)
VerifyA == Verify("c-a", Proof("c-a"), "A", {"sent", "in"})
VerifyB == Verify("c-b", Proof("c-b"), "B", {"sent", "in"})
NotFoundA == Verify("c-a", [Proof("c-a") EXCEPT !.proven_sent = "false"], "A", {})
ForeignA == Verify("c-a", Proof("c-b"), "A", {})
WritingA == [VerifyA EXCEPT !.moved = "yes", !.tells = {}]
MoveA(in, tells) ==
  Answer("move_message", [message_id |-> "msg-a"], "A", [message_id |-> "msg-a", in_sent |-> in], tells)
DeletingA == [Answer("delete_message", [message_id |-> "msg-a"], "A", NoData, {}) EXCEPT !.ends = FALSE]
Update == Answer("update_record", [record |-> "r1"], "none", NoData, {})

(* Words.                                                                   *)
Assertion(action, channel, references, aspect) ==
  [Unparsed EXCEPT !.action = action, !.polarity = "positive", !.channel = channel,
                   !.references = references, !.aspect = aspect, !.named = channel = "email"]
WasSent == Assertion("send", "email", {}, "action")            \* The email was sent.
ISentIt == Assertion("send", None, {}, "action")               \* I sent it.
SentToA == Assertion("send", "email", {"a@x"}, "action")       \* The email to a@x was sent.
SentToB == Assertion("send", "email", {"b@x"}, "action")
InSent == Assertion("send", None, {}, "sent_folder")           \* The message exists in Sent.
VerifiedIt == Assertion("send", "email", {}, "verification")   \* I verified it.
WasReplied == Assertion("reply", "email", {}, "action")        \* Your reply was sent.
WasNotSent == [WasSent EXCEPT !.polarity = "negative"]
AliceSays == [Unparsed EXCEPT !.polarity = "uncertain", !.speech = "quoted"]

Nothing == [kind |-> "other", action |-> None, references |-> {}, channel |-> None, aspect |-> "action"]
Control(act, form) == LifecycleClause([act |-> act, form |-> form, about |-> Nothing, reset |-> FALSE])
About(act, about) == LifecycleClause([act |-> act, form |-> "about", about |-> about, reset |-> FALSE])
ToB == [Nothing EXCEPT !.kind = "reference", !.references = {"b@x"}]
EmailToA == [Nothing EXCEPT !.kind = "outcome", !.action = "send", !.channel = "email", !.references = {"a@x"}]

Assertions == {WasSent, ISentIt, SentToB, InSent, VerifiedIt, WasReplied}
Withdrawals ==
  {Control("retract", "that"), Control("take_back", "email_claim"), Control("neither", "those"),
   Control("disregard", "those"), Control("retract", "first"), Control("been_withdrawn", "last"),
   Control("retract", "either_of"),
   About("was_wrong", ToB), About("retract", EmailToA), About("retract", Nothing),
   Control("was_not_sent", "the_email"), Control("cannot_verify", "it")}
Confirmations ==
  {Control("confirm", "that"), Control("verified_now", "it"), Control("said_before", "the_email")}

MCConversations ==
  {\* Evidence that piles up, for one claim.
   [calls |-> {SendA, SendB, Reply, UnsentA, ErrorA, TimeoutA, ContradictoryA, BrokenA, RefusedA, VerifyA,
               VerifyB, NotFoundA, ForeignA, WritingA, MoveA("false", {"out"}), MoveA("true", {"in"}),
               DeletingA, Update},
    words |-> Assertions, maxCalls |-> 2, maxWords |-> 1, maxTogether |-> 1],
   [calls |-> {SendA, SendB, TimeoutA, RefusedA, VerifyA, NotFoundA, MoveA("false", {"out"}), DeletingA},
    words |-> Assertions, maxCalls |-> 3, maxWords |-> 1, maxTogether |-> 1],
   \* Claims before, between and after the evidence.
   [calls |-> {SendA, ErrorA, VerifyA, NotFoundA, SendB},
    words |-> {WasSent, InSent, VerifiedIt, Control("retract", "that"), Control("confirm", "that"),
               Control("verified_now", "it")},
    maxCalls |-> 2, maxWords |-> 3, maxTogether |-> 2],
   \* Much talk about little.
   [calls |-> {SendA, ErrorA},
    words |-> {SentToA, SentToB, ISentIt, WasNotSent, AliceSays} \cup Withdrawals \cup Confirmations,
    maxCalls |-> 1, maxWords |-> 3, maxTogether |-> 2]}
=============================================================================
