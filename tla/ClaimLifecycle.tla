---------------------------- MODULE ClaimLifecycle ----------------------------
(***************************************************************************)
(* What an assistant's statements claim, and what its later statements do  *)
(* to its earlier ones: evaluate/claim_withdrawal, the controls of         *)
(* claim_language, interpret of claims, claim_lifecycle.                   *)
(*                                                                         *)
(* A raw claim is what the grammar reads in a sentence: action, polarity,  *)
(* speech, references, aspect, channel, a relation to earlier claims with  *)
(* its target, and whether the words name an email or a reply.  A control  *)
(* is a sentence about earlier claims.  It is given by its act (the verb,  *)
(* or the whole form of a sentence without one), the form of the noun      *)
(* phrase it is about, what that phrase describes, and whether it opens    *)
(* with "Correction:".                                                     *)
(***************************************************************************)
EXTENDS ClaimEvidence

NoTarget == [kind |-> None, count |-> 0, ordinal |-> 0, aspect |-> None]
Target(kind, count, ordinal) == [NoTarget EXCEPT !.kind = kind, !.count = count, !.ordinal = ordinal]

(***************************************************************************)
(* Withdrawals (withdrawal_intent, withdrawal_target).                     *)
(***************************************************************************)
Rejecting == {"no_longer_stand_by", "neither"}
Judging == {"was_wrong", "no_longer_stands"}
Withdrawing == {"retract", "correct", "been_withdrawn", "take_back", "disregard"} \cup Rejecting \cup Judging

\* "neither of those claims should stand" is about both.
Phrase(control) == IF control.act = "neither" THEN "both" ELSE control.form

Ordinals == [first |-> 0, second |-> 1, third |-> 2, last |-> -1]
WithdrawalTarget(control) ==
  LET form == Phrase(control)
  IN  CASE form \in {"one_of", "some_of"} -> Target("partial", 0, 0)
        [] form = "either_of" ->
             IF control.act \in Rejecting THEN Target("plural", 2, 0) ELSE Target("partial", 0, 0)
        [] form = "both" -> Target("plural", 2, 0)
        [] form \in {"each", "all", "those"} -> Target("plural", 0, 0)
        [] form \in DOMAIN Ordinals -> Target("ordinal", 0, Ordinals[form])
        [] form = "about" -> Target("proposition", 0, 0)
        [] form \in {"that", "what_I_said", "email_claim", "reply_claim", "draft_claim"} ->
             Target("singular", 0, 0)

WithdrawalRelation(control) ==
  IF control.act = "correct" \/ (control.act = "was_wrong" /\ control.reset)
  THEN "corrects" ELSE "retracts"

(***************************************************************************)
(* Controls as claims (lifecycle_clause).                                  *)
(***************************************************************************)
NamedAction == [email_claim |-> "send", reply_claim |-> "reply", draft_claim |-> "create",
                the_email |-> "send", the_reply |-> "reply"]
ActionNamed(form) == IF form \in DOMAIN NamedAction THEN NamedAction[form] ELSE None
ChannelOf(action) == IF action \in {"send", "reply"} THEN "email" ELSE None

Withdrawal(control) ==
  LET target == WithdrawalTarget(control)
      about == control.about
      described == Phrase(control) = "about"
      action == IF described THEN about.action ELSE ActionNamed(Phrase(control))
  IN  [action |-> action, polarity |-> "abstention", speech |-> "control", aspect |-> "action",
       references |-> IF described THEN about.references ELSE {},
       channel |-> IF described /\ about.kind = "outcome" THEN about.channel ELSE ChannelOf(action),
       relation |-> WithdrawalRelation(control), named |-> FALSE,
       target |-> IF ~described \/ about.kind = "reference" THEN target
                  ELSE IF about.kind = "outcome" THEN [target EXCEPT !.aspect = about.aspect]
                  ELSE [target EXCEPT !.kind = "unresolved"]]

\* The sentences that are no withdrawal: what they do, and how they are said.
Reaffirming == {"confirm", "was_sent", "verified_now"}
Correcting == {"cannot_verify", "was_not_sent"}
Resumption(control) ==
  LET action == IF control.act = "said_before" /\ ActionNamed(control.form) = None THEN "send"
                ELSE ActionNamed(control.form)
  IN  [action |-> action, channel |-> ChannelOf(action), target |-> NoTarget,
       references |-> IF control.form = "about" THEN control.about.references ELSE {},
       aspect |-> IF control.act = "verified_now" THEN "verification" ELSE "action",
       relation |-> CASE control.act \in Reaffirming -> "confirms"
                      [] control.act \in Correcting -> "corrects"
                      [] control.act = "said_before" -> "history",
       polarity |-> CASE control.act \in Reaffirming -> "positive"
                      [] control.act = "was_not_sent" -> "negative"
                      [] OTHER -> "uncertain",
       speech |-> CASE control.act \in Reaffirming -> "factual"
                    [] control.act \in Correcting -> "control"
                    [] control.act = "said_before" -> "reported",
       named |-> ActionNamed(control.form) \in {"send", "reply"}]

LifecycleClause(control) ==
  IF control.act \in Withdrawing THEN Withdrawal(control) ELSE Resumption(control)

(***************************************************************************)
(* Interpretation: scope comes from how a thing is said.                   *)
(***************************************************************************)
SpeechScopes ==
  [quoted |-> "quoted", reported |-> "reported", conditional |-> "conditional",
   hypothetical |-> "hypothetical", negated |-> "negated", retracted |-> "retracted",
   unresolved |-> "ambiguous"]
PolarityScopes ==
  [positive |-> "asserted", negative |-> "negated", uncertain |-> "uncertain",
   abstention |-> "non_claim", unparsed |-> "ambiguous"]
Scope(raw) ==
  CASE raw.speech = "control" ->
         IF raw.polarity \in {"negative", "uncertain"} THEN PolarityScopes[raw.polarity] ELSE "non_claim"
    [] raw.speech \in DOMAIN SpeechScopes -> SpeechScopes[raw.speech]
    [] OTHER -> PolarityScopes[raw.polarity]

Interpret(raw, position) ==
  [position |-> position, scope |-> Scope(raw), lifecycle |-> "active",
   action |-> raw.action, aspect |-> raw.aspect, references |-> raw.references,
   channel |-> raw.channel, relation |-> raw.relation, target |-> raw.target, named |-> raw.named]

(***************************************************************************)
(* Lifecycle: a claim changes the ones before it, on what was said alone.  *)
(* The claims of one statement have one position.                          *)
(***************************************************************************)
Proposition(c) == <<c.action, c.references, c.channel, c.aspect>>

\* Only our own factual acts alter our claims.
ActsOnClaims(c) ==
  /\ c.relation \in {"retracts", "corrects", "confirms"}
  /\ \/ c.scope \in {"non_claim", "asserted"}
     \/ c.relation = "corrects" /\ c.scope \in {"negated", "uncertain"}

Describes(c, old) ==
  /\ c.references \subseteq old.references
  /\ c.action \in {None, old.action}
  /\ c.channel \in {None, old.channel}
  /\ c.target.aspect \in {None, old.aspect}

Eligible(c, old) ==
  /\ old.scope = "asserted" \/ old.relation = "history"
  /\ \/ old.lifecycle \in {"active", "ambiguous"}
     \/ c.relation = "confirms"
     \/ old.relation = "history"
     \/ c.target.kind = "ordinal"
  /\ Describes(c, old)

\* The n-th of a set of indices; -1 is the last.
Nth(indices, ordinal) ==
  LET n == IF ordinal < 0 THEN Cardinality(indices) + ordinal ELSE ordinal
  IN  {i \in indices : Cardinality({j \in indices : j < i}) = n}

\* Seeded fault: of several that a demonstrative could mean, the latest.
MutTargets(resolved, c) ==
  LET eligible == {i \in DOMAIN resolved : Eligible(c, resolved[i])}
  IN  [of |-> IF eligible = {} THEN {} ELSE {Max(eligible)}, certain |-> eligible # {}]

\* The claims that c may be about, and whether it is certain that it is.
Targets(resolved, c) ==
  LET eligible == {i \in DOMAIN resolved : Eligible(c, resolved[i])}
      latest == Max(eligible)
      group == {i \in eligible : resolved[i].position = resolved[latest].position}
      one == IF c.relation = "confirms" /\ Cardinality({Proposition(resolved[i]) : i \in eligible}) = 1
             THEN {latest} ELSE eligible
      \* Distinct obligations would have to be conjoined.
      clashes == /\ c.relation = "confirms" /\ c.aspect # "action"
                 /\ resolved[latest].aspect \notin {"action", c.aspect}
      nth == Nth(group, c.target.ordinal)
  IN  IF eligible = {} THEN [of |-> {}, certain |-> FALSE]
      ELSE CASE c.target.kind = "plural" -> [of |-> group, certain |-> c.target.count \in {0, Cardinality(group)}]
             [] c.target.kind = "partial" -> [of |-> group, certain |-> FALSE]
             [] c.target.kind = "ordinal" ->
                  IF nth # {} THEN [of |-> nth, certain |-> TRUE] ELSE [of |-> group, certain |-> FALSE]
             [] c.target.kind = "unresolved" -> [of |-> eligible, certain |-> FALSE]
             [] OTHER -> [of |-> one, certain |-> Cardinality(one) = 1 /\ ~clashes]

Outcomes == [retracts |-> "retracted", corrects |-> "corrected", confirms |-> "confirmed"]

\* A confirmation asserts the whole proposition again, at its own position.
Reasserted(c, old) ==
  [c EXCEPT !.scope = "asserted", !.action = old.action, !.references = old.references,
            !.channel = old.channel,
            !.aspect = IF c.aspect = "action" THEN old.aspect ELSE c.aspect]

ResolveClaim(resolved, c) ==
  LET t == Targets(resolved, c)
      Marked(state) ==
        [i \in DOMAIN resolved |->
           IF i \in t.of THEN [resolved[i] EXCEPT !.lifecycle = state] ELSE resolved[i]]
  IN  IF ~ActsOnClaims(c)
      THEN Append(resolved, IF c.relation = "history" THEN [c EXCEPT !.lifecycle = "control"] ELSE c)
      ELSE IF ~t.certain
      THEN Append(Marked("ambiguous"), [c EXCEPT !.lifecycle = "ambiguous"])
      ELSE Append(Marked(Outcomes[c.relation]),
                  IF c.relation = "confirms" THEN Reasserted(c, resolved[Max(t.of)])
                  ELSE [c EXCEPT !.lifecycle = "control"])

ResolveLifecycle(claims) == FoldLeft(ResolveClaim, <<>>, claims)
=============================================================================
