-------------------------- MODULE AdapterRun_proofs --------------------------
(* What the record of a run supports, for any adapter, model and target,   *)
(* any budgets and any moment at which something raises.                   *)
EXTENDS AdapterRun, FiniteSetTheorems, WellFoundedInduction, TLAPS

-----------------------------------------------------------------------------
(* The invariant. *)

(* Where a run is says what has been raised and which calls are left.      *)
Closed == {"closing", "ended"}
PhaseInv ==
  /\ phase \notin Closed \cup {"raised"} => exc = None
  /\ phase = "raised" => exc # None
  /\ phase \notin Closed => ~output /\ termination = None
  /\ adapter = "custom" => responses = <<>> /\ phase \notin {"turn", "requested", "dispatch"}
  /\ adapter # "custom" => phase # "agent"
  /\ phase = "prepared" => events = <<>> /\ responses = <<>>
  /\ exc = None /\ phase \notin {"dispatch", "escaped"} => todo = {}
  /\ responses = <<>> => todo = {} /\ phase # "dispatch"
  /\ responses # <<>> => todo \subseteq DOMAIN responses[Len(responses)].calls

(* Turns delivered, stages begun, and the stages of the responses.         *)
Turns == IF phase = "prepared" THEN 0 ELSE delivered + 1
StageInv ==
  /\ stages = IF phase \in {"prepared", "stage"} THEN delivered ELSE delivered + 1
  /\ Cardinality(EventsOf("user_turn")) = Turns
  /\ phase = "prepared" => delivered = 0
  /\ \A r \in DOMAIN responses : responses[r].stage <= stages
  /\ \A r \in DOMAIN responses : r > stageStart => responses[r].stage = stages
  /\ phase = "dispatch" => stageStart < Len(responses)
  /\ \A n \in 1..Turns : Delivery(events, n) # {}

(* How a run ended says what was raised.                                   *)
EndInv ==
  phase \in Closed =>
    /\ output <=> exc = None /\ termination = "completed"
    /\ output => delivered = followups
    /\ exc = None => termination \in {"completed", "max_model_turns"}
    /\ termination = "completed" /\ ~output =>
         adapter = "openai" /\ exc = "model_behavior" /\ Undeclared(stageStart) # {}
    /\ exc \in {"error", "wall_time", "cancelled", "retries"} => termination \in InfraEnds
    /\ exc = "model_turns" => termination = "max_model_turns"
    /\ exc = "tokens" <=> termination = "token_budget"
    /\ exc = "cost_usd" <=> termination = "cost_budget"
    /\ exc = "tool_calls" <=> termination = "max_tool_calls"

(* An attempt is followed by what was made of it, and only attempts are.   *)
PairInv ==
  /\ \A i \in Attempts(events) :
       /\ i + 1 \in DOMAIN events
       /\ events[i + 1].type \in {"tool_result", "error"}
       /\ events[i + 1].type = "error" => exc = "error"
       /\ events[i + 1].of = i
  /\ \A i \in EventsOf("tool_result") : i - 1 \in Attempts(events) /\ events[i].of = i - 1

(* The responses are the events that say so, in their order.               *)
ResponseInv ==
  /\ \A r \in DOMAIN responses : responses[r].event \in EventsOf("model_response")
  /\ \A i \in EventsOf("model_response") : \E r \in DOMAIN responses : responses[r].event = i
  /\ \A r, s \in DOMAIN responses : r < s => responses[r].event < responses[s].event

(* Where the evidence of a call is: after its response and before the      *)
(* next, and between the user turns around its stage.                      *)
Within(i, r) ==
  /\ responses[r].event < i
  /\ r + 1 \in DOMAIN responses => i < responses[r + 1].event
Staged(i, r) ==
  \A k \in DOMAIN events : \A n \in 1..(followups + 1) :
    k \in Delivery(events, n) => (k < i <=> n <= responses[r].stage)
Told(i) ==
  LET c == events[i].made
  IN  /\ c \in AllCalls
      /\ events[i].tool = CallAt(c).tool /\ events[i].args = CallAt(c).args
(* PydanticAI's undeclared calls are recorded when the stage is over.      *)
Placed(c) == KindOf(c) # "undeclared" \/ adapter = "openai"
Tried(i) ==
  LET c == events[i].made
  IN  /\ Told(i) /\ KindOf(c) # "handoff"
      /\ Placed(c) =>
           events[i].of = responses[c[1]].event /\ Within(i, c[1]) /\ Staged(i, c[1])
AttemptInv == adapter # "custom" => \A i \in Attempts(events) : Tried(i)
HandoffInv ==
  \A h \in EventsOf("handoff") :
    LET c == events[h].made
    IN  /\ Told(h) /\ KindOf(c) = "handoff" /\ First(c) /\ Within(h, c[1])
        /\ c[1] = Len(responses) => todo = {}
        /\ \A d \in AllCalls : d[1] = c[1] => KindOf(d) # "undeclared"
        /\ \A i \in Attempts(events) : events[i].made[1] = c[1] => i < h
IgnoredInv ==
  \A h \in EventsOf("ignored_handoff") :
    phase = "ended" /\ Told(h) /\ KindOf(events[h].made) = "handoff" /\ ~First(events[h].made)

(* Which calls have evidence, and none has it twice.                       *)
Open(c) == c[1] = Len(responses) /\ c[2] \in todo
Searched ==
  IF adapter = "openai" THEN termination = "completed" /\ ~output
  ELSE phase \in {"stage", "staged"} \/ (phase \in Closed /\ exc = None)
Due(c) ==
  \/ KindOf(c) = "declared" /\ ~Open(c)
  \/ KindOf(c) = "malformed" /\ ~Open(c) /\ adapter = "openai"
  \/ KindOf(c) = "undeclared" /\ (Searched \/ (adapter = "pydantic" /\ c[1] <= stageStart))
  \/ KindOf(c) = "handoff" /\ IF First(c) THEN ~Open(c) ELSE phase = "ended"
Evidenced(c) ==
  /\ ~Due(c) => Witness(c) = {}
  /\ Due(c) => \E i \in DOMAIN events : Witness(c) = {i}
WitnessInv == exc # "error" => \A c \in AllCalls : Evidenced(c)
KindInv ==
  /\ phase = "dispatch" /\ todo # {} => \A c \in Handoffs(Len(responses)) : c[2] \in todo
  /\ adapter = "pydantic" =>
       \A c \in AllCalls : /\ KindOf(c) # "handoff"
                           /\ KindOf(c) = "undeclared" <=> CallAt(c).tool \notin ToolNames
  /\ adapter = "openai" =>
       \A c \in AllCalls : KindOf(c) = "undeclared" =>
         /\ phase \in Closed \cup {"raised"} /\ exc # None
         /\ c[1] = Len(responses) /\ c[1] > stageStart

(* What the tracker counted is what the record adds up to, until it raises.*)
BudgetInv ==
  /\ exc \notin {"model_turns", "wall_time"} =>
       Cardinality(EventsOf("model_request")) = spent.turns
  /\ CallsUsed > MaxToolCalls =>
       exc = "error" \/ \E i \in DOMAIN events : events[i].status = "over_budget"
  /\ exc = "tool_calls" => CallsUsed > MaxToolCalls
  /\ exc \notin {"error", "wall_time", "tokens"} => Sum("tokens") = spent.tokens
  /\ exc = "tokens" => Sum("tokens") > TokenLimit
  /\ adapter = "openai" /\ exc \notin {"error", "wall_time", "tokens", "cost_usd"} =>
       Sum("cost") = spent.cost
  /\ exc = "cost_usd" => Sum("cost") > CostLimit

(* After its time a run is given nothing but the answers to calls that were *)
(* planned before, or it has raised.                                       *)
Planned ==
  {c \in AllCalls :
     Observed /\ KindOf(c) = "declared" /\ responses[c[1]].event < expired}
ClockInv ==
  /\ latency > WallClock => Late
  /\ Late /\ exc \notin {"wall_time", "error"} =>
       /\ \A i \in EventsOf("model_request") : i < expired
       /\ \A r \in DOMAIN responses :
            responses[r].usage # Unknown => responses[r].event < expired
       /\ \A i \in EventsOf("tool_result") :
            expired <= i /\ events[i].status # "over_budget" => events[i].made \in Planned

RunInv ==
  /\ TypeOK /\ PhaseInv /\ StageInv /\ EndInv /\ PairInv /\ ResponseInv
  /\ AttemptInv /\ HandoffInv /\ IgnoredInv /\ WitnessInv /\ KindInv /\ BudgetInv
  /\ ClockInv

-----------------------------------------------------------------------------
(* The order of calls.                                                     *)

Pairs == Nat \X Nat

(* A set of numbers that is not empty has a least one.                     *)
LEMMA LeastNumber ==
  ASSUME NEW T \in SUBSET Nat, T # {}
  PROVE  \E n \in T : \A m \in T : n <= m
<1>1. PICK n \in T : \A m \in T : ~(<<m, n>> \in OpToRel(<, Nat))
  BY NatLessThanWellFounded, WFMin, ZenonT(60)
<1>2. \A m \in T : ~(m < n)
  BY <1>1 DEF OpToRel
<1> QED
  BY <1>2

(* A call made first: of the first response, the first.                    *)
LEMMA EarliestCall ==
  ASSUME NEW U \in SUBSET Pairs, U # {}
  PROVE  \E c \in U : \A d \in U \ {c} : Before(c, d)
<1> DEFINE Rs == {r \in Nat : \E c \in U : c[1] = r}
<1>1. PICK r \in Rs : \A s \in Rs : r <= s
  <2>1. Rs \in SUBSET Nat /\ Rs # {}
    BY DEF Pairs
  <2> HIDE DEF Rs
  <2> QED
    BY <2>1, LeastNumber
<1> DEFINE Is == {i \in Nat : <<r, i>> \in U}
<1>2. PICK i \in Is : \A j \in Is : i <= j
  <2>1. PICK c \in U : c[1] = r
    BY <1>1
  <2>2. c[2] \in Nat /\ c = <<r, c[2]>>
    BY <2>1 DEF Pairs
  <2>3. Is \in SUBSET Nat /\ Is # {}
    BY <2>1, <2>2
  <2> HIDE DEF Is
  <2> QED
    BY <2>3, LeastNumber
<1>3. <<r, i>> \in U /\ r \in Nat /\ i \in Nat
  BY <1>1, <1>2
<1>4. ASSUME NEW d \in U \ {<<r, i>>}
      PROVE  Before(<<r, i>>, d)
  <2>1. d = <<d[1], d[2]>> /\ d[1] \in Nat /\ d[2] \in Nat
    BY DEF Pairs
  <2>2. r <= d[1]
    BY <1>1, <2>1
  <2>3. d[1] = r => i <= d[2] /\ d[2] # i
    BY <1>2, <1>4, <2>1
  <2> QED
    BY <1>3, <2>1, <2>2, <2>3 DEF Before
<1> QED
  BY <1>3, <1>4

Ordered(U, n) ==
  \E seq \in [1..n -> U] :
    \A j, k \in 1..n : j < k => Before(seq[j], seq[k])

LEMMA CallsCanBeOrdered ==
  ASSUME NEW T \in SUBSET Pairs, IsFiniteSet(T)
  PROVE  Ordered(T, Cardinality(T))
<1> DEFINE Bad(U) == U \subseteq Pairs /\ IsFiniteSet(U) /\ ~Ordered(U, Cardinality(U))
           Sizes == {n \in Nat : \E U \in SUBSET Pairs : Bad(U) /\ Cardinality(U) = n}
<1>1. SUFFICES ASSUME Bad(T) PROVE FALSE
  OBVIOUS
<1>2. Cardinality(T) \in Sizes
  BY <1>1, FS_CardinalityType
<1>3. PICK n \in Sizes : \A m \in Sizes : n <= m
  <2>1. Sizes \in SUBSET Nat /\ Sizes # {}
    BY <1>2
  <2> HIDE DEF Sizes
  <2> QED
    BY <2>1, LeastNumber
<1>4. PICK U \in SUBSET Pairs : Bad(U) /\ Cardinality(U) = n
  BY <1>3
<1>5. n \in Nat
  BY <1>3
<1>6. U # {}
  <2> SUFFICES ASSUME U = {} PROVE FALSE
    OBVIOUS
  <2>1. n = 0
    BY <1>4, FS_EmptySet
  <2>2. [i \in 1..0 |-> 0] \in [1..0 -> U]
    OBVIOUS
  <2>3. Ordered(U, 0)
    BY <2>2 DEF Ordered
  <2> QED
    BY <1>4, <2>1, <2>3
<1>7. PICK c \in U : \A d \in U \ {c} : Before(c, d)
  BY <1>4, <1>6, EarliestCall
<1> DEFINE V == U \ {c}
<1>8. /\ IsFiniteSet(V)
      /\ Cardinality(V) = n - 1
      /\ V \in SUBSET Pairs
  BY <1>4, FS_RemoveElement
<1>9. n - 1 \in Nat /\ n - 1 \notin Sizes
  <2>1. n - 1 \in Nat
    BY <1>8, FS_CardinalityType
  <2> QED
    BY <1>3, <2>1
<1>10. PICK s \in [1..(n - 1) -> V] : \A i, j \in 1..(n - 1) : i < j => Before(s[i], s[j])
  BY <1>8, <1>9 DEF Ordered
<1> DEFINE z == [i \in 1..n |-> IF i = 1 THEN c ELSE s[i - 1]]
<1>11. z \in [1..n -> U]
  BY <1>5, <1>10
<1>12. ASSUME NEW i \in 1..n, NEW j \in 1..n, i < j
       PROVE  Before(z[i], z[j])
  <2>1. j - 1 \in 1..(n - 1) /\ z[j] = s[j - 1] /\ s[j - 1] \in V
    BY <1>5, <1>10, <1>12
  <2>2. CASE i = 1
    BY <1>7, <2>1, <2>2
  <2>3. CASE i # 1
    <3>1. i - 1 \in 1..(n - 1) /\ z[i] = s[i - 1] /\ i - 1 < j - 1
      BY <1>5, <1>12, <2>3
    <3> QED
      BY <1>10, <2>1, <3>1
  <2> QED
    BY <2>2, <2>3
<1>13. Ordered(U, n)
  BY <1>11, <1>12 DEF Ordered
<1> QED
  BY <1>4, <1>13

(* A finite set of calls in order has each of them once.                   *)
LEMMA InOrderLists ==
  ASSUME NEW T \in SUBSET Pairs, IsFiniteSet(T)
  PROVE  /\ Cardinality(T) \in Nat
         /\ InOrder(T) \in [1..Cardinality(T) -> T]
         /\ \A c \in T : \E k \in 1..Cardinality(T) : InOrder(T)[k] = c
         /\ \A j, k \in 1..Cardinality(T) : InOrder(T)[j] = InOrder(T)[k] => j = k
<1> DEFINE n == Cardinality(T)
           s == InOrder(T)
<1>1. n \in Nat
  BY FS_CardinalityType
<1>2. \E seq \in [1..n -> T] : \A j, k \in DOMAIN seq : j < k => Before(seq[j], seq[k])
  <2>1. PICK seq \in [1..n -> T] : \A j, k \in 1..n : j < k => Before(seq[j], seq[k])
    BY CallsCanBeOrdered DEF Ordered
  <2> QED
    BY <2>1
<1>3. s \in [1..n -> T] /\ \A j, k \in DOMAIN s : j < k => Before(s[j], s[k])
  BY <1>2 DEF InOrder
<1> HIDE DEF s
<1>4. ASSUME NEW j \in 1..n, NEW k \in 1..n, s[j] = s[k]
      PROVE  j = k
  <2>1. s[j] \in Pairs
    BY <1>3
  <2>2. ~Before(s[j], s[j])
    BY <2>1 DEF Pairs, Before
  <2> QED
    BY <1>1, <1>3, <1>4, <2>2
<1>5. s \in Injection(1..n, T)
  BY <1>3, <1>4 DEF Injection, IsInjective
<1>6. s \in Surjection(1..n, T)
  <2>1. IsFiniteSet(1..n) /\ Cardinality(1..n) = n
    BY <1>1, FS_Interval
  <2> QED
    BY <1>1, <1>5, <2>1, FS_Injection
<1> QED
  BY <1>1, <1>3, <1>4, <1>6 DEF s, Surjection

-----------------------------------------------------------------------------
(* The record and its calls.                                               *)

LEMMA RecordLength ==
  ASSUME TypeOK
  PROVE  /\ Len(events) \in Nat /\ DOMAIN events = 1..Len(events)
         /\ \A i \in DOMAIN events : events[i] \in EventType
         /\ Len(responses) \in Nat /\ DOMAIN responses = 1..Len(responses)
         /\ \A r \in DOMAIN responses : responses[r] \in ResponseType
BY DEF TypeOK

(* A set of events is finite.                                              *)
LEMMA FiniteEvents ==
  ASSUME TypeOK, NEW S \in SUBSET (DOMAIN events)
  PROVE  IsFiniteSet(S) /\ Cardinality(S) \in Nat
<1>1. IsFiniteSet(1..Len(events))
  BY RecordLength, FS_Interval
<1> QED
  BY <1>1, RecordLength, FS_Subset, FS_CardinalityType

LEMMA CallsUsedType ==
  ASSUME TypeOK
  PROVE  CallsUsed \in Nat
BY FiniteEvents DEF CallsUsed, Attempts

(* The latest event of a type.                                             *)
LEMMA LatestEvent ==
  ASSUME TypeOK, NEW type
  PROVE  /\ Latest(type) \in 0..Len(events)
         /\ EventsOf(type) # {} =>
              /\ Latest(type) \in EventsOf(type)
              /\ \A i \in EventsOf(type) : i <= Latest(type)
<1> DEFINE T == EventsOf(type)
           Gaps == {d \in Nat : \E i \in T : d = Len(events) - i}
<1>1. T \subseteq 1..Len(events) /\ Len(events) \in Nat
  BY RecordLength DEF EventsOf
<1>2. CASE T = {}
  BY <1>1, <1>2 DEF Latest
<1>3. CASE T # {}
  <2>1. Gaps \in SUBSET Nat /\ Gaps # {}
    <3>1. PICK i \in T : TRUE
      BY <1>3
    <3>2. Len(events) - i \in Nat
      BY <1>1, <3>1
    <3> HIDE DEF T
    <3> QED
      BY <3>1, <3>2
  <2>2. PICK d \in Gaps : \A e \in Gaps : d <= e
    <3> HIDE DEF Gaps
    <3> QED
      BY <2>1, LeastNumber
  <2>3. PICK i \in T : d = Len(events) - i
    BY <2>2
  <2> HIDE DEF T
  <2>4. \A j \in T : i >= j
    <3> SUFFICES ASSUME NEW j \in T PROVE i >= j
      OBVIOUS
    <3>1. i \in Nat /\ j \in Nat /\ Len(events) - j \in Nat
      BY <1>1, <2>3
    <3>2. Len(events) - j \in Gaps
      BY <3>1
    <3>3. d <= Len(events) - j
      BY <2>2, <3>2
    <3> QED
      BY <1>1, <2>3, <3>1, <3>3
  <2>5. Latest(type) = Max(T)
    BY <1>3 DEF Latest, T
  <2>6. Max(T) \in T /\ \A j \in T : Max(T) >= j
    BY <2>4 DEF Max
  <2> QED
    BY <1>1, <2>5, <2>6 DEF T
<1> QED
  BY <1>2, <1>3

(* What a call is: a place in a response.                                  *)
LEMMA CallsOfRun ==
  ASSUME TypeOK
  PROVE  /\ \A c : c \in AllCalls <=>
              /\ c \in Pairs /\ c[1] \in DOMAIN responses
              /\ c[2] \in DOMAIN responses[c[1]].calls
         /\ \A c \in AllCalls : CallAt(c) \in CallType /\ KindOf(c) \in CallKinds
<1>1. \A r \in DOMAIN responses : /\ r \in Nat
                                 /\ responses[r].calls \in Calls
                                 /\ responses[r].calls \in Seq(CallType)
                                 /\ DOMAIN responses[r].calls \subseteq Nat
  BY RecordLength, AdapterAssumption DEF ResponseType
<1>2. ASSUME NEW c
      PROVE  c \in AllCalls <=>
               /\ c \in Pairs /\ c[1] \in DOMAIN responses
               /\ c[2] \in DOMAIN responses[c[1]].calls
  <2>1. c \in AllCalls <=>
          \E r \in DOMAIN responses : \E i \in DOMAIN responses[r].calls : c = <<r, i>>
    BY DEF AllCalls, Of
  <2>2. ASSUME c \in Pairs PROVE c = <<c[1], c[2]>>
    BY <2>2 DEF Pairs
  <2> QED
    BY <1>1, <2>1, <2>2 DEF Pairs
<1>3. ASSUME NEW c \in AllCalls
      PROVE  CallAt(c) \in CallType /\ KindOf(c) \in CallKinds
  <2>1. responses[c[1]].calls \in Seq(CallType) /\ c[2] \in DOMAIN responses[c[1]].calls
    BY <1>1, <1>2
  <2>2. responses[c[1]].calls[c[2]] \in CallType
    BY <2>1
  <2> QED
    BY <2>2 DEF CallAt, KindOf, CallType
<1> QED
  BY <1>2, <1>3

LEMMA FiniteCalls ==
  ASSUME TypeOK, NEW T \in SUBSET AllCalls
  PROVE  T \in SUBSET Pairs /\ IsFiniteSet(T)
<1> DEFINE R == DOMAIN responses
           f == [r \in R |-> Of(r)]
           F == {Of(r) : r \in R}
<1>1. R = 1..Len(responses) /\ IsFiniteSet(R)
  BY RecordLength, FS_Interval
<1>2. IsFiniteSet(F)
  <2>1. f \in Surjection(R, F)
    BY DEF Surjection
  <2> HIDE DEF f, F, R
  <2> QED
    BY <1>1, <2>1, FS_Surjection
<1>3. ASSUME NEW r \in R
      PROVE  IsFiniteSet(Of(r))
  <2> DEFINE D == DOMAIN responses[r].calls
  <2>1. responses[r].calls \in Seq(CallType)
    BY RecordLength, AdapterAssumption DEF ResponseType
  <2>2. IsFiniteSet(D)
    <3>1. D = 1..Len(responses[r].calls) /\ Len(responses[r].calls) \in Int
      BY <2>1
    <3> QED
      BY <3>1, FS_Interval
  <2>3. IsFiniteSet({r})
    BY FS_Singleton
  <2>4. Of(r) = {r} \X D
    BY DEF Of
  <2> QED
    BY <2>2, <2>3, <2>4, FS_Product
<1>4. IsFiniteSet(AllCalls)
  <2>1. AllCalls = UNION F
    BY DEF AllCalls
  <2>2. \A t \in F : IsFiniteSet(t)
    BY <1>3
  <2> HIDE DEF F
  <2> QED
    BY <1>2, <2>1, <2>2, FS_UNION
<1> QED
  BY <1>4, CallsOfRun, FS_Subset

-----------------------------------------------------------------------------
(* What a step adds to the record.                                         *)

Keeps ==
  /\ events' \in Seq(EventType) /\ Len(events) <= Len(events')
  /\ \A i \in DOMAIN events : events'[i] = events[i]
New == (Len(events) + 1)..Len(events')

LEMMA Appending ==
  ASSUME TypeOK, NEW new \in Seq(EventType), Log(new)
  PROVE  /\ Keeps /\ Len(events') = Len(events) + Len(new)
         /\ \A k \in 1..Len(new) : events'[Len(events) + k] = new[k]
<1>1. events \in Seq(EventType) /\ events' = events \o new
  BY DEF TypeOK, Log
<1> QED
  BY <1>1 DEF Keeps

LEMMA Kept ==
  ASSUME TypeOK, Keeps
  PROVE  /\ Len(events) \in Nat /\ Len(events') \in Nat /\ Len(events) <= Len(events')
         /\ DOMAIN events = 1..Len(events) /\ DOMAIN events' = 1..Len(events')
         /\ DOMAIN events' = DOMAIN events \cup New
         /\ \A i \in New : i \in Nat /\ i > Len(events) /\ i \notin DOMAIN events
         /\ \A i \in DOMAIN events : events[i] \in EventType /\ events'[i] = events[i]
         /\ \A i \in DOMAIN events' : events'[i] \in EventType
<1>1. events \in Seq(EventType) /\ events' \in Seq(EventType) /\ Len(events) <= Len(events')
  BY DEF TypeOK, Keeps
<1>2. /\ Len(events) \in Nat /\ Len(events') \in Nat
      /\ DOMAIN events = 1..Len(events) /\ DOMAIN events' = 1..Len(events')
  BY <1>1
<1> QED
  BY <1>1, <1>2 DEF Keeps, New

(* The events of a type are the old ones and the new ones.                 *)
LEMMA KeptOf ==
  ASSUME TypeOK, Keeps, NEW type
  PROVE  EventsOf(type)' = EventsOf(type) \cup {i \in New : events'[i].type = type}
BY Kept DEF EventsOf

LEMMA KeptAttempts ==
  ASSUME TypeOK, Keeps
  PROVE  /\ Attempts(events) = EventsOf("tool_attempt")
         /\ Attempts(events)' = Attempts(events) \cup {i \in New : events'[i].type = "tool_attempt"}
<1>1. Attempts(events) = EventsOf("tool_attempt")
  BY DEF Attempts, EventsOf
<1>2. Attempts(events)' = EventsOf("tool_attempt")'
  BY DEF Attempts, EventsOf
<1> QED
  BY <1>1, <1>2, KeptOf

LEMMA KeptWitnesses ==
  ASSUME TypeOK, Keeps, NEW c
  PROVE  Witness(c)' = Witness(c) \cup
           {i \in New : /\ events'[i].made = c
                        /\ events'[i].type \in {"tool_attempt", "handoff", "ignored_handoff"}}
BY Kept DEF Witness

(* A user turn of the record stays the turn it is; another one is new.     *)
LEMMA KeptDeliveries ==
  ASSUME TypeOK, Keeps, NEW n
  PROVE  \A k : k \in Delivery(events, n)' <=>
           \/ k \in Delivery(events, n)
           \/ k \in New /\ k \in Delivery(events, n)'
<1> DEFINE Upto(k) == {j \in 1..k : events[j].type = "user_turn"}
           Upto2(k) == {j \in 1..k : events'[j].type = "user_turn"}
<1>1. ASSUME NEW k \in DOMAIN events PROVE Upto(k) = Upto2(k)
  <2>1. \A j \in 1..k : j \in DOMAIN events
    BY Kept
  <2> QED
    BY <2>1, Kept
<1>2. \A k : k \in Delivery(events, n) <=>
         k \in DOMAIN events /\ events[k].type = "user_turn" /\ Cardinality(Upto(k)) = n
  BY DEF Delivery
<1>3. \A k : k \in Delivery(events, n)' <=>
         k \in DOMAIN events' /\ events'[k].type = "user_turn" /\ Cardinality(Upto2(k)) = n
  BY DEF Delivery
<1> HIDE DEF Upto, Upto2
<1> QED
  BY <1>1, <1>2, <1>3, Kept

(* The calls stay what they are as long as there is no response.           *)
LEMMA SameCalls ==
  ASSUME responses' = responses
  PROVE  /\ AllCalls' = AllCalls
         /\ \A c : /\ CallAt(c)' = CallAt(c) /\ KindOf(c)' = KindOf(c)
                   /\ First(c)' = First(c) /\ Handoffs(c[1])' = Handoffs(c[1])
         /\ \A r : Of(r)' = Of(r) /\ Handoffs(r)' = Handoffs(r)
<1>1. \A c : CallAt(c)' = CallAt(c) /\ KindOf(c)' = KindOf(c)
  BY DEF CallAt, KindOf
<1>2. \A r : Of(r)' = Of(r)
  BY DEF Of
<1>3. AllCalls' = AllCalls
  BY DEF AllCalls, Of
<1>4. \A r : Handoffs(r)' = Handoffs(r)
  BY <1>1, <1>2 DEF Handoffs
<1>5. \A c : First(c)' = First(c)
  BY <1>4 DEF First
<1> QED
  BY <1>1, <1>2, <1>3, <1>4, <1>5

(* Attempts are recorded with what was made of them.                       *)
Paired ==
  /\ \A i \in New : events'[i].type = "tool_attempt" =>
       /\ i + 1 \in New
       /\ events'[i + 1].type \in {"tool_result", "error"}
       /\ events'[i + 1].type = "error" => exc' = "error"
       /\ events'[i + 1].of = i
  /\ \A i \in New : events'[i].type = "tool_result" =>
       i - 1 \in New /\ events'[i - 1].type = "tool_attempt" /\ events'[i].of = i - 1
Counted ==
  /\ CallsUsed' \in Nat /\ CallsUsed <= CallsUsed'
  /\ CallsUsed' # CallsUsed /\ CallsUsed' > MaxToolCalls =>
       exc' = "error" \/ \E i \in New : events'[i].status = "over_budget"

(* The calls of a set are attempted, each of them once.                    *)
Tries(T) ==
  /\ \A i \in New : events'[i].type \in {"tool_attempt", "tool_result", "error"}
  /\ \A i \in New : events'[i].type = "tool_attempt" =>
       \E c \in T : events'[i] = Attempted(Latest("model_response"), CallAt(c), c)
  /\ \A c \in T : \E i \in New :
       /\ events'[i].type = "tool_attempt" /\ events'[i].made = c
       /\ \A j \in New : events'[j].type = "tool_attempt" /\ events'[j].made = c => j = i

(* The answers are about one call and have a status, but for the calls the *)
(* budget refuses; or every answer is a refusal if the time is over.       *)
Answers(made, status) ==
  \A i \in New : events'[i].type = "tool_result" =>
    /\ events'[i].made = made /\ status # "raised"
    /\ events'[i].status \in {status, "over_budget"}
RefusesLate ==
  Late => \A i \in New : events'[i].type = "tool_result" => events'[i].status = "over_budget"

(* No attempt, no answer and no response is added.                         *)
Mute ==
  \A i \in New : events'[i].type \notin {"tool_attempt", "tool_result", "model_response"}

LEMMA AttemptType ==
  ASSUME NEW source \in Nat, NEW call \in CallType, NEW made \in Pairs \cup {<<>>}
  PROVE  /\ Attempted(source, call, made) \in EventType
         /\ Attempted(source, call, made).type = "tool_attempt"
         /\ Attempted(source, call, made).of = source
         /\ Attempted(source, call, made).made = made
         /\ Attempted(source, call, made).tool = call.tool
         /\ Attempted(source, call, made).args = call.args
         /\ Attempted(source, call, made).status = None
BY DEF Attempted, Event, EventType, EventTypes, Statuses, CallType, None, Pairs

LEMMA AnswerType ==
  ASSUME NEW attempt \in Nat, NEW used \in Nat, NEW call \in CallType,
         NEW made \in Pairs \cup {<<>>}, NEW status \in Statuses
  PROVE  /\ Answered(attempt, used, call, made, status) \in EventType
         /\ Answered(attempt, used, call, made, status).type =
              IF status = "raised" THEN "error" ELSE "tool_result"
         /\ Answered(attempt, used, call, made, status).of = attempt
         /\ Answered(attempt, used, call, made, status).made = made
         /\ Answered(attempt, used, call, made, status).status =
              IF status # "raised" /\ used >= MaxToolCalls THEN "over_budget" ELSE status
BY DEF Answered, Event, EventType, EventTypes, Statuses, CallType, None, Pairs

LEMMA RefusalType ==
  /\ Refusal \in Statuses /\ Refusal # "raised" /\ "invalid" \in Statuses
  /\ Late => Refusal = "over_budget"
BY DEF Refusal, Statuses

LEMMA PlainType ==
  ASSUME NEW type \in EventTypes
  PROVE  Plain(type) \in EventType /\ Plain(type).type = type
BY DEF Plain, Event, EventType, Statuses, NoCall, None

LEMMA MuteStep ==
  ASSUME TypeOK, Keeps, Mute
  PROVE  Paired /\ Counted
<1>1. Attempts(events)' = Attempts(events)
  BY KeptAttempts DEF Mute
<1>2. CallsUsed' = CallsUsed
  BY <1>1 DEF CallsUsed
<1>3. Counted
  BY <1>2, CallsUsedType DEF Counted
<1>4. Paired
  BY DEF Paired, Mute
<1> QED
  BY <1>3, <1>4

LEMMA PairStep ==
  ASSUME TypeOK, NEW source \in Nat, NEW call \in CallType,
         NEW made \in Pairs \cup {<<>>}, NEW status \in Statuses,
         status = "raised" => exc' = "error",
         Log(Evidence(source, call, made, status))
  PROVE  /\ Keeps /\ New = {Len(events) + 1, Len(events) + 2}
         /\ events'[Len(events) + 1] = Attempted(source, call, made)
         /\ events'[Len(events) + 2].type \in {"tool_result", "error"}
         /\ CallsUsed' = CallsUsed + 1
         /\ Paired /\ Counted /\ Answers(made, status)
<1> DEFINE L == Len(events)
           a == Attempted(source, call, made)
           b == Answered(L + 1, CallsUsed, call, made, status)
<1>1. L \in Nat /\ CallsUsed \in Nat /\ MaxToolCalls \in Nat
  BY RecordLength, CallsUsedType, AdapterAssumption
<1>2. a \in EventType /\ b \in EventType
  <2> DEFINE at == L + 1
             used == CallsUsed
             e == Answered(at, used, call, made, status)
  <2>1. a \in EventType
    BY AttemptType
  <2>2. at \in Nat /\ used \in Nat
    BY <1>1
  <2> HIDE DEF at, used
  <2>3. e \in EventType
    BY <2>2, AnswerType
  <2> HIDE DEF a
  <2> QED
    BY <2>1, <2>3 DEF at, used
<1>3. /\ a.type = "tool_attempt"
      /\ b.type = IF status = "raised" THEN "error" ELSE "tool_result"
      /\ b.of = L + 1 /\ b.made = made /\ b.status \in {status, "over_budget"}
      /\ status # "raised" /\ CallsUsed >= MaxToolCalls => b.status = "over_budget"
  <2> DEFINE at == L + 1
             used == CallsUsed
             e == Answered(at, used, call, made, status)
  <2>1. a.type = "tool_attempt"
    BY AttemptType
  <2>2. at \in Nat /\ used \in Nat
    BY <1>1
  <2> HIDE DEF at, used
  <2>3. /\ e.type = IF status = "raised" THEN "error" ELSE "tool_result"
        /\ e.of = at /\ e.made = made
        /\ e.status = IF status # "raised" /\ used >= MaxToolCalls THEN "over_budget" ELSE status
    BY <2>2, AnswerType
  <2> HIDE DEF a
  <2> QED
    BY <2>1, <2>3 DEF at, used
<1>4. Log(<<a, b>>)
  BY DEF Evidence
<1> HIDE DEF a, b
<1>5. /\ Keeps /\ Len(events') = L + 2
      /\ events'[L + 1] = a /\ events'[L + 2] = b
  <2> DEFINE s == <<a, b>>
  <2>1. s \in Seq(EventType) /\ Len(s) = 2 /\ s[1] = a /\ s[2] = b
    BY <1>2
  <2>2. Log(s)
    BY <1>4
  <2> HIDE DEF s
  <2>3. Keeps /\ Len(events') = L + 2 /\ \A k \in 1..2 : events'[L + k] = s[k]
    BY <2>1, <2>2, Appending
  <2> QED
    BY <2>1, <2>3
<1>6. New = {L + 1, L + 2}
  BY <1>1, <1>5 DEF New
<1>7. Attempts(events)' = Attempts(events) \cup {L + 1} /\ L + 1 \notin Attempts(events)
  <2>1. {i \in New : events'[i].type = "tool_attempt"} = {L + 1}
    BY <1>1, <1>3, <1>5, <1>6
  <2>2. L + 1 \notin DOMAIN events
    BY <1>1, RecordLength
  <2> QED
    BY <1>5, <2>1, <2>2, KeptAttempts DEF Attempts
<1>8. CallsUsed' = CallsUsed + 1
  <2>1. IsFiniteSet(Attempts(events))
    BY FiniteEvents DEF Attempts
  <2> QED
    BY <1>7, <2>1, FS_AddElement DEF CallsUsed
<1>9. Paired
  BY <1>1, <1>3, <1>5, <1>6 DEF Paired
<1>10. Counted
  BY <1>1, <1>3, <1>5, <1>6, <1>8 DEF Counted
<1>11. Answers(made, status)
  BY <1>1, <1>3, <1>5, <1>6 DEF Answers
<1> QED
  BY <1>3, <1>5, <1>6, <1>8, <1>9, <1>10, <1>11 DEF a

LEMMA Halves ==
  /\ \A k \in Nat \ {0} :
       /\ (2 * k - 1) % 2 = 1 /\ (2 * k - 1 + 1) \div 2 = k
       /\ (2 * k) % 2 # 1 /\ (2 * k) \div 2 = k /\ (2 * k + 1) \div 2 = k
  /\ \A n \in Nat \ {0} : \E k \in Nat \ {0} : n = 2 * k - 1 \/ n = 2 * k
<1>1. ASSUME NEW n \in Nat \ {0}
      PROVE  \E k \in Nat \ {0} : n = 2 * k - 1 \/ n = 2 * k
  <2>1. (n + 1) \div 2 \in Nat \ {0}
    OBVIOUS
  <2>2. n = 2 * ((n + 1) \div 2) - 1 \/ n = 2 * ((n + 1) \div 2)
    OBVIOUS
  <2> QED
    BY <2>1, <2>2
<1> QED
  BY <1>1

(* What the search for blocked calls records of each of them.              *)
LEMMA BlockedRecord ==
  ASSUME TypeOK, NEW T \in SUBSET AllCalls
  PROVE  LET m == Cardinality(T)
             s == InOrder(T)
         IN  /\ Blocked(T) \in Seq(EventType) /\ Len(Blocked(T)) = 2 * m
             /\ \A k \in 1..m :
                  /\ Blocked(T)[2 * k - 1] =
                       Attempted(Latest("model_response"), CallAt(s[k]), s[k])
                  /\ Blocked(T)[2 * k] =
                       Answered(Len(events) + 2 * k - 1, CallsUsed + k - 1,
                                CallAt(s[k]), s[k], Refusal)
<1> DEFINE m == Cardinality(T)
           s == InOrder(T)
           r == Latest("model_response")
           B(n) == IF n % 2 = 1
                   THEN Attempted(r, CallAt(s[(n + 1) \div 2]), s[(n + 1) \div 2])
                   ELSE Answered(Len(events) + n - 1, CallsUsed + n \div 2 - 1,
                                 CallAt(s[(n + 1) \div 2]), s[(n + 1) \div 2], Refusal)
<1>1. m \in Nat /\ s \in [1..m -> T]
  BY FiniteCalls, InOrderLists
<1>2. Blocked(T) = [n \in 1..(2 * m) |-> B(n)]
  BY DEF Blocked
<1> HIDE DEF s, m
<1>3. ASSUME NEW k \in 1..m
      PROVE  /\ B(2 * k - 1) = Attempted(r, CallAt(s[k]), s[k])
             /\ B(2 * k) = Answered(Len(events) + 2 * k - 1, CallsUsed + k - 1,
                                    CallAt(s[k]), s[k], Refusal)
             /\ B(2 * k - 1) \in EventType /\ B(2 * k) \in EventType
  <2>1. k \in Nat \ {0}
    BY <1>1
  <2>2. /\ (2 * k - 1) % 2 = 1 /\ (2 * k - 1 + 1) \div 2 = k
        /\ (2 * k) % 2 # 1 /\ (2 * k) \div 2 = k /\ (2 * k + 1) \div 2 = k
    BY <2>1, Halves
  <2>3. /\ B(2 * k - 1) = Attempted(r, CallAt(s[k]), s[k])
        /\ B(2 * k) = Answered(Len(events) + 2 * k - 1, CallsUsed + k - 1,
                               CallAt(s[k]), s[k], Refusal)
    BY <2>2
  <2>4. s[k] \in T
    BY <1>1
  <2>5. CallAt(s[k]) \in CallType /\ s[k] \in Pairs /\ r \in Nat
    BY <2>4, CallsOfRun, LatestEvent, RecordLength
  <2>6. Len(events) + 2 * k - 1 \in Nat /\ CallsUsed + k - 1 \in Nat
    BY <2>1, RecordLength, CallsUsedType
  <2>7. Refusal \in Statuses
    BY RefusalType
  <2> HIDE DEF r, B
  <2> QED
    BY <2>3, <2>5, <2>6, <2>7, AttemptType, AnswerType
<1>4. ASSUME NEW n \in 1..(2 * m)
      PROVE  B(n) \in EventType
  <2>1. PICK k \in Nat \ {0} : n = 2 * k - 1 \/ n = 2 * k
    <3>1. n \in Nat \ {0}
      BY <1>1
    <3> QED
      BY <3>1, Halves
  <2>2. k \in 1..m
    BY <1>1, <2>1
  <2> HIDE DEF B
  <2> QED
    BY <1>3, <2>1, <2>2
<1>5. ASSUME NEW k \in 1..m
      PROVE  2 * k - 1 \in 1..(2 * m) /\ 2 * k \in 1..(2 * m)
  BY <1>1
<1> HIDE DEF B
<1>6. Blocked(T) \in Seq(EventType) /\ Len(Blocked(T)) = 2 * m
  BY <1>1, <1>2, <1>4
<1> QED
  BY <1>2, <1>3, <1>5, <1>6 DEF m, s, r

(* The calls found are attempted, each of them once, before anything else. *)
LEMMA BlockStep ==
  ASSUME TypeOK, NEW T \in SUBSET AllCalls, NEW new \in Seq(EventType), Log(new),
         Len(new) >= Len(Blocked(T)),
         \A n \in 1..Len(Blocked(T)) : new[n] = Blocked(T)[n],
         \A n \in DOMAIN new : n > Len(Blocked(T)) => new[n].type = "error"
  PROVE  Keeps /\ Tries(T) /\ Paired /\ Counted /\ RefusesLate
<1> DEFINE L == Len(events)
           m == Cardinality(T)
           s == InOrder(T)
           r == Latest("model_response")
<1>1. L \in Nat /\ m \in Nat /\ s \in [1..m -> T] /\ CallsUsed \in Nat /\ MaxToolCalls \in Nat
  BY FiniteCalls, InOrderLists, RecordLength, CallsUsedType, AdapterAssumption
<1>2. /\ Keeps /\ Len(events') = L + Len(new)
      /\ \A k \in 1..Len(new) : events'[L + k] = new[k]
  BY Appending
<1>3. Len(new) \in Nat /\ Len(new) >= 2 * m /\ Len(Blocked(T)) = 2 * m
  BY <1>1, BlockedRecord
<1>4. ASSUME NEW k \in 1..m
      PROVE  /\ L + 2 * k - 1 \in New /\ L + 2 * k \in New /\ s[k] \in T
             /\ events'[L + 2 * k - 1] = Attempted(r, CallAt(s[k]), s[k])
             /\ events'[L + 2 * k - 1].type = "tool_attempt"
             /\ events'[L + 2 * k - 1].made = s[k]
             /\ events'[L + 2 * k].type = "tool_result"
             /\ events'[L + 2 * k].of = L + 2 * k - 1
             /\ CallsUsed + k - 1 >= MaxToolCalls \/ Late => events'[L + 2 * k].status = "over_budget"
  <2>1. 2 * k - 1 \in 1..(2 * m) /\ 2 * k \in 1..(2 * m)
    BY <1>1
  <2>2. 2 * k - 1 \in 1..Len(new) /\ 2 * k \in 1..Len(new)
    BY <1>1, <1>3, <2>1
  <2>3. /\ new[2 * k - 1] = Attempted(r, CallAt(s[k]), s[k])
        /\ new[2 * k] = Answered(L + 2 * k - 1, CallsUsed + k - 1, CallAt(s[k]), s[k], Refusal)
    BY <1>3, <2>1, BlockedRecord
  <2>4. events'[L + (2 * k - 1)] = new[2 * k - 1] /\ events'[L + 2 * k] = new[2 * k]
    BY <1>2, <2>2
  <2>5. L + (2 * k - 1) = L + 2 * k - 1
    BY <1>1
  <2>6. L + 2 * k - 1 \in New /\ L + 2 * k \in New
    BY <1>1, <1>2, <1>3, <2>2 DEF New
  <2>7. s[k] \in T /\ CallAt(s[k]) \in CallType /\ s[k] \in Pairs /\ r \in Nat
    BY <1>1, CallsOfRun, LatestEvent
  <2>8. L + 2 * k - 1 \in Nat /\ CallsUsed + k - 1 \in Nat /\ Refusal \in Statuses
    BY <1>1, RefusalType, SMTT(60)
  <2> DEFINE a == Attempted(r, CallAt(s[k]), s[k])
             b == Answered(L + 2 * k - 1, CallsUsed + k - 1, CallAt(s[k]), s[k], Refusal)
  <2>9. a.type = "tool_attempt" /\ a.made = s[k]
    BY <2>7, <2>8, AttemptType, AnswerType
  <2>10. /\ b.type = "tool_result" /\ b.of = L + 2 * k - 1
         /\ CallsUsed + k - 1 >= MaxToolCalls \/ Late => b.status = "over_budget"
    <3> DEFINE at == L + 2 * k - 1
               used == CallsUsed + k - 1
    <3>1. at \in Nat /\ used \in Nat
      BY <2>8
    <3> HIDE DEF at, used
    <3>2. /\ Answered(at, used, CallAt(s[k]), s[k], Refusal).type = "tool_result"
          /\ Answered(at, used, CallAt(s[k]), s[k], Refusal).of = at
          /\ used >= MaxToolCalls \/ Late =>
               Answered(at, used, CallAt(s[k]), s[k], Refusal).status = "over_budget"
      BY <2>7, <2>8, <3>1, AttemptType, AnswerType, RefusalType, SMTT(60)
    <3> QED
      BY <3>2 DEF at, used
  <2> HIDE DEF a, b
  <2>11. events'[L + 2 * k - 1] = a /\ events'[L + 2 * k] = b
    BY <2>3, <2>4, <2>5 DEF a, b
  <2> QED
    BY <2>6, <2>7, <2>9, <2>10, <2>11 DEF a
<1>5. ASSUME NEW i \in New
      PROVE  \/ \E k \in 1..m : i = L + 2 * k - 1
             \/ \E k \in 1..m : i = L + 2 * k
             \/ i > L + 2 * m /\ events'[i].type = "error"
  <2>1. i \in Nat /\ i > L /\ i <= L + Len(new)
    BY <1>1, <1>2, <1>3 DEF New
  <2>2. CASE i > L + 2 * m
    <3>1. i - L \in 1..Len(new) /\ i - L > 2 * m
      BY <1>1, <1>3, <2>1, <2>2
    <3>2. events'[L + (i - L)] = new[i - L] /\ L + (i - L) = i
      BY <1>1, <1>2, <2>1, <3>1
    <3> QED
      BY <1>3, <2>2, <3>1, <3>2
  <2>3. CASE i <= L + 2 * m
    <3>1. i - L \in Nat \ {0}
      BY <1>1, <2>1
    <3>2. PICK k \in Nat \ {0} : i - L = 2 * k - 1 \/ i - L = 2 * k
      BY <3>1, Halves
    <3>3. k \in 1..m
      BY <1>1, <2>1, <2>3, <3>2
    <3> QED
      BY <1>1, <2>1, <3>2, <3>3
  <2> QED
    BY <1>1, <2>1, <2>2, <2>3
<1> HIDE DEF s, m, L
<1>6. Paired
  <2>1. ASSUME NEW i \in New, events'[i].type = "tool_attempt"
        PROVE  /\ i + 1 \in New /\ events'[i + 1].type = "tool_result"
               /\ events'[i + 1].of = i
    <3>1. PICK k \in 1..m : i = L + 2 * k - 1
      BY <1>4, <1>5, <2>1
    <3>2. i + 1 = L + 2 * k
      BY <1>1, <3>1
    <3> QED
      BY <1>4, <3>1, <3>2
  <2>2. ASSUME NEW i \in New, events'[i].type = "tool_result"
        PROVE  i - 1 \in New /\ events'[i - 1].type = "tool_attempt" /\ events'[i].of = i - 1
    <3>1. PICK k \in 1..m : i = L + 2 * k
      BY <1>4, <1>5, <2>2
    <3>2. i - 1 = L + 2 * k - 1
      BY <1>1, <3>1
    <3> QED
      BY <1>4, <3>1, <3>2, SMTT(60)
  <2> QED
    BY <2>1, <2>2 DEF Paired
<1>7. Tries(T)
  <2>1. ASSUME NEW i \in New
        PROVE  events'[i].type \in {"tool_attempt", "tool_result", "error"}
    BY <1>4, <1>5
  <2>2. ASSUME NEW i \in New, events'[i].type = "tool_attempt"
        PROVE  \E k \in 1..m : i = L + 2 * k - 1
    BY <1>4, <1>5, <2>2
  <2>3. ASSUME NEW i \in New, events'[i].type = "tool_attempt"
        PROVE  \E c \in T : events'[i] = Attempted(r, CallAt(c), c)
    BY <1>4, <2>2, <2>3
  <2>4. ASSUME NEW c \in T
        PROVE  \E i \in New :
                 /\ events'[i].type = "tool_attempt" /\ events'[i].made = c
                 /\ \A j \in New : events'[j].type = "tool_attempt" /\ events'[j].made = c => j = i
    <3>1. PICK k \in 1..m : s[k] = c
      BY FiniteCalls, InOrderLists, ZenonT(60) DEF s, m
    <3>2. ASSUME NEW j \in New, events'[j].type = "tool_attempt", events'[j].made = c
          PROVE  j = L + 2 * k - 1
      <4>1. PICK l \in 1..m : j = L + 2 * l - 1
        BY <2>2, <3>2
      <4>2. s[l] = s[k]
        BY <1>4, <3>1, <3>2, <4>1
      <4>3. l = k
        BY <4>2, FiniteCalls, InOrderLists DEF s, m
      <4> QED
        BY <4>1, <4>3
    <3> QED
      BY <1>4, <3>1, <3>2, ZenonT(60)
  <2> QED
    BY <2>1, <2>3, <2>4 DEF Tries
<1>8. CallsUsed' = CallsUsed + m
  <2> DEFINE E == {i \in New : events'[i].type = "tool_attempt"}
             f == [k \in 1..m |-> L + 2 * k - 1]
  <2>1. f \in Bijection(1..m, E)
    <3>1. \A k \in 1..m : f[k] \in E
      BY <1>4
    <3>2. \A k, l \in 1..m : f[k] = f[l] => k = l
      BY <1>1 DEF L
    <3>3. \A i \in E : \E k \in 1..m : f[k] = i
      BY <1>4, <1>5
    <3> HIDE DEF E
    <3> QED
      BY <3>1, <3>2, <3>3 DEF Bijection, Injection, IsInjective, Surjection
  <2>2. IsFiniteSet(1..m) /\ Cardinality(1..m) = m
    BY <1>1, FS_Interval DEF m
  <2>3. IsFiniteSet(E) /\ Cardinality(E) = m
    <3> HIDE DEF E, f
    <3> QED
      BY <2>1, <2>2, FS_Bijection DEF ExistsBijection
  <2>4. IsFiniteSet(Attempts(events)) /\ Cardinality(Attempts(events)) \in Nat
    BY FiniteEvents DEF Attempts
  <2>5. Attempts(events)' = Attempts(events) \cup E /\ Attempts(events) \cap E = {}
    <3>1. Attempts(events) \subseteq DOMAIN events
      BY DEF Attempts
    <3> QED
      BY <1>2, <3>1, Kept, KeptAttempts
  <2> HIDE DEF E
  <2> DEFINE A == Attempts(events)
  <2>6. Cardinality(A \cup E) = Cardinality(A) + Cardinality(E) - Cardinality(A \cap E)
    BY <2>3, <2>4, FS_Union
  <2>7. Cardinality(A \cap E) = 0
    BY <2>5, FS_EmptySet
  <2>8. CallsUsed' = Cardinality(A \cup E) /\ CallsUsed = Cardinality(A)
    BY <2>5 DEF CallsUsed
  <2> HIDE DEF A
  <2> QED
    BY <1>1, <2>3, <2>6, <2>7, <2>8
<1>9. Counted
  <2>1. ASSUME CallsUsed' # CallsUsed, CallsUsed' > MaxToolCalls
        PROVE  \E i \in New : events'[i].status = "over_budget"
    <3>1. m \in 1..m /\ CallsUsed + m - 1 >= MaxToolCalls
      BY <1>1, <1>8, <2>1 DEF m
    <3> QED
      BY <1>4, <3>1
  <2> QED
    BY <1>1, <1>8, <2>1 DEF Counted, m
<1>10. RefusesLate
  BY <1>4, <1>5 DEF RefusesLate
<1> QED
  BY <1>2, <1>6, <1>7, <1>9, <1>10

LEMMA QuietStep ==
  ASSUME TypeOK, events' = events
  PROVE  Keeps /\ New = {} /\ Mute
BY DEF TypeOK, Keeps, New, Mute

LEMMA SingleStep ==
  ASSUME TypeOK, NEW e \in EventType, Log(<<e>>)
  PROVE  /\ Keeps /\ New = {Len(events) + 1} /\ Len(events) + 1 \in DOMAIN events'
         /\ events'[Len(events) + 1] = e
<1> DEFINE s == <<e>>
<1>1. s \in Seq(EventType) /\ Len(s) = 1 /\ s[1] = e /\ Log(s)
  OBVIOUS
<1> HIDE DEF s
<1>2. Keeps /\ Len(events') = Len(events) + 1 /\ \A k \in 1..1 : events'[Len(events) + k] = s[k]
  BY <1>1, Appending
<1>3. Len(events) \in Nat /\ DOMAIN events' = 1..Len(events')
  BY <1>2, Kept
<1> QED
  BY <1>1, <1>2, <1>3 DEF New

LEMMA PlainStep ==
  ASSUME TypeOK, NEW type \in EventTypes, Log(<<Plain(type)>>)
  PROVE  /\ Keeps /\ New = {Len(events) + 1} /\ Len(events) + 1 \in DOMAIN events'
         /\ events'[Len(events) + 1].type = type
         /\ type \notin {"tool_attempt", "tool_result", "model_response"} => Mute
<1>1. Plain(type) \in EventType /\ Plain(type).type = type
  BY PlainType
<1>2. /\ Keeps /\ New = {Len(events) + 1} /\ Len(events) + 1 \in DOMAIN events'
      /\ events'[Len(events) + 1] = Plain(type)
  BY <1>1, SingleStep
<1> QED
  BY <1>1, <1>2 DEF Mute

(* The handoffs of a set are recorded as ignored, each of them once.       *)
Ignores(T) ==
  /\ \A i \in New : \E c \in T : events'[i] = IgnoredEvent(c)
  /\ \A c \in T : \E i \in New :
       events'[i] = IgnoredEvent(c) /\ \A j \in New : events'[j].made = c => j = i

LEMMA IgnoredType ==
  ASSUME TypeOK, NEW c \in AllCalls
  PROVE  /\ IgnoredEvent(c) \in EventType
         /\ IgnoredEvent(c).type = "ignored_handoff" /\ IgnoredEvent(c).made = c
         /\ IgnoredEvent(c).tool = CallAt(c).tool /\ IgnoredEvent(c).args = CallAt(c).args
<1>1. c \in Pairs /\ c[1] \in DOMAIN responses /\ CallAt(c) \in CallType
  BY CallsOfRun
<1>2. responses[c[1]].event \in Nat
  BY <1>1, RecordLength DEF ResponseType
<1> QED
  BY <1>1, <1>2 DEF IgnoredEvent, Event, EventType, EventTypes, Statuses, CallType, None, Pairs

LEMMA IgnoreStep ==
  ASSUME TypeOK, NEW T \in SUBSET AllCalls, Log(Recorded(T))
  PROVE  Keeps /\ Ignores(T) /\ Mute
<1> DEFINE L == Len(events)
           m == Cardinality(T)
           s == InOrder(T)
           new == Recorded(T)
<1>1. /\ L \in Nat /\ m \in Nat /\ s \in [1..m -> T]
      /\ \A c \in T : \E k \in 1..m : s[k] = c
      /\ \A j, k \in 1..m : s[j] = s[k] => j = k
  BY FiniteCalls, InOrderLists, RecordLength
<1>2. new = [k \in 1..m |-> IgnoredEvent(s[k])]
  BY DEF Recorded
<1> HIDE DEF s, m
<1>3. \A k \in 1..m : s[k] \in T /\ s[k] \in AllCalls
  BY <1>1
<1>4. \A k \in 1..m : /\ IgnoredEvent(s[k]) \in EventType
                       /\ IgnoredEvent(s[k]).type = "ignored_handoff"
                       /\ IgnoredEvent(s[k]).made = s[k]
  BY <1>3, IgnoredType
<1>5. new \in Seq(EventType) /\ Len(new) = m /\ \A k \in 1..m : new[k] = IgnoredEvent(s[k])
  <2> DEFINE f(k) == IgnoredEvent(s[k])
  <2>1. new = [k \in 1..m |-> f(k)] /\ \A k \in 1..m : f(k) \in EventType
    BY <1>2, <1>4
  <2> HIDE DEF f, new
  <2>2. new \in Seq(EventType) /\ Len(new) = m /\ \A k \in 1..m : new[k] = f(k)
    BY <1>1, <2>1
  <2> QED
    BY <2>2 DEF f
<1> HIDE DEF new
<1>6. /\ Keeps /\ Len(events') = L + m
      /\ \A k \in 1..m : events'[L + k] = new[k]
  BY <1>5, Appending DEF new
<1>7. \A k \in 1..m : L + k \in New
  BY <1>1, <1>6 DEF New
<1>8. \A i \in New : \E k \in 1..m : i = L + k
  <2> SUFFICES ASSUME NEW i \in New PROVE \E k \in 1..m : i = L + k
    OBVIOUS
  <2>1. i - L \in 1..m /\ i = L + (i - L)
    BY <1>1, <1>6 DEF New
  <2> QED
    BY <2>1
<1> HIDE DEF L
<1>9. \A k \in 1..m : /\ events'[L + k] = IgnoredEvent(s[k])
                       /\ events'[L + k].type = "ignored_handoff"
                       /\ events'[L + k].made = s[k]
  BY <1>4, <1>5, <1>6
<1>10. ASSUME NEW c \in T
       PROVE  \E i \in New :
                events'[i] = IgnoredEvent(c) /\ \A j \in New : events'[j].made = c => j = i
  <2>1. PICK k \in 1..m : s[k] = c
    BY <1>1
  <2>2. ASSUME NEW j \in New, events'[j].made = c
        PROVE  j = L + k
    <3>1. PICK l \in 1..m : j = L + l
      BY <1>8
    <3>2. s[l] = s[k]
      BY <1>9, <2>1, <2>2, <3>1
    <3> QED
      BY <1>1, <3>1, <3>2
  <2> QED
    BY <1>7, <1>9, <2>1, <2>2
<1>11. Ignores(T)
  BY <1>3, <1>8, <1>9, <1>10 DEF Ignores
<1>12. Mute
  BY <1>8, <1>9 DEF Mute
<1> QED
  BY <1>6, <1>11, <1>12

(* The calls of the last response that are still to be run.                *)
LEMMA TodoCalls ==
  ASSUME TypeOK, PhaseInv, NEW i \in todo
  PROVE  /\ This(i) \in AllCalls /\ This(i)[1] = Len(responses) /\ This(i)[2] = i
         /\ CallAt(This(i)) \in CallType /\ Kind(i) = KindOf(This(i))
         /\ Len(responses) \in DOMAIN responses
<1>1. /\ responses # <<>> /\ i \in DOMAIN responses[Len(responses)].calls /\ i \in Nat
      /\ responses \in Seq(ResponseType)
  BY DEF PhaseInv, TypeOK
<1>2. Len(responses) \in DOMAIN responses /\ Len(responses) \in Nat
  BY <1>1
<1>3. This(i) \in AllCalls
  BY <1>1, <1>2, CallsOfRun DEF This, Pairs
<1> QED
  BY <1>2, <1>3, CallsOfRun DEF This, Kind, KindOf

LEMMA ResponseEvent ==
  ASSUME TypeOK, ResponseInv, responses # <<>>
  PROVE  /\ Len(responses) \in DOMAIN responses
         /\ Latest("model_response") = responses[Len(responses)].event
<1> DEFINE n == Len(responses)
           e == responses[n].event
           m == Latest("model_response")
<1>1. n \in DOMAIN responses /\ n \in Nat /\ DOMAIN responses = 1..n
  BY DEF TypeOK
<1>2. e \in EventsOf("model_response")
  BY <1>1 DEF ResponseInv
<1>3. m \in EventsOf("model_response") /\ e <= m
  BY <1>2, LatestEvent
<1>4. PICK r \in DOMAIN responses : responses[r].event = m
  BY <1>3 DEF ResponseInv
<1>5. r = n \/ r < n
  BY <1>1
<1>6. r < n => m < e
  BY <1>1, <1>4 DEF ResponseInv
<1>7. m \in Nat /\ e \in Nat
  BY <1>1, <1>2, <1>3, RecordLength DEF ResponseType, EventsOf
<1> QED
  BY <1>1, <1>3, <1>4, <1>5, <1>6, <1>7

(* A call of the response is run.                                          *)
LEMMA AnswerStep ==
  ASSUME TypeOK, PhaseInv, NEW i \in todo, NEW status \in Statuses,
         status = "raised" => exc' = "error",
         Log(Evidence(Latest("model_response"), CallAt(This(i)), This(i), status))
  PROVE  Keeps /\ Tries({This(i)}) /\ Paired /\ Counted /\ Answers(This(i), status)
<1> DEFINE c == This(i)
           r == Latest("model_response")
           L == Len(events)
<1>1. c \in AllCalls /\ c \in Pairs /\ CallAt(c) \in CallType /\ r \in Nat /\ L \in Nat
  BY TodoCalls, CallsOfRun, LatestEvent, RecordLength
<1> HIDE DEF c, r
<1>2. /\ Keeps /\ New = {L + 1, L + 2}
      /\ events'[L + 1] = Attempted(r, CallAt(c), c)
      /\ events'[L + 2].type \in {"tool_result", "error"}
      /\ Paired /\ Counted /\ Answers(c, status)
  BY <1>1, PairStep DEF c, r
<1>3. events'[L + 1].type = "tool_attempt" /\ events'[L + 1].made = c
  BY <1>1, <1>2, AttemptType
<1>4. Tries({c})
  BY <1>2, <1>3 DEF Tries, r
<1> QED
  BY <1>2, <1>4 DEF c

-----------------------------------------------------------------------------
(* Every step but the model's response extends the record of the calls.    *)

Extends ==
  /\ Keeps /\ responses' = responses /\ Paired /\ Counted
  /\ \A i \in New : events'[i].type # "model_response"

LEMMA QuietExtends ==
  ASSUME TypeOK, events' = events, responses' = responses
  PROVE  Extends /\ New = {}
BY QuietStep, MuteStep DEF Extends

LEMMA MuteExtends ==
  ASSUME TypeOK, Keeps, Mute, responses' = responses
  PROVE  Extends
BY MuteStep DEF Extends, Mute

LEMMA TriesExtends ==
  ASSUME TypeOK, NEW T, Keeps, Tries(T), Paired, Counted, responses' = responses
  PROVE  Extends
BY DEF Extends, Tries

LEMMA AnswerEffect ==
  ASSUME TypeOK, PhaseInv, Answer
  PROVE  \E i \in todo :
           /\ Kind(i) = "declared" \/ (Kind(i) = "malformed" /\ adapter = "openai")
           /\ Keeps /\ Tries({This(i)}) /\ Paired /\ Counted
           /\ todo' = todo \ {i}
           /\ \/ RefusesLate
              \/ /\ Kind(i) = "declared" /\ ~TooLate(Len(responses))
                 /\ \A j \in New : events'[j].type = "tool_result" => events'[j].made = This(i)
<1>1. PICK i \in todo, status \in {"success", "ambiguous_timeout", "invalid", "over_budget"} :
        /\ \/ Kind(i) = "declared" /\ (TooLate(Len(responses)) => status = "over_budget")
           \/ Kind(i) = "malformed" /\ adapter = "openai" /\ status = Refusal
        /\ Log(Evidence(Latest("model_response"), CallAt(This(i)), This(i), status))
        /\ todo' = todo \ {i}
  BY DEF Answer
<1>2. status \in Statuses /\ status # "raised"
  BY DEF Statuses
<1>3. Keeps /\ Tries({This(i)}) /\ Paired /\ Counted /\ Answers(This(i), status)
  BY <1>1, <1>2, AnswerStep
<1>4. \/ Kind(i) = "declared" /\ ~TooLate(Len(responses))
      \/ Late => status = "over_budget"
  BY <1>1, RefusalType
<1>5. (Late => status = "over_budget") => RefusesLate
  BY <1>3 DEF Answers, RefusesLate
<1>6. \A j \in New : events'[j].type = "tool_result" => events'[j].made = This(i)
  BY <1>3 DEF Answers
<1> QED
  BY <1>1, <1>3, <1>4, <1>5, <1>6

LEMMA AnswerRaisesEffect ==
  ASSUME TypeOK, PhaseInv, AnswerRaises
  PROVE  \E i \in todo :
           /\ Kind(i) = "declared"
           /\ Keeps /\ Tries({This(i)}) /\ Paired /\ Counted /\ Answers(This(i), "raised")
<1>1. PICK i \in todo :
        /\ Kind(i) = "declared"
        /\ Log(Evidence(Latest("model_response"), CallAt(This(i)), This(i), "raised"))
  BY DEF AnswerRaises
<1>2. "raised" \in Statuses /\ exc' = "error"
  BY DEF Statuses, AnswerRaises, Raise
<1> QED
  BY <1>1, <1>2, AnswerStep

LEMMA HandoffEffect ==
  ASSUME TypeOK, PhaseInv, Handoff
  PROVE  /\ responses # <<>>
         /\ \E c \in Handoffs(Len(responses)) :
              /\ First(c) /\ c \in AllCalls /\ c[1] = Len(responses) /\ KindOf(c) = "handoff"
              /\ Keeps /\ Mute /\ New = {Len(events) + 1} /\ Len(events) + 1 \in DOMAIN events'
              /\ events'[Len(events) + 1] =
                   Event("handoff", Latest("model_response"), CallAt(c), c, None)
<1>1. PICK c \in Handoffs(Len(responses)) :
        /\ First(c)
        /\ Log(<<Event("handoff", Latest("model_response"), CallAt(c), c, None)>>)
  BY DEF Handoff
<1>2. responses # <<>> /\ Len(responses) \in DOMAIN responses
  BY DEF Handoff, PhaseInv, TypeOK
<1>3. c \in Of(Len(responses)) /\ KindOf(c) = "handoff"
  BY DEF Handoffs
<1>4. c \in AllCalls /\ c[1] = Len(responses)
  BY <1>2, <1>3 DEF AllCalls, Of
<1>5. c \in Pairs /\ CallAt(c) \in CallType /\ Latest("model_response") \in Nat
  BY <1>4, CallsOfRun, LatestEvent, RecordLength
<1> DEFINE e == Event("handoff", Latest("model_response"), CallAt(c), c, None)
<1>6. e \in EventType /\ e.type = "handoff"
  BY <1>5 DEF Event, EventType, EventTypes, Statuses, CallType, None, Pairs
<1> HIDE DEF e
<1>7. /\ Keeps /\ New = {Len(events) + 1} /\ Len(events) + 1 \in DOMAIN events'
      /\ events'[Len(events) + 1] = e
  BY <1>1, <1>6, SingleStep DEF e
<1>8. Mute
  BY <1>6, <1>7 DEF Mute
<1> QED
  BY <1>1, <1>2, <1>3, <1>4, <1>7, <1>8 DEF e

LEMMA AgentCallStep ==
  ASSUME TypeOK, NEW call \in AgentCalls, NEW status \in Statuses,
         status = "raised" => exc' = "error",
         Log(AgentEvidence(call, status))
  PROVE  /\ Keeps /\ New = {Len(events) + 1, Len(events) + 2}
         /\ events'[Len(events) + 2].type \in {"tool_result", "error"}
         /\ events'[Len(events) + 1].type = "tool_attempt"
         /\ CallsUsed' = CallsUsed + 1
         /\ Paired /\ Counted /\ Answers(<<>>, status)
<1>1. call \in CallType /\ Latest("user_turn") \in Nat /\ <<>> \in Pairs \cup {<<>>}
  BY AdapterAssumption, LatestEvent, RecordLength
<1>2. Log(Evidence(Latest("user_turn"), call, <<>>, status))
  BY DEF AgentEvidence
<1>3. /\ Keeps /\ New = {Len(events) + 1, Len(events) + 2}
      /\ events'[Len(events) + 1] = Attempted(Latest("user_turn"), call, <<>>)
      /\ events'[Len(events) + 2].type \in {"tool_result", "error"}
      /\ CallsUsed' = CallsUsed + 1
      /\ Paired /\ Counted /\ Answers(<<>>, status)
  BY <1>1, <1>2, PairStep
<1> QED
  BY <1>1, <1>3, AttemptType

AgentCalled == AgentIsAnswered \/ AgentIsRefused \/ AgentCallRaises
LEMMA AgentCallEffect ==
  ASSUME TypeOK, AgentCalled
  PROVE  /\ Keeps /\ New = {Len(events) + 1, Len(events) + 2}
         /\ events'[Len(events) + 2].type \in {"tool_result", "error"}
         /\ events'[Len(events) + 1].type = "tool_attempt"
         /\ CallsUsed' = CallsUsed + 1
         /\ Paired /\ Counted /\ RefusesLate
         /\ responses' = responses /\ phase = "agent"
<1>1. CASE AgentIsAnswered
  <2>1. PICK call \in AgentCalls, status \in {"success", "ambiguous_timeout", "invalid", "over_budget"} :
          /\ Late => status = "over_budget"
          /\ Log(AgentEvidence(call, status))
    BY <1>1 DEF AgentIsAnswered
  <2>2. status \in Statuses /\ status # "raised"
    BY DEF Statuses
  <2> QED
    BY <1>1, <2>1, <2>2, AgentCallStep DEF AgentIsAnswered, Answers, RefusesLate
<1>2. CASE AgentIsRefused
  <2>1. PICK call \in AgentCalls, cause \in {"tool_calls", "retries", "wall_time", "error"} :
          /\ Late => cause = "wall_time"
          /\ Log(AgentEvidence(call, IF cause = "error" THEN "invalid" ELSE "over_budget"))
    BY <1>2 DEF AgentIsRefused
  <2> DEFINE status == IF cause = "error" THEN "invalid" ELSE "over_budget"
  <2>2. status \in Statuses /\ status # "raised" /\ (Late => status = "over_budget")
    BY <2>1 DEF Statuses
  <2> HIDE DEF status
  <2>3. Log(AgentEvidence(call, status))
    BY <2>1 DEF status
  <2> QED
    BY <1>2, <2>2, <2>3, AgentCallStep DEF AgentIsRefused, Answers, RefusesLate
<1>3. CASE AgentCallRaises
  <2>1. PICK call \in AgentCalls : Log(AgentEvidence(call, "raised"))
    BY <1>3 DEF AgentCallRaises
  <2>2. "raised" \in Statuses /\ exc' = "error"
    BY <1>3 DEF Statuses, AgentCallRaises, Raise
  <2> QED
    BY <1>3, <2>1, <2>2, AgentCallStep DEF AgentCallRaises, Answers, RefusesLate
<1> QED
  BY <1>1, <1>2, <1>3 DEF AgentCalled

LEMMA StageReturnsEffect ==
  ASSUME TypeOK, StageReturns
  PROVE  LET T == IF adapter = "pydantic" THEN Undeclared(stageStart) ELSE {}
         IN  T \subseteq AllCalls /\ Keeps /\ Tries(T) /\ Paired /\ Counted /\ RefusesLate
<1>1. CASE adapter = "pydantic"
  <2> DEFINE T == Undeclared(stageStart)
  <2>1. T \subseteq AllCalls
    BY DEF Undeclared
  <2>2. Log(Blocked(T))
    BY <1>1 DEF StageReturns
  <2> HIDE DEF T
  <2>3. Blocked(T) \in Seq(EventType) /\ Len(Blocked(T)) \in Nat /\ DOMAIN Blocked(T) = 1..Len(Blocked(T))
    BY <2>1, BlockedRecord
  <2>4. Keeps /\ Tries(T) /\ Paired /\ Counted /\ RefusesLate
    BY <2>1, <2>2, <2>3, BlockStep
  <2> QED
    BY <1>1, <2>1, <2>4 DEF T
<1>2. CASE adapter # "pydantic"
  <2>1. Log(<<>>) /\ <<>> \in Seq(EventType)
    BY <1>2 DEF StageReturns
  <2>2. events' = events
    BY <2>1 DEF Log, TypeOK
  <2>3. Keeps /\ New = {} /\ Mute
    BY <2>2, QuietStep
  <2> QED
    BY <1>2, <2>3, MuteStep DEF Tries, RefusesLate
<1> QED
  BY <1>1, <1>2

LEMMA HandleEffect ==
  ASSUME TypeOK, Handle
  PROVE  /\ Rejected \subseteq AllCalls /\ Keeps /\ Tries(Rejected) /\ Paired /\ Counted
         /\ RefusesLate
<1> DEFINE T == Rejected
           e == Plain("error")
           new == Blocked(T) \o <<e>>
           B == Blocked(T)
<1>1. T \subseteq AllCalls
  BY DEF Rejected, Undeclared
<1>2. Log(new)
  BY DEF Handle
<1>3. e \in EventType /\ e.type = "error"
  BY PlainType DEF EventTypes
<1> HIDE DEF T, e
<1>4. B \in Seq(EventType)
  BY <1>1, BlockedRecord
<1> HIDE DEF B
<1>5. new = B \o <<e>>
  BY DEF B
<1> HIDE DEF new
<1>6. /\ new \in Seq(EventType) /\ Len(new) = Len(B) + 1 /\ Len(B) \in Nat
      /\ \A n \in 1..Len(B) : new[n] = B[n]
      /\ new[Len(B) + 1] = e
  BY <1>3, <1>4, <1>5
<1>7. \A n \in DOMAIN new : n > Len(B) => new[n].type = "error"
  BY <1>3, <1>6
<1> QED
  BY <1>1, <1>2, <1>6, <1>7, BlockStep DEF T, B

LEMMA CloseEffect ==
  ASSUME TypeOK, Close
  PROVE  LET T == IF adapter = "openai"
                  THEN {c \in AllCalls : KindOf(c) = "handoff" /\ ~First(c)} ELSE {}
         IN  Keeps /\ Ignores(T) /\ Mute
<1>1. CASE adapter = "openai"
  <2> DEFINE T == {c \in AllCalls : KindOf(c) = "handoff" /\ ~First(c)}
  <2>1. Log(Recorded(T))
    BY <1>1 DEF Close, IgnoredHandoffs
  <2>2. T \subseteq AllCalls
    OBVIOUS
  <2> HIDE DEF T
  <2>3. Keeps /\ Ignores(T) /\ Mute
    BY <2>1, <2>2, IgnoreStep
  <2> QED
    BY <1>1, <2>3 DEF T
<1>2. CASE adapter # "openai"
  <2>1. Log(<<>>)
    BY <1>2 DEF Close
  <2>2. events' = events
    BY <2>1 DEF Log, TypeOK
  <2>3. Keeps /\ New = {} /\ Mute
    BY <2>2, QuietStep
  <2> QED
    BY <1>2, <2>3 DEF Ignores
<1> QED
  BY <1>1, <1>2

(* What raises between events.                                             *)
Stops ==
  Cancelled \/ RunnerStops \/ ModelFails \/ RetriesExhausted \/ OutputInvalid \/ AgentFails
Settled == <<adapter, followups, capture, events, responses, todo, spent, expired,
             allowed, stages, delivered, stageStart, termination, output, latency>>

LEMMA StopsEffect ==
  ASSUME Stops
  PROVE  /\ phase \in Running /\ phase' = "raised"
         /\ exc' \in {"cancelled", "max_turns_exceeded", "provider", "model_behavior", "error"}
         /\ UNCHANGED Settled
<1>1. CASE Cancelled
  BY <1>1 DEF Cancelled, Running, Raise, Fixed, stage, result, Settled
<1>2. CASE RunnerStops
  BY <1>2 DEF RunnerStops, Running, Raise, Fixed, stage, result, Settled
<1>3. CASE ModelFails
  BY <1>3 DEF ModelFails, Running, Raise, Fixed, stage, result, Settled
<1>4. CASE RetriesExhausted
  BY <1>4 DEF RetriesExhausted, Running, Raise, Fixed, stage, result, Settled
<1>5. CASE OutputInvalid
  BY <1>5 DEF OutputInvalid, Running, Raise, Fixed, stage, result, Settled
<1>6. CASE AgentFails
  BY <1>6 DEF AgentFails, Running, Raise, Fixed, stage, result, Settled
<1> QED
  BY <1>1, <1>2, <1>3, <1>4, <1>5, <1>6 DEF Stops

(* What adds one event that is about no call.                              *)
LEMMA SpeaksEffect ==
  ASSUME TypeOK, NEW type \in {"user_turn", "model_request", "assistant_output", "final_output", "error"},
         Log(<<Plain(type)>>)
  PROVE  /\ Keeps /\ Mute /\ New = {Len(events) + 1} /\ Len(events) + 1 \in DOMAIN events'
         /\ events'[Len(events) + 1].type = type
BY PlainStep DEF EventTypes

(* What changes neither the record nor what was raised.                    *)
Waits == Tick \/ Escapes \/ BeginStage \/ RetryPrompt \/ NextTurn \/ CalledAfterwards

Steps ==
  \/ UNCHANGED vars \/ Waits \/ Stops
  \/ Start \/ Request \/ AgentReturns \/ Complete \/ OutOfTurns \/ Deliver
  \/ Respond \/ Answer \/ AnswerRaises \/ Handoff \/ AgentCalled
  \/ StageReturns \/ Handle \/ Close

LEMMA StepsAre ==
  ASSUME [Next]_vars
  PROVE  Steps
BY DEF Next, Steps, Waits, Stops, AgentCalled

LEMMA WaitsEffect ==
  ASSUME Waits \/ UNCHANGED vars
  PROVE  /\ events' = events /\ responses' = responses /\ exc' = exc
         /\ UNCHANGED <<adapter, followups, spent, delivered, termination, output, latency>>
<1>1. CASE Tick
  BY <1>1 DEF Tick, Fixed, stage, result
<1>2. CASE Escapes
  BY <1>2 DEF Escapes, Fixed, stage, result
<1>3. CASE BeginStage
  BY <1>3 DEF BeginStage, Goto, Fixed, result
<1>4. CASE RetryPrompt
  BY <1>4 DEF RetryPrompt, Fixed, stage, result
<1>5. CASE NextTurn
  BY <1>5 DEF NextTurn, Goto, Fixed, stage, result
<1>6. CASE CalledAfterwards \/ UNCHANGED vars
  BY <1>6 DEF CalledAfterwards, vars, control, stage, result
<1> QED
  BY <1>1, <1>2, <1>3, <1>4, <1>5, <1>6 DEF Waits

LEMMA Extending ==
  ASSUME TypeOK, PhaseInv, [Next]_vars
  PROVE  Respond \/ Extends
<1>1. ASSUME Waits \/ UNCHANGED vars PROVE Extends
  BY <1>1, WaitsEffect, QuietExtends
<1>2. ASSUME Stops PROVE Extends
  BY <1>2, StopsEffect, QuietExtends DEF Settled
<1>3. ASSUME Start PROVE Extends
  BY <1>3, SpeaksEffect, MuteExtends DEF Start
<1>4. ASSUME Request PROVE Extends
  BY <1>4, SpeaksEffect, MuteExtends DEF Request
<1>5. ASSUME AgentReturns PROVE Extends
  BY <1>5, SpeaksEffect, MuteExtends DEF AgentReturns
<1>6. ASSUME Complete PROVE Extends
  BY <1>6, SpeaksEffect, MuteExtends DEF Complete
<1>7. ASSUME OutOfTurns PROVE Extends
  BY <1>7, SpeaksEffect, MuteExtends DEF OutOfTurns
<1>8. ASSUME Deliver PROVE Extends
  BY <1>8, SpeaksEffect, MuteExtends DEF Deliver
<1>9. ASSUME Answer PROVE Extends
  <2>1. responses' = responses
    BY <1>9 DEF Answer
  <2> QED
    BY <1>9, <2>1, AnswerEffect, TriesExtends
<1>10. ASSUME AnswerRaises PROVE Extends
  <2>1. responses' = responses
    BY <1>10 DEF AnswerRaises
  <2> QED
    BY <1>10, <2>1, AnswerRaisesEffect, TriesExtends
<1>11. ASSUME Handoff PROVE Extends
  <2>1. responses' = responses
    BY <1>11 DEF Handoff
  <2> QED
    BY <1>11, <2>1, HandoffEffect, MuteExtends
<1>12. ASSUME AgentCalled PROVE Extends
  BY <1>12, AgentCallEffect DEF Extends
<1>13. ASSUME StageReturns PROVE Extends
  <2>1. responses' = responses
    BY <1>13 DEF StageReturns
  <2> QED
    BY <1>13, <2>1, StageReturnsEffect, TriesExtends
<1>14. ASSUME Handle PROVE Extends
  <2>1. responses' = responses
    BY <1>14 DEF Handle
  <2> QED
    BY <1>14, <2>1, HandleEffect, TriesExtends
<1>15. ASSUME Close PROVE Extends
  <2>1. responses' = responses
    BY <1>15 DEF Close
  <2> QED
    BY <1>15, <2>1, CloseEffect, MuteExtends
<1> QED
  BY <1>1, <1>2, <1>3, <1>4, <1>5, <1>6, <1>7, <1>8, <1>9, <1>10, <1>11, <1>12,
     <1>13, <1>14, <1>15, StepsAre DEF Steps

(* What has been raised stays raised.                                      *)
LEMMA ExcStays ==
  ASSUME TypeOK, PhaseInv, [Next]_vars, exc # None
  PROVE  exc' = exc /\ (Waits \/ UNCHANGED vars \/ Handle \/ Close)
<1>1. phase \in {"raised", "closing", "ended"}
  BY DEF PhaseInv, Closed
<1>2. ~Stops
  BY <1>1, StopsEffect DEF Running
<1>3. ~Start /\ ~Request /\ ~AgentReturns /\ ~Complete /\ ~OutOfTurns /\ ~Deliver
  BY <1>1 DEF Start, Request, AgentReturns, Complete, OutOfTurns, Deliver
<1>4. ~Respond /\ ~Answer /\ ~AnswerRaises /\ ~Handoff /\ ~StageReturns
  BY <1>1 DEF Respond, Answer, AnswerRaises, Handoff, StageReturns
<1>5. ~AgentCalled
  BY <1>1 DEF AgentCalled, AgentIsAnswered, AgentIsRefused, AgentCallRaises
<1>6. (Waits \/ UNCHANGED vars) => exc' = exc
  BY WaitsEffect
<1>7. Handle => exc' = exc
  BY DEF Handle
<1>8. Close => exc' = exc
  BY DEF Close, Goto
<1> QED
  BY <1>2, <1>3, <1>4, <1>5, <1>6, <1>7, <1>8, StepsAre DEF Steps

(* The model responds.                                                     *)
Responded(calls, u) ==
  /\ responses' \in Seq(ResponseType) /\ Len(responses') = Len(responses) + 1
  /\ DOMAIN responses' = 1..(Len(responses) + 1)
  /\ \A r \in DOMAIN responses : responses'[r] = responses[r]
  /\ responses'[Len(responses) + 1] =
       [event |-> Len(events) + 1, stage |-> stages, calls |-> calls, usage |-> u]
  /\ Keeps /\ New = {Len(events) + 1} /\ Len(events) + 1 \in DOMAIN events'
  /\ events'[Len(events) + 1].type = "model_response"
  /\ todo' = DOMAIN calls

HasKind(calls, kind) == \E i \in DOMAIN calls : calls[i].kind = kind
Raises == {None, "wall_time", "tokens", "cost_usd"}
Outcome(calls, u, planRaises, raises) ==
  LET planned == planRaises /\ HasKind(calls, "declared")
      reached == adapter = "openai" \/ raises = None
      refused == adapter = "openai" /\ planned
  IN  /\ raises \in UsageRaises(u)
      /\ adapter = "pydantic" =>
           /\ ~HasKind(calls, "handoff")
           /\ \A i \in DOMAIN calls :
                calls[i].kind = "undeclared" <=> calls[i].tool \notin ToolNames
      /\ spent' = IF refused THEN spent ELSE SpentAfter(u, raises)
      /\ IF planned /\ reached THEN Raise("error")
         ELSE IF raises # None THEN Raise(raises)
         ELSE IF HasKind(calls, "undeclared") /\ adapter = "openai" THEN Raise("model_behavior")
         ELSE Goto("dispatch")

LEMMA RaisesType ==
  ASSUME NEW u
  PROVE  UsageRaises(u) \subseteq Raises
BY DEF UsageRaises, Raises

LEMMA RespondEffect ==
  ASSUME TypeOK, Respond
  PROVE  \E calls \in Calls, u \in Usages, planRaises \in BOOLEAN, raises \in Raises :
           Responded(calls, u) /\ Outcome(calls, u, planRaises, raises)
<1>1. PICK calls \in Calls, u \in Usages, planRaises \in BOOLEAN, raises \in Raises :
        /\ responses' = Append(responses,
             [event |-> Len(events) + 1, stage |-> stages, calls |-> calls, usage |-> u])
        /\ Log(<<Event("model_response", Latest("model_request"), NoCall, <<>>, None)>>)
        /\ Outcome(calls, u, planRaises, raises)
        /\ todo' = DOMAIN calls
  BY RaisesType, ZenonT(60) DEF Respond, Outcome, HasKind
<1> DEFINE e == Event("model_response", Latest("model_request"), NoCall, <<>>, None)
           r == [event |-> Len(events) + 1, stage |-> stages, calls |-> calls, usage |-> u]
<1>2. e \in EventType /\ e.type = "model_response"
  BY LatestEvent, RecordLength DEF Event, EventType, EventTypes, Statuses, NoCall, None
<1> HIDE DEF e
<1>3. /\ Keeps /\ New = {Len(events) + 1} /\ Len(events) + 1 \in DOMAIN events'
      /\ events'[Len(events) + 1] = e
  BY <1>1, <1>2, SingleStep DEF e
<1>4. r \in ResponseType
  BY AdapterAssumption, RecordLength DEF TypeOK, ResponseType
<1> HIDE DEF r
<1>5. /\ responses' \in Seq(ResponseType) /\ Len(responses') = Len(responses) + 1
      /\ DOMAIN responses' = 1..(Len(responses) + 1)
      /\ \A i \in DOMAIN responses : responses'[i] = responses[i]
      /\ responses'[Len(responses) + 1] = r
  <2>1. responses \in Seq(ResponseType) /\ responses' = Append(responses, r)
    BY <1>1 DEF TypeOK, r
  <2> QED
    BY <1>4, <2>1
<1> QED
  BY <1>1, <1>2, <1>3, <1>5 DEF Responded, r

LEMMA RespondAdds ==
  ASSUME TypeOK, Respond
  PROVE  responses' # responses
<1>1. PICK calls \in Calls, u \in Usages : Responded(calls, u)
  BY RespondEffect
<1> QED
  BY <1>1, RecordLength DEF Responded

(* The calls there were stay what they were, and those of the response are *)
(* new.                                                                    *)
LEMMA RespondedCalls ==
  ASSUME TypeOK, NEW calls \in Calls, NEW u \in Usages, Responded(calls, u)
  PROVE  /\ \A c \in AllCalls : /\ c \in AllCalls' /\ c[1] # Len(responses')
                                /\ CallAt(c)' = CallAt(c) /\ KindOf(c)' = KindOf(c)
                                /\ First(c)' = First(c) /\ Handoffs(c[1])' = Handoffs(c[1])
         /\ \A c \in AllCalls' : c \notin AllCalls =>
              /\ c[1] = Len(responses) + 1 /\ c[1] = Len(responses') /\ c[2] \in DOMAIN calls
              /\ KindOf(c)' = calls[c[2]].kind /\ CallAt(c)' = calls[c[2]]
         /\ Of(Len(responses))' \subseteq AllCalls'
         /\ \A r \in DOMAIN responses : /\ responses'[r] = responses[r] /\ r \in DOMAIN responses'
                                       /\ Of(r)' = Of(r) /\ Handoffs(r)' = Handoffs(r)
<1>1. /\ Len(responses) \in Nat /\ DOMAIN responses = 1..Len(responses)
      /\ DOMAIN responses' = 1..(Len(responses) + 1) /\ Len(responses') = Len(responses) + 1
      /\ \A r \in DOMAIN responses : responses'[r] = responses[r]
      /\ responses'[Len(responses) + 1].calls = calls
      /\ calls \in Seq(CallType)
  BY RecordLength, AdapterAssumption DEF Responded
<1>2. \A c : c \in AllCalls <=>
        \E r \in DOMAIN responses : \E i \in DOMAIN responses[r].calls : c = <<r, i>>
  BY DEF AllCalls, Of
<1>3. \A c : c \in AllCalls' <=>
        \E r \in DOMAIN responses' : \E i \in DOMAIN responses'[r].calls : c = <<r, i>>
  BY DEF AllCalls, Of
<1>4. \A r \in DOMAIN responses : r \in DOMAIN responses' /\ r # Len(responses) + 1
  BY <1>1
<1>5. \A r \in DOMAIN responses : Of(r)' = Of(r)
  BY <1>1 DEF Of
<1>6. ASSUME NEW c, c[1] \in DOMAIN responses
      PROVE  CallAt(c)' = CallAt(c) /\ KindOf(c)' = KindOf(c)
  BY <1>1, <1>6 DEF CallAt, KindOf
<1>7. ASSUME NEW r \in DOMAIN responses
      PROVE  Handoffs(r)' = Handoffs(r)
  <2>1. \A c \in Of(r) : c[1] = r
    BY DEF Of
  <2>2. \A c \in Of(r) : KindOf(c)' = KindOf(c)
    BY <1>6, <2>1
  <2> QED
    BY <1>5, <2>2 DEF Handoffs
<1>8. ASSUME NEW c \in AllCalls
      PROVE  /\ c \in AllCalls' /\ c[1] # Len(responses')
             /\ CallAt(c)' = CallAt(c) /\ KindOf(c)' = KindOf(c)
             /\ First(c)' = First(c) /\ Handoffs(c[1])' = Handoffs(c[1])
  <2>1. PICK r \in DOMAIN responses : \E i \in DOMAIN responses[r].calls : c = <<r, i>>
    BY <1>2
  <2>2. c[1] = r
    BY <2>1
  <2>3. c \in AllCalls'
    BY <1>1, <1>3, <1>4, <2>1
  <2>4. Handoffs(c[1])' = Handoffs(c[1])
    BY <1>7, <2>2
  <2>5. First(c)' = First(c)
    BY <2>4 DEF First
  <2> QED
    BY <1>1, <1>4, <1>6, <2>2, <2>3, <2>4, <2>5
<1>9. ASSUME NEW c \in AllCalls', c \notin AllCalls
      PROVE  /\ c[1] = Len(responses) + 1 /\ c[1] = Len(responses') /\ c[2] \in DOMAIN calls
             /\ KindOf(c)' = calls[c[2]].kind /\ CallAt(c)' = calls[c[2]]
  <2>1. PICK r \in DOMAIN responses' : \E i \in DOMAIN responses'[r].calls : c = <<r, i>>
    BY <1>3
  <2>2. r \notin DOMAIN responses
    BY <1>1, <1>2, <1>9, <2>1
  <2>3. r = Len(responses) + 1
    BY <1>1, <2>2
  <2> QED
    BY <1>1, <2>1, <2>3 DEF KindOf, CallAt
<1>10. Of(Len(responses))' \subseteq AllCalls'
  <2>1. Len(responses') \in DOMAIN responses'
    BY <1>1
  <2>2. ASSUME NEW c \in Of(Len(responses))' PROVE c \in AllCalls'
    <3>1. PICK i \in DOMAIN responses'[Len(responses')].calls : c = <<Len(responses'), i>>
      BY DEF Of
    <3> QED
      BY <1>3, <2>1, <3>1
  <2> QED
    BY <2>2
<1> QED
  BY <1>1, <1>4, <1>5, <1>7, <1>8, <1>9, <1>10

-----------------------------------------------------------------------------
(* The types and the phases.                                               *)

LEMMA SpentType ==
  ASSUME TypeOK, NEW u \in Usages, NEW raises \in UsageRaises(u)
  PROVE  SpentAfter(u, raises) \in [turns : 0..MaxTurns, tokens : 0..TokenLimit, cost : 0..CostLimit]
<1>1. u = Unknown \/ (u \in [tokens : Nat, cost : Nat] /\ u.tokens \in Nat /\ u.cost \in Nat)
  BY AdapterAssumption DEF UsageType
<1>2. /\ spent \in [turns : 0..MaxTurns, tokens : 0..TokenLimit, cost : 0..CostLimit]
      /\ spent.turns \in 0..MaxTurns /\ spent.tokens \in 0..TokenLimit /\ spent.cost \in 0..CostLimit
      /\ MaxTurns \in Nat /\ TokenLimit \in Nat /\ CostLimit \in Nat
  BY AdapterAssumption DEF TypeOK
<1> DEFINE tokens == IF u = Unknown \/ raises \in {"wall_time", "tokens"}
                     THEN spent.tokens ELSE spent.tokens + u.tokens
           cost == IF u = Unknown \/ raises # None \/ adapter # "openai"
                   THEN spent.cost ELSE spent.cost + u.cost
<1>3. tokens \in 0..TokenLimit
  <2>1. CASE u = Unknown
    BY <1>2, <2>1
  <2>2. CASE u # Unknown /\ spent.tokens + u.tokens > TokenLimit
    <3>1. raises \in {"wall_time", "tokens"}
      BY <2>2 DEF UsageRaises
    <3> QED
      BY <1>2, <3>1
  <2>3. CASE u # Unknown /\ ~(spent.tokens + u.tokens > TokenLimit)
    BY <1>1, <1>2, <2>3
  <2> QED
    BY <2>1, <2>2, <2>3
<1>4. cost \in 0..CostLimit
  <2>1. CASE u = Unknown \/ adapter # "openai" \/ raises # None
    BY <1>2, <2>1
  <2>2. CASE u # Unknown /\ adapter = "openai" /\ raises = None
    <3>1. ~(spent.cost + u.cost > CostLimit)
      BY <2>2 DEF UsageRaises, None
    <3> QED
      BY <1>1, <1>2, <2>2, <3>1
  <2> QED
    BY <2>1, <2>2
<1>5. SpentAfter(u, raises) = [turns |-> spent.turns, tokens |-> tokens, cost |-> cost]
  <2>1. SpentAfter(u, raises) = [spent EXCEPT !.tokens = tokens, !.cost = cost]
    BY DEF SpentAfter
  <2> HIDE DEF tokens, cost
  <2> QED
    BY <1>2, <2>1
<1> QED
  BY <1>2, <1>3, <1>4, <1>5

LEMMA InitType ==
  ASSUME Init PROVE TypeOK
<1>1. <<>> \in Seq(EventType) /\ <<>> \in Seq(ResponseType) /\ Len(<<>>) = 0
  OBVIOUS
<1>2. MaxTurns \in Nat /\ TokenLimit \in Nat /\ CostLimit \in Nat /\ MaxFollowups \in Nat
  BY AdapterAssumption
<1>3. /\ phase \in Phases /\ exc \in Raised \cup {None} /\ termination \in Terminations \cup {None}
      /\ spent \in [turns : 0..MaxTurns, tokens : 0..TokenLimit, cost : 0..CostLimit]
  BY <1>2 DEF Init, Phases
<1>4. events \in Seq(EventType) /\ responses \in Seq(ResponseType) /\ Len(responses) = 0
  BY <1>1 DEF Init
<1>5. /\ allowed \in 0..MaxTurns /\ followups \in 0..MaxFollowups /\ stages \in 0..(followups + 1)
      /\ delivered \in 0..followups /\ stageStart \in 0..Len(responses)
  BY <1>2, <1>4 DEF Init
<1> QED
  BY <1>3, <1>4, <1>5 DEF Init, TypeOK

LEMMA TypeStep ==
  ASSUME TypeOK, PhaseInv, StageInv, [Next]_vars
  PROVE  TypeOK'
<1> DEFINE Rest ==
             /\ adapter' \in Adapters /\ followups' \in 0..MaxFollowups /\ phase' \in Phases
             /\ capture' \in BOOLEAN /\ expired' \in Nat /\ output' \in BOOLEAN
             /\ todo' \subseteq Nat
             /\ spent' \in [turns : 0..MaxTurns, tokens : 0..TokenLimit, cost : 0..CostLimit]
             /\ allowed' \in 0..MaxTurns
             /\ stages' \in 0..(followups' + 1) /\ delivered' \in 0..followups'
             /\ stageStart' \in 0..Len(responses')
             /\ exc' \in Raised \cup {None} /\ termination' \in Terminations \cup {None}
             /\ latency' \in Latencies \cup {0}
<1>1. Len(responses) \in Nat /\ MaxTurns \in Nat \ {0} /\ MaxFollowups \in Nat /\ followups \in Nat
  BY RecordLength, AdapterAssumption DEF TypeOK
<1>2. ASSUME Respond PROVE TypeOK'
  <2>1. PICK calls \in Calls, u \in Usages, planRaises \in BOOLEAN, raises \in Raises :
          Responded(calls, u) /\ Outcome(calls, u, planRaises, raises)
    BY <1>2, RespondEffect
  <2>2. /\ events' \in Seq(EventType) /\ responses' \in Seq(ResponseType)
        /\ Len(responses') = Len(responses) + 1 /\ todo' = DOMAIN calls
    BY <2>1 DEF Responded, Keeps
  <2>3. DOMAIN calls \subseteq Nat
    BY AdapterAssumption
  <2>4. spent' \in [turns : 0..MaxTurns, tokens : 0..TokenLimit, cost : 0..CostLimit]
    BY <2>1, SpentType DEF Outcome, TypeOK
  <2>5. phase' \in Phases /\ exc' \in Raised \cup {None}
    BY <2>1 DEF Outcome, TypeOK, Raises, Raise, Goto, Phases, Raised, Resources, None
  <2>6. UNCHANGED <<adapter, followups, capture, expired, allowed, stages, delivered, stageStart,
                    termination, output, latency>>
    BY <1>2 DEF Respond, Fixed, stage, result
  <2> QED
    BY <1>1, <2>2, <2>3, <2>4, <2>5, <2>6 DEF TypeOK
<1>3. ASSUME Extends, Rest PROVE TypeOK'
  <2>1. events' \in Seq(EventType) /\ responses' \in Seq(ResponseType)
    BY <1>3 DEF Extends, Keeps, TypeOK
  <2> QED
    BY <1>3, <2>1 DEF TypeOK
<1>4. Extends => responses' = responses
  BY DEF Extends
<1>5. ASSUME Extends, UNCHANGED vars PROVE Rest
  BY <1>4, <1>5 DEF vars, control, stage, result, TypeOK
<1>6. ASSUME Extends, Waits PROVE Rest
  <2>1. CASE Tick
    BY <1>4, <1>6, <2>1 DEF Tick, Fixed, stage, result, TypeOK
  <2>2. CASE Escapes
    BY <1>4, <1>6, <2>2 DEF Escapes, Fixed, stage, result, TypeOK, Phases
  <2>3. CASE BeginStage
    <3>1. stages' \in 0..(followups' + 1)
      BY <1>1, <2>3 DEF BeginStage, Fixed, TypeOK, StageInv
    <3> QED
      BY <1>1, <1>4, <1>6, <2>3, <3>1 DEF BeginStage, Goto, Fixed, result, TypeOK, Phases
  <2>4. CASE RetryPrompt
    BY <1>4, <1>6, <2>4 DEF RetryPrompt, Fixed, stage, result, TypeOK
  <2>5. CASE NextTurn
    BY <1>4, <1>6, <2>5 DEF NextTurn, Goto, Fixed, stage, result, TypeOK, Phases
  <2>6. CASE CalledAfterwards
    BY <1>5, <1>6, <2>6 DEF CalledAfterwards
  <2> QED
    BY <1>6, <2>1, <2>2, <2>3, <2>4, <2>5, <2>6 DEF Waits
<1>7. ASSUME Extends, Stops PROVE Rest
  BY <1>4, <1>7, StopsEffect DEF Settled, TypeOK, Phases, Raised
<1>8. ASSUME Extends, Start PROVE Rest
  BY <1>1, <1>4, <1>8 DEF Start, Goto, Fixed, result, TypeOK, Phases
<1>9. ASSUME Extends, Request PROVE Rest
  <2>1. spent' \in [turns : 0..MaxTurns, tokens : 0..TokenLimit, cost : 0..CostLimit]
    <3>1. spent' = spent \/ (spent.turns # MaxTurns /\ spent' = [spent EXCEPT !.turns = @ + 1])
      BY <1>9 DEF Request
    <3>2. spent \in [turns : 0..MaxTurns, tokens : 0..TokenLimit, cost : 0..CostLimit]
      BY DEF TypeOK
    <3>3. spent.turns # MaxTurns => spent.turns + 1 \in 0..MaxTurns
      BY <1>1, <3>2
    <3> QED
      BY <3>1, <3>2, <3>3
  <2>2. allowed' \in 0..MaxTurns
    BY <1>1, <1>9, SMTT(60) DEF Request, TypeOK
  <2>3. phase' \in Phases /\ exc' \in Raised \cup {None}
    BY <1>9 DEF Request, Raise, Goto, TypeOK, Phases, Raised, Resources
  <2> QED
    BY <1>4, <1>9, <2>1, <2>2, <2>3 DEF Request, Fixed, result, TypeOK
<1>10. ASSUME Extends, AgentReturns PROVE Rest
  BY <1>4, <1>10 DEF AgentReturns, Goto, Fixed, stage, result, TypeOK, Phases
<1>11. ASSUME Extends, Complete PROVE Rest
  BY <1>4, <1>11 DEF Complete, Goto, Fixed, stage, TypeOK, Phases, Terminations
<1>12. ASSUME Extends, OutOfTurns PROVE Rest
  BY <1>4, <1>12 DEF OutOfTurns, Goto, Fixed, stage, TypeOK, Phases, Terminations
<1>13. ASSUME Extends, Deliver PROVE Rest
  <2>1. Used \in Nat
    <3>1. Cardinality(EventsOf("model_request")) \in Nat
      BY FiniteEvents DEF EventsOf
    <3> QED
      BY <1>1, <3>1 DEF Used, TypeOK
  <2>2. delivered' \in 0..followups' /\ allowed' \in 0..MaxTurns
    BY <1>1, <1>13, <2>1 DEF Deliver, Fixed, TypeOK
  <2> QED
    BY <1>4, <1>13, <2>2 DEF Deliver, Goto, Fixed, result, TypeOK, Phases
<1>14. ASSUME Extends, Answer PROVE Rest
  BY <1>4, <1>14 DEF Answer, Fixed, stage, result, TypeOK
<1>15. ASSUME Extends, AnswerRaises PROVE Rest
  BY <1>4, <1>15 DEF AnswerRaises, Raise, Fixed, stage, result, TypeOK, Phases, Raised
<1>16. ASSUME Extends, Handoff PROVE Rest
  BY <1>4, <1>16 DEF Handoff, Fixed, stage, result, TypeOK
<1>17. ASSUME Extends, AgentCalled PROVE Rest
  <2>1. CASE AgentIsAnswered
    BY <1>4, <1>17, <2>1 DEF AgentIsAnswered, Fixed, stage, result, TypeOK
  <2>2. CASE AgentIsRefused
    BY <1>4, <1>17, <2>2 DEF AgentIsRefused, Raise, Fixed, stage, result, TypeOK, Phases, Raised, Resources
  <2>3. CASE AgentCallRaises
    BY <1>4, <1>17, <2>3 DEF AgentCallRaises, Raise, Fixed, stage, result, TypeOK, Phases, Raised
  <2> QED
    BY <1>17, <2>1, <2>2, <2>3 DEF AgentCalled
<1>18. ASSUME Extends, StageReturns PROVE Rest
  BY <1>4, <1>18 DEF StageReturns, Goto, Fixed, stage, result, TypeOK, Phases
<1>19. ASSUME Extends, Handle PROVE Rest
  <2>1. termination' \in Terminations
    BY <1>19 DEF Handle, OfBudget, Terminations
  <2> QED
    BY <1>4, <1>19, <2>1 DEF Handle, Fixed, stage, TypeOK, Phases
<1>20. ASSUME Extends, Close PROVE Rest
  BY <1>4, <1>20 DEF Close, Goto, Fixed, stage, result, TypeOK, Phases
<1> QED
  BY <1>2, <1>3, <1>5, <1>6, <1>7, <1>8, <1>9, <1>10, <1>11, <1>12, <1>13, <1>14, <1>15,
     <1>16, <1>17, <1>18, <1>19, <1>20, Extending, StepsAre DEF Steps

LEMMA PhaseStep ==
  ASSUME TypeOK, PhaseInv, [Next]_vars
  PROVE  PhaseInv'
<1> USE DEF PhaseInv, Closed
<1>1. ASSUME Respond PROVE PhaseInv'
  <2>1. PICK calls \in Calls, u \in Usages, planRaises \in BOOLEAN, raises \in Raises :
          Responded(calls, u) /\ Outcome(calls, u, planRaises, raises)
    BY <1>1, RespondEffect
  <2>2. /\ responses' # <<>> /\ todo' = DOMAIN calls
        /\ todo' = DOMAIN responses'[Len(responses')].calls
    <3>1. Len(responses') = Len(responses) + 1 /\ responses' \in Seq(ResponseType)
      BY <2>1 DEF Responded
    <3>2. responses'[Len(responses')].calls = calls
      BY <2>1, <3>1 DEF Responded
    <3> QED
      BY <2>1, <3>1, <3>2, RecordLength DEF Responded
  <2>3. phase' \in {"raised", "dispatch"} /\ (phase' = "raised" <=> exc' # None)
    <3>1. phase = "requested" /\ exc = None
      BY <1>1 DEF Respond
    <3> QED
      BY <2>1, <3>1 DEF Outcome, Raise, Goto, None
  <2>4. phase = "requested" /\ UNCHANGED <<adapter, termination, output>>
    BY <1>1 DEF Respond, Fixed, result
  <2> QED
    BY <2>2, <2>3, <2>4
<1>2. ASSUME Extends, Waits \/ UNCHANGED vars PROVE PhaseInv'
  <2>1. CASE Tick
    BY <2>1 DEF Tick, Fixed, stage, result
  <2>2. CASE Escapes
    BY <2>2 DEF Escapes, Running, Fixed, stage, result
  <2>3. CASE BeginStage
    BY <2>3 DEF BeginStage, Goto, Fixed, result
  <2>4. CASE RetryPrompt
    BY <2>4 DEF RetryPrompt, Fixed, stage, result
  <2>5. CASE NextTurn
    BY <2>5 DEF NextTurn, Goto, Fixed, stage, result
  <2>6. CASE CalledAfterwards \/ UNCHANGED vars
    BY <2>6 DEF CalledAfterwards, vars, control, stage, result
  <2> QED
    BY <1>2, <2>1, <2>2, <2>3, <2>4, <2>5, <2>6 DEF Waits
<1>3. ASSUME Extends, Stops PROVE PhaseInv'
  BY <1>3, StopsEffect DEF Settled, Running, None
<1>4. ASSUME Extends, AgentCalled PROVE PhaseInv'
  <2>1. CASE AgentIsAnswered
    BY <2>1 DEF AgentIsAnswered, Fixed, stage, result
  <2>2. CASE AgentIsRefused
    BY <2>2 DEF AgentIsRefused, Raise, Fixed, stage, result, None
  <2>3. CASE AgentCallRaises
    BY <2>3 DEF AgentCallRaises, Raise, Fixed, stage, result, None
  <2> QED
    BY <1>4, <2>1, <2>2, <2>3 DEF AgentCalled
<1>5. ASSUME Extends, Start PROVE PhaseInv'
  BY <1>5 DEF Extends, Start, Goto, Fixed, result, None
<1>6. ASSUME Extends, Request PROVE PhaseInv'
  BY <1>6 DEF Extends, Request, Raise, Goto, Fixed, result, None
<1>7. ASSUME Extends, AgentReturns PROVE PhaseInv'
  BY <1>7 DEF Extends, AgentReturns, Goto, Fixed, stage, result, None
<1>8. ASSUME Extends, Complete PROVE PhaseInv'
  BY <1>8 DEF Extends, Complete, Goto, Fixed, stage, None
<1>9. ASSUME Extends, OutOfTurns PROVE PhaseInv'
  BY <1>9 DEF Extends, OutOfTurns, Goto, Fixed, stage, None
<1>10. ASSUME Extends, Deliver PROVE PhaseInv'
  BY <1>10 DEF Extends, Deliver, Goto, Fixed, result, None
<1>11. ASSUME Extends, Answer PROVE PhaseInv'
  BY <1>11 DEF Extends, Answer, Fixed, stage, result, None
<1>12. ASSUME Extends, AnswerRaises PROVE PhaseInv'
  BY <1>12 DEF Extends, AnswerRaises, Raise, Fixed, stage, result, None
<1>13. ASSUME Extends, Handoff PROVE PhaseInv'
  BY <1>13 DEF Extends, Handoff, Fixed, stage, result, None
<1>14. ASSUME Extends, StageReturns PROVE PhaseInv'
  BY <1>14 DEF Extends, StageReturns, Goto, Fixed, stage, result, None
<1>15. ASSUME Extends, Handle PROVE PhaseInv'
  BY <1>15 DEF Extends, Handle, Fixed, stage, None
<1>16. ASSUME Extends, Close PROVE PhaseInv'
  BY <1>16 DEF Extends, Close, Goto, Fixed, stage, result, None
<1> QED
  BY <1>1, <1>2, <1>3, <1>4, <1>5, <1>6, <1>7, <1>8, <1>9, <1>10, <1>11, <1>12, <1>13, <1>14, <1>15, <1>16,
     Extending, StepsAre DEF Steps


LEMMA InitPhase ==
  ASSUME Init PROVE PhaseInv
BY DEF Init, PhaseInv, Closed

-----------------------------------------------------------------------------
(* Turns and stages.                                                       *)

(* Most steps begin no stage and deliver no turn.                          *)
StageStays ==
  /\ UNCHANGED <<adapter, followups, stages, delivered, stageStart>>
  /\ phase' \in {"prepared", "stage"} <=> phase \in {"prepared", "stage"}
  /\ phase' = "prepared" <=> phase = "prepared"
  /\ phase' = "dispatch" => phase = "dispatch"
  /\ \A i \in New : events'[i].type # "user_turn"

LEMMA StageMoves ==
  ASSUME TypeOK, PhaseInv, [Next]_vars
  PROVE  Respond \/ Start \/ Deliver \/ BeginStage \/ StageStays
<1> USE DEF StageStays
<1>1. ASSUME Waits \/ UNCHANGED vars PROVE BeginStage \/ StageStays
  <2>1. New = {}
    BY <1>1, WaitsEffect, QuietStep
  <2>2. CASE Tick
    BY <2>1, <2>2 DEF Tick, Fixed, stage, result
  <2>3. CASE Escapes
    BY <2>1, <2>3 DEF Escapes, Running, Fixed, stage, result
  <2>4. CASE RetryPrompt
    BY <2>1, <2>4 DEF RetryPrompt, Fixed, stage, result
  <2>5. CASE NextTurn
    BY <2>1, <2>5 DEF NextTurn, Goto, Fixed, stage, result
  <2>6. CASE CalledAfterwards \/ UNCHANGED vars
    BY <2>1, <2>6 DEF CalledAfterwards, vars, control, stage, result
  <2> QED
    BY <1>1, <2>2, <2>3, <2>4, <2>5, <2>6 DEF Waits
<1>2. ASSUME Stops PROVE StageStays
  BY <1>2, StopsEffect, QuietStep DEF Settled, Running
<1>3. ASSUME AgentCalled PROVE StageStays
  <2>1. \A i \in New : events'[i].type # "user_turn"
    BY <1>3, AgentCallEffect
  <2>2. CASE AgentIsAnswered
    BY <2>1, <2>2 DEF AgentIsAnswered, Fixed, stage, result
  <2>3. CASE AgentIsRefused
    BY <2>1, <2>3 DEF AgentIsRefused, Raise, Fixed, stage, result
  <2>4. CASE AgentCallRaises
    BY <2>1, <2>4 DEF AgentCallRaises, Raise, Fixed, stage, result
  <2> QED
    BY <1>3, <2>2, <2>3, <2>4 DEF AgentCalled
<1>4. ASSUME Request PROVE StageStays
  <2>1. \A i \in New : events'[i].type # "user_turn"
    BY <1>4, SpeaksEffect DEF Request
  <2> QED
    BY <1>4, <2>1 DEF Request, Raise, Goto, Fixed, result
<1>5. ASSUME AgentReturns PROVE StageStays
  <2>1. \A i \in New : events'[i].type # "user_turn"
    BY <1>5, SpeaksEffect DEF AgentReturns
  <2> QED
    BY <1>5, <2>1 DEF AgentReturns, Goto, Fixed, stage, result
<1>6. ASSUME Complete PROVE StageStays
  <2>1. \A i \in New : events'[i].type # "user_turn"
    BY <1>6, SpeaksEffect DEF Complete
  <2> QED
    BY <1>6, <2>1 DEF Complete, Goto, Fixed, stage
<1>7. ASSUME OutOfTurns PROVE StageStays
  <2>1. \A i \in New : events'[i].type # "user_turn"
    BY <1>7, SpeaksEffect DEF OutOfTurns
  <2> QED
    BY <1>7, <2>1 DEF OutOfTurns, Goto, Fixed, stage
<1>8. ASSUME Answer PROVE StageStays
  <2>1. \A i \in New : events'[i].type # "user_turn"
    BY <1>8, AnswerEffect DEF Tries
  <2> QED
    BY <1>8, <2>1 DEF Answer, Fixed, stage, result
<1>9. ASSUME AnswerRaises PROVE StageStays
  <2>1. \A i \in New : events'[i].type # "user_turn"
    BY <1>9, AnswerRaisesEffect DEF Tries
  <2> QED
    BY <1>9, <2>1 DEF AnswerRaises, Raise, Fixed, stage, result
<1>10. ASSUME Handoff PROVE StageStays
  <2>1. \A i \in New : events'[i].type # "user_turn"
    <3>1. PICK c : /\ New = {Len(events) + 1}
                   /\ events'[Len(events) + 1] =
                        Event("handoff", Latest("model_response"), CallAt(c), c, None)
      BY <1>10, HandoffEffect
    <3> QED
      BY <3>1 DEF Event
  <2> QED
    BY <1>10, <2>1 DEF Handoff, Fixed, stage, result
<1>11. ASSUME StageReturns PROVE StageStays
  <2>1. \A i \in New : events'[i].type # "user_turn"
    BY <1>11, StageReturnsEffect DEF Tries
  <2> QED
    BY <1>11, <2>1 DEF StageReturns, Goto, Fixed, stage, result
<1>12. ASSUME Handle PROVE StageStays
  <2>1. \A i \in New : events'[i].type # "user_turn"
    BY <1>12, HandleEffect DEF Tries
  <2> QED
    BY <1>12, <2>1 DEF Handle, Fixed, stage
<1>13. ASSUME Close PROVE StageStays
  <2>1. \A i \in New : events'[i].type # "user_turn"
    <3>1. \A i \in New : \E c \in AllCalls : events'[i] = IgnoredEvent(c)
      BY <1>13, CloseEffect DEF Ignores
    <3> QED
      BY <3>1, IgnoredType
  <2> QED
    BY <1>13, <2>1 DEF Close, Goto, Fixed, stage, result
<1> QED
  BY <1>1, <1>2, <1>3, <1>4, <1>5, <1>6, <1>7, <1>8, <1>9, <1>10, <1>11, <1>12, <1>13, StepsAre DEF Steps

LEMMA InitStage ==
  ASSUME Init PROVE StageInv
<1>1. EventsOf("user_turn") = {} /\ DOMAIN responses = {}
  BY DEF Init, EventsOf
<1> QED
  BY <1>1, FS_EmptySet DEF Init, StageInv, Turns

LEMMA TurnsStay ==
  ASSUME TypeOK, Keeps, \A i \in New : events'[i].type # "user_turn"
  PROVE  /\ EventsOf("user_turn")' = EventsOf("user_turn")
         /\ \A n : Delivery(events, n)' = Delivery(events, n)
<1>1. EventsOf("user_turn")' = EventsOf("user_turn")
  BY KeptOf
<1>2. ASSUME NEW n
      PROVE  Delivery(events, n)' = Delivery(events, n)
  <2>1. \A k \in New : k \notin Delivery(events, n)'
    BY DEF Delivery
  <2> QED
    BY <2>1, KeptDeliveries
<1> QED
  BY <1>1, <1>2

LEMMA DeliveredTurns ==
  ASSUME TypeOK, StageInv, NEW n, NEW k \in Delivery(events, n)
  PROVE  n \in Nat /\ n <= Turns /\ k \in DOMAIN events
<1> DEFINE T == {j \in 1..k : events[j].type = "user_turn"}
<1>1. k \in DOMAIN events /\ n = Cardinality(T)
  BY DEF Delivery
<1>2. T \subseteq EventsOf("user_turn") /\ T \subseteq DOMAIN events
  <2>1. \A j \in 1..k : j \in DOMAIN events
    BY <1>1, RecordLength
  <2> QED
    BY <2>1 DEF EventsOf
<1>3. IsFiniteSet(EventsOf("user_turn")) /\ Cardinality(T) \in Nat
  BY <1>2, FiniteEvents DEF EventsOf
<1> HIDE DEF T
<1>4. Cardinality(T) <= Cardinality(EventsOf("user_turn"))
  BY <1>2, <1>3, FS_Subset
<1> QED
  BY <1>1, <1>3, <1>4 DEF StageInv

LEMMA TurnsGrow ==
  ASSUME TypeOK, StageInv, Keeps, New = {Len(events) + 1}, Len(events) + 1 \in DOMAIN events',
         events'[Len(events) + 1].type = "user_turn"
  PROVE  /\ Cardinality(EventsOf("user_turn")') = Turns + 1
         /\ Len(events) + 1 \in Delivery(events', Turns + 1)
         /\ \A n : \A k \in New : k \in Delivery(events, n)' => n = Turns + 1
<1> DEFINE L == Len(events)
           T == {j \in 1..(L + 1) : events'[j].type = "user_turn"}
<1>1. EventsOf("user_turn")' = EventsOf("user_turn") \cup {L + 1}
  BY KeptOf
<1>2. /\ L \in Nat /\ DOMAIN events' = 1..Len(events') /\ Len(events') \in Nat
      /\ L + 1 \notin DOMAIN events
  BY Kept
<1>3. T = EventsOf("user_turn")'
  <2>1. DOMAIN events' = 1..(L + 1)
    <3>1. Len(events') \in New
      BY <1>2 DEF New
    <3> QED
      BY <1>2, <3>1, ZenonT(60)
  <2> QED
    BY <2>1, SMTT(60) DEF EventsOf
<1>4. Cardinality(EventsOf("user_turn")') = Turns + 1
  <2>1. /\ IsFiniteSet(EventsOf("user_turn")) /\ Cardinality(EventsOf("user_turn")) = Turns
        /\ L + 1 \notin EventsOf("user_turn")
    BY <1>2, FiniteEvents DEF StageInv, EventsOf
  <2> QED
    BY <1>1, <2>1, FS_AddElement
<1>5. \A n : L + 1 \in Delivery(events, n)' <=> n = Turns + 1
  <2>1. \A n : L + 1 \in Delivery(events, n)' <=> Cardinality(T) = n
    BY DEF Delivery
  <2> HIDE DEF T
  <2> QED
    BY <1>3, <1>4, <2>1
<1>6. L + 1 \in Delivery(events', Turns + 1)
  BY <1>3, <1>4 DEF Delivery
<1> QED
  BY <1>4, <1>5, <1>6

LEMMA StageStep ==
  ASSUME TypeOK, PhaseInv, StageInv, [Next]_vars
  PROVE  StageInv'
<1> DEFINE R == Len(responses)
           Users == EventsOf("user_turn")
<1>1. /\ delivered \in Nat /\ stages \in Nat /\ R \in Nat
      /\ \A r \in DOMAIN responses : responses[r].stage \in Nat
  BY AdapterAssumption, RecordLength DEF TypeOK, ResponseType
<1>2. /\ stages = IF phase \in {"prepared", "stage"} THEN delivered ELSE delivered + 1
      /\ Cardinality(Users) = Turns
      /\ phase = "prepared" => delivered = 0
      /\ \A r \in DOMAIN responses : responses[r].stage <= stages
      /\ \A r \in DOMAIN responses : r > stageStart => responses[r].stage = stages
      /\ phase = "dispatch" => stageStart < R
      /\ \A n \in 1..Turns : Delivery(events, n) # {}
  BY DEF StageInv
<1>3. ASSUME Keeps, NEW n, Delivery(events, n) # {}
      PROVE  Delivery(events, n)' # {}
  BY <1>3, KeptDeliveries
<1>4. CASE Respond
  <2>1. PICK calls \in Calls, u \in Usages : Responded(calls, u)
    BY <1>4, RespondEffect
  <2>2. phase = "requested" /\ phase' \in {"raised", "dispatch"} /\ UNCHANGED <<delivered, stages, stageStart>>
    BY <1>4 DEF Respond, stage, Raise, Goto
  <2>3. Turns' = Turns /\ Turns = delivered + 1 /\ stages = delivered + 1
    BY <1>2, <2>2 DEF Turns
  <2>4. Keeps /\ \A i \in New : events'[i].type # "user_turn"
    BY <2>1 DEF Responded
  <2>5. Users' = Users /\ \A n : Delivery(events, n)' = Delivery(events, n)
    BY <2>4, TurnsStay
  <2>6. /\ \A r \in DOMAIN responses' : responses'[r].stage <= stages'
        /\ \A r \in DOMAIN responses' : r > stageStart' => responses'[r].stage = stages'
    BY <1>1, <1>2, <2>1, <2>2, RecordLength, SMTT(60) DEF Responded
  <2>7. stageStart' < Len(responses')
    BY <1>1, <2>1, <2>2 DEF Responded, TypeOK
  <2> QED
    BY <1>2, <2>2, <2>3, <2>5, <2>6, <2>7 DEF StageInv
<1>5. CASE Start \/ Deliver
  <2>1. /\ responses' = responses /\ phase' = "stage"
        /\ stages' = stages /\ stageStart' = stageStart
        /\ Log(<<Plain("user_turn")>>)
        /\ delivered' + 1 = Turns + 1 /\ delivered' = stages
    BY <1>1, <1>2, <1>5 DEF Start, Deliver, Goto, Turns
  <2>2. /\ Keeps /\ New = {Len(events) + 1} /\ Len(events) + 1 \in DOMAIN events'
        /\ events'[Len(events) + 1].type = "user_turn"
    BY <2>1, SpeaksEffect
  <2>3. /\ Cardinality(Users') = Turns + 1
        /\ Len(events) + 1 \in Delivery(events', Turns + 1)
    BY <2>2, TurnsGrow
  <2>4. Turns' = Turns + 1 /\ Turns \in Nat
    BY <1>1, <2>1 DEF Turns
  <2>5. ASSUME NEW n \in 1..Turns' PROVE Delivery(events, n)' # {}
    <3>1. CASE n = Turns + 1
      BY <2>3, <3>1
    <3>2. CASE n # Turns + 1
      <4>1. n \in 1..Turns
        BY <2>4, <3>2
      <4> QED
        BY <1>2, <1>3, <2>2, <4>1
    <3> QED
      BY <3>1, <3>2
  <2> QED
    BY <1>2, <2>1, <2>3, <2>4, <2>5 DEF StageInv
<1>6. CASE BeginStage
  <2>1. /\ events' = events /\ responses' = responses
        /\ phase = "stage" /\ phase' \in {"agent", "turn"}
        /\ stages' = stages + 1 /\ delivered' = delivered
    BY <1>6 DEF BeginStage, Goto
  <2>2. Users' = Users /\ \A n : Delivery(events, n)' = Delivery(events, n)
    BY <2>1, QuietStep, TurnsStay
  <2>3. Turns' = Turns
    BY <2>1 DEF Turns
  <2>4. \A r \in DOMAIN responses' : responses'[r].stage <= stages'
    BY <1>1, <1>2, <2>1
  <2>5. \A r \in DOMAIN responses' : ~(r > stageStart')
    BY <1>1, <1>6, <2>1, RecordLength DEF BeginStage
  <2> QED
    BY <1>2, <2>1, <2>2, <2>3, <2>4, <2>5 DEF StageInv
<1>7. CASE Extends /\ StageStays
  <2>1. responses' = responses /\ Keeps
    BY <1>7 DEF Extends
  <2>2. Users' = Users /\ \A n : Delivery(events, n)' = Delivery(events, n)
    BY <1>7, <2>1, TurnsStay DEF StageStays
  <2>3. Turns' = Turns
    BY <1>7 DEF Turns, StageStays
  <2> QED
    BY <1>2, <1>7, <2>1, <2>2, <2>3 DEF StageInv, StageStays
<1> QED
  BY <1>4, <1>5, <1>6, <1>7, StageMoves, Extending

-----------------------------------------------------------------------------
(* Attempts and answers, and responses.                                    *)

LEMMA PairStepInv ==
  ASSUME TypeOK, PhaseInv, PairInv, [Next]_vars
  PROVE  PairInv'
<1>1. exc # None => exc' = exc
  BY ExcStays
<1>2. Keeps /\ Paired
  <2>1. CASE Extends
    BY <2>1 DEF Extends
  <2>2. CASE Respond
    <3>1. PICK calls \in Calls, u \in Usages : Responded(calls, u)
      BY <2>2, RespondEffect
    <3> QED
      BY <3>1 DEF Responded, Paired
  <2> QED
    BY <2>1, <2>2, Extending
<1>3. ASSUME NEW i \in Attempts(events)'
      PROVE  /\ i + 1 \in DOMAIN events'
             /\ events'[i + 1].type \in {"tool_result", "error"}
             /\ events'[i + 1].type = "error" => exc' = "error"
             /\ events'[i + 1].of = i
  <2>1. CASE i \in Attempts(events)
    BY <1>1, <1>2, <2>1, Kept DEF PairInv, None
  <2>2. CASE i \in New /\ events'[i].type = "tool_attempt"
    BY <1>2, <2>2, Kept DEF Paired
  <2> QED
    BY <1>2, <2>1, <2>2, KeptAttempts
<1>4. ASSUME NEW i \in EventsOf("tool_result")'
      PROVE  i - 1 \in Attempts(events)' /\ events'[i].of = i - 1
  <2>1. CASE i \in EventsOf("tool_result")
    <3>1. i \in DOMAIN events
      BY <2>1 DEF EventsOf
    <3> QED
      BY <1>2, <2>1, <3>1, Kept, KeptAttempts DEF PairInv
  <2>2. CASE i \in New /\ events'[i].type = "tool_result"
    BY <1>2, <2>2, Kept, KeptAttempts DEF Paired
  <2> QED
    BY <1>2, <2>1, <2>2, KeptOf
<1> QED
  BY <1>3, <1>4 DEF PairInv

LEMMA ResponseStep ==
  ASSUME TypeOK, PhaseInv, ResponseInv, [Next]_vars
  PROVE  ResponseInv'
<1> DEFINE E == EventsOf("model_response")
<1>1. /\ \A r \in DOMAIN responses : responses[r].event \in E
      /\ \A i \in E : \E r \in DOMAIN responses : responses[r].event = i
      /\ \A r, s \in DOMAIN responses : r < s => responses[r].event < responses[s].event
      /\ E \subseteq 1..Len(events) /\ Len(events) \in Nat
  BY RecordLength DEF ResponseInv, EventsOf
<1>2. CASE Extends
  <2>1. E' = E
    BY <1>2, KeptOf DEF Extends
  <2>2. responses' = responses
    BY <1>2 DEF Extends
  <2> QED
    BY <1>1, <2>1, <2>2 DEF ResponseInv
<1>3. CASE Respond
  <2>1. PICK calls \in Calls, u \in Usages : Responded(calls, u)
    BY <1>3, RespondEffect
  <2> DEFINE n == Len(responses) + 1
             L == Len(events)
  <2>2. E' = E \cup {L + 1}
    BY <2>1, KeptOf DEF Responded
  <2>3. /\ \A r \in DOMAIN responses' : r \in DOMAIN responses \/ r = n
        /\ \A r \in DOMAIN responses : /\ r \in DOMAIN responses' /\ responses'[r] = responses[r]
                                      /\ r < n /\ ~(n < r)
        /\ n \in DOMAIN responses' /\ responses'[n].event = L + 1
    BY <2>1, RecordLength DEF Responded
  <2> HIDE DEF E, n
  <2>4. \A r \in DOMAIN responses' : responses'[r].event \in E'
    BY <1>1, <2>2, <2>3
  <2>5. \A i \in E' : \E r \in DOMAIN responses' : responses'[r].event = i
    <3> SUFFICES ASSUME NEW i \in E' PROVE \E r \in DOMAIN responses' : responses'[r].event = i
      OBVIOUS
    <3>1. CASE i = L + 1
      BY <2>3, <3>1
    <3>2. CASE i \in E
      BY <1>1, <2>3, <3>2
    <3> QED
      BY <2>2, <3>1, <3>2
  <2>6. ASSUME NEW r \in DOMAIN responses', NEW s \in DOMAIN responses', r < s
        PROVE  responses'[r].event < responses'[s].event
    <3>1. r \in DOMAIN responses
      <4>1. r # n
        BY <2>3, <2>6, RecordLength DEF n
      <4> QED
        BY <2>3, <4>1
    <3>2. responses[r].event \in E
      BY <1>1, <3>1
    <3>3. CASE s = n
      <4>1. responses[r].event \in 1..L
        BY <1>1, <3>2
      <4>2. responses'[r].event = responses[r].event /\ responses'[s].event = L + 1
        BY <2>3, <3>1, <3>3
      <4> QED
        BY <1>1, <4>1, <4>2
    <3>4. CASE s \in DOMAIN responses
      BY <1>1, <2>3, <2>6, <3>1, <3>4
    <3> QED
      BY <2>3, <3>3, <3>4
  <2> QED
    BY <2>4, <2>5, <2>6 DEF ResponseInv, E
<1> QED
  BY <1>2, <1>3, Extending

-----------------------------------------------------------------------------
(* How a run ends.                                                         *)

LEMMA ClosedMoves ==
  ASSUME TypeOK, PhaseInv, [Next]_vars, phase' \in Closed
  PROVE  Complete \/ OutOfTurns \/ Handle \/ Close \/ Tick \/ UNCHANGED vars
<1> USE DEF Closed
<1>1. ~Stops
  BY StopsEffect
<1>2. ~Start /\ ~Request /\ ~AgentReturns /\ ~Deliver /\ ~StageReturns
  BY DEF Start, Request, AgentReturns, Deliver, StageReturns, Goto, Raise
<1>3. ~Respond /\ ~Answer /\ ~AnswerRaises /\ ~Handoff
  BY DEF Respond, Answer, AnswerRaises, Handoff, Goto, Raise
<1>4. ~AgentCalled
  BY DEF AgentCalled, AgentIsAnswered, AgentIsRefused, AgentCallRaises, Raise
<1>5. Waits => Tick \/ UNCHANGED vars
  BY DEF Waits, Escapes, BeginStage, RetryPrompt, NextTurn, CalledAfterwards, Running, Goto
<1> QED
  BY <1>1, <1>2, <1>3, <1>4, <1>5, StepsAre DEF Steps

LEMMA EndStep ==
  ASSUME TypeOK, PhaseInv, EndInv, [Next]_vars
  PROVE  EndInv'
<1> SUFFICES ASSUME phase' \in Closed PROVE EndInv'
  BY DEF EndInv
<1>1. CASE Complete
  <2>1. /\ exc' = None /\ termination' = "completed" /\ output' = TRUE /\ delivered' = followups'
    BY <1>1 DEF Complete, Goto, PhaseInv, Closed, Fixed, stage
  <2> QED
    BY <2>1 DEF EndInv, None
<1>2. CASE OutOfTurns
  <2>1. exc' = None /\ termination' = "max_model_turns" /\ output' = FALSE
    BY <1>2 DEF OutOfTurns, Goto, PhaseInv, Closed, TypeOK
  <2> QED
    BY <2>1 DEF EndInv, None
<1>3. CASE Handle
  <2>1. /\ exc' = exc /\ exc \in Raised /\ exc # None /\ output' = FALSE
        /\ adapter' = adapter /\ stageStart' = stageStart /\ responses' = responses
    BY <1>3 DEF Handle, PhaseInv, Closed, Fixed, stage, TypeOK
  <2>2. termination' =
          CASE exc = "max_turns_exceeded" -> "max_model_turns"
            [] exc = "cancelled"          -> "cancelled"
            [] exc = "model_behavior" ->
                 IF Rejected # {} THEN "completed" ELSE "provider_error"
            [] exc = "provider" ->
                 IF adapter = "pydantic" THEN "provider_error" ELSE "adapter_error"
            [] OTHER -> OfBudget(exc)
    BY <1>3 DEF Handle
  <2>3. termination' = "completed" => adapter = "openai" /\ exc = "model_behavior" /\ Undeclared(stageStart) # {}
    BY <2>2 DEF OfBudget, Rejected
  <2>4. Undeclared(stageStart)' = Undeclared(stageStart)
    BY <2>1, SameCalls DEF Undeclared
  <2>5. exc \in {"error", "wall_time", "cancelled", "retries"} => termination' \in InfraEnds
    BY <2>2 DEF OfBudget, InfraEnds
  <2>6. exc = "model_turns" => termination' = "max_model_turns"
    BY <2>2 DEF OfBudget
  <2>7. /\ exc = "tokens" <=> termination' = "token_budget"
        /\ exc = "cost_usd" <=> termination' = "cost_budget"
        /\ exc = "tool_calls" <=> termination' = "max_tool_calls"
    BY <2>1, <2>2 DEF OfBudget, Raised, Resources
  <2> QED
    BY <2>1, <2>3, <2>4, <2>5, <2>6, <2>7 DEF EndInv
<1>4. CASE Close \/ Tick \/ UNCHANGED vars
  <2>1. /\ phase \in Closed
        /\ UNCHANGED <<adapter, responses, exc, termination, output, delivered, followups, stageStart>>
    BY <1>4 DEF Close, Tick, Closed, Goto, Fixed, stage, result, vars, control
  <2>2. Undeclared(stageStart)' = Undeclared(stageStart)
    BY <2>1, SameCalls DEF Undeclared
  <2> QED
    BY <2>1, <2>2 DEF EndInv
<1> QED
  BY <1>1, <1>2, <1>3, <1>4, ClosedMoves

-----------------------------------------------------------------------------
(* The kinds of calls, and the calls left to run.                          *)

LEMMA DispatchMoves ==
  ASSUME TypeOK, PhaseInv, [Next]_vars, phase' = "dispatch"
  PROVE  \/ Respond \/ Answer \/ Handoff \/ Tick \/ RetryPrompt \/ UNCHANGED vars
<1>1. ~Stops
  BY StopsEffect
<1>2. ~Start /\ ~Request /\ ~AgentReturns /\ ~Deliver /\ ~StageReturns
  BY DEF Start, Request, AgentReturns, Deliver, StageReturns, Goto, Raise
<1>3. ~AnswerRaises /\ ~Complete /\ ~OutOfTurns /\ ~Handle /\ ~Close
  BY DEF AnswerRaises, Complete, OutOfTurns, Handle, Close, Goto, Raise
<1>4. ~AgentCalled
  BY DEF AgentCalled, AgentIsAnswered, AgentIsRefused, AgentCallRaises, Raise
<1>5. ~Escapes /\ ~BeginStage /\ ~NextTurn
  BY DEF Escapes, BeginStage, NextTurn, Goto
<1> QED
  BY <1>1, <1>2, <1>3, <1>4, <1>5, StepsAre DEF Steps, Waits, CalledAfterwards

LEMMA KindStep ==
  ASSUME TypeOK, PhaseInv, KindInv, [Next]_vars
  PROVE  KindInv'
<1> DEFINE R == Len(responses)
<1>1. CASE Respond
  <2>1. PICK calls \in Calls, u \in Usages, planRaises \in BOOLEAN, raises \in Raises :
          Responded(calls, u) /\ Outcome(calls, u, planRaises, raises)
    BY <1>1, RespondEffect
  <2>2. /\ phase = "requested" /\ exc = None /\ adapter' = adapter
        /\ stageStart' = stageStart /\ stageStart \in 0..R /\ R \in Nat
    BY <1>1, RecordLength DEF Respond, Fixed, stage, TypeOK, PhaseInv, Closed
  <2>3. ASSUME NEW c \in Handoffs(R)'
        PROVE  c[2] \in todo'
    <3>1. c \in Of(R)' /\ Len(responses') = R + 1 /\ todo' = DOMAIN calls
      BY <2>1 DEF Handoffs, Responded
    <3>2. PICK i \in DOMAIN responses'[R + 1].calls : c = <<R + 1, i>>
      BY <3>1 DEF Of
    <3> QED
      BY <2>1, <3>1, <3>2 DEF Responded
  <2>4. ASSUME NEW c \in AllCalls', adapter = "pydantic"
        PROVE  /\ KindOf(c)' # "handoff"
               /\ KindOf(c)' = "undeclared" <=> CallAt(c)'.tool \notin ToolNames
    <3>1. CASE c \in AllCalls
      BY <2>1, <2>4, <3>1, RespondedCalls DEF KindInv
    <3>2. CASE c \notin AllCalls
      BY <2>1, <2>4, <3>2, RespondedCalls DEF Outcome, HasKind
    <3> QED
      BY <3>1, <3>2
  <2>5. ASSUME NEW c \in AllCalls', adapter = "openai", KindOf(c)' = "undeclared"
        PROVE  /\ phase' = "raised" /\ exc' # None
               /\ c[1] = Len(responses') /\ c[1] > stageStart'
    <3>1. c \notin AllCalls
      BY <2>1, <2>2, <2>5, RespondedCalls DEF KindInv, Closed
    <3>2. c[1] = R + 1 /\ c[1] = Len(responses') /\ HasKind(calls, "undeclared")
      BY <2>1, <2>5, <3>1, RespondedCalls DEF HasKind
    <3>3. phase' = "raised" /\ exc' # None
      BY <2>1, <2>5, <3>2 DEF Outcome, Raise, None
    <3> QED
      BY <2>2, <3>2, <3>3
  <2> QED
    BY <2>2, <2>3, <2>4, <2>5 DEF KindInv
<1>2. CASE Extends
  <2>1. responses' = responses
    BY <1>2 DEF Extends
  <2>2. /\ AllCalls' = AllCalls /\ Handoffs(R)' = Handoffs(R)
        /\ \A c : KindOf(c)' = KindOf(c) /\ CallAt(c)' = CallAt(c)
    BY <2>1, SameCalls
  <2>3. ASSUME phase' = "dispatch", todo' # {}, NEW c \in Handoffs(R)
        PROVE  c[2] \in todo'
    <3>1. ~Respond
      BY <2>1, RespondAdds
    <3>2. CASE Tick \/ UNCHANGED vars
      BY <2>3, <3>2 DEF Tick, vars, control, KindInv
    <3>3. CASE Handoff
      BY <2>3, <3>3 DEF Handoff
    <3>4. CASE Answer \/ RetryPrompt
      <4>1. PICK i \in todo : /\ Kind(i) \in {"declared", "malformed", "undeclared"}
                              /\ todo' = todo \ {i} /\ phase = "dispatch"
        BY <3>4 DEF Answer, RetryPrompt
      <4>2. c[2] \in todo
        BY <2>3, <4>1 DEF KindInv
      <4>3. c = <<R, c[2]>> /\ KindOf(c) = "handoff"
        BY DEF Handoffs, Of
      <4>4. c[2] # i
        BY <4>1, <4>3 DEF Kind, This, KindOf
      <4> QED
        BY <4>1, <4>2, <4>4
    <3> QED
      BY <2>3, <3>1, <3>2, <3>3, <3>4, DispatchMoves
  <2>4. adapter' = adapter
    <3>1. ~Respond
      BY <2>1, RespondAdds
    <3>2. Start \/ Deliver \/ BeginStage => adapter' = adapter
      BY DEF Start, Deliver, BeginStage, Fixed
    <3> QED
      BY <3>1, <3>2, StageMoves DEF StageStays
  <2>5. ASSUME phase \in Closed \cup {"raised"}, exc # None
        PROVE  phase' \in Closed \cup {"raised"} /\ exc' # None /\ stageStart' = stageStart
    <3>1. exc' = exc /\ (Waits \/ UNCHANGED vars \/ Handle \/ Close)
      BY <2>5, ExcStays
    <3>2. CASE Waits \/ UNCHANGED vars
      BY <2>5, <3>2 DEF Waits, Tick, Escapes, BeginStage, RetryPrompt, NextTurn, CalledAfterwards,
                        Running, Closed, vars, control, stage
    <3>3. CASE Handle \/ Close
      BY <2>5, <3>1, <3>3 DEF Handle, Close, Goto, Closed, stage
    <3> QED
      BY <2>5, <3>1, <3>2, <3>3
  <2> QED
    BY <2>1, <2>2, <2>3, <2>4, <2>5 DEF KindInv
<1> QED
  BY <1>1, <1>2, Extending

-----------------------------------------------------------------------------
(* The evidence of a call.                                                 *)

(* A run keeps its adapter and its script, and no call is left to run that *)
(* was not, until there is a response.                                     *)
LEMMA FixedStays ==
  ASSUME [Next]_vars
  PROVE  /\ adapter' = adapter /\ followups' = followups
         /\ Respond \/ todo' \subseteq todo
<1> DEFINE G == adapter' = adapter /\ followups' = followups /\ todo' \subseteq todo
<1>1. ASSUME Respond PROVE adapter' = adapter /\ followups' = followups
  BY <1>1 DEF Respond, Fixed
<1>2. ASSUME Waits \/ UNCHANGED vars PROVE G
  BY <1>2 DEF Waits, Tick, Escapes, BeginStage, RetryPrompt, NextTurn, CalledAfterwards,
              Fixed, vars, control
<1>3. ASSUME Stops PROVE G
  BY <1>3, StopsEffect DEF Settled
<1>4. ASSUME AgentCalled PROVE G
  BY <1>4 DEF AgentCalled, AgentIsAnswered, AgentIsRefused, AgentCallRaises, Fixed
<1>5. ASSUME Start PROVE G
  BY <1>5 DEF Start, Fixed
<1>6. ASSUME Request PROVE G
  BY <1>6 DEF Request, Fixed
<1>7. ASSUME AgentReturns PROVE G
  BY <1>7 DEF AgentReturns, Fixed
<1>8. ASSUME Complete PROVE G
  BY <1>8 DEF Complete, Fixed
<1>9. ASSUME OutOfTurns PROVE G
  BY <1>9 DEF OutOfTurns, Fixed
<1>10. ASSUME Deliver PROVE G
  BY <1>10 DEF Deliver, Fixed
<1>11. ASSUME Answer PROVE G
  BY <1>11 DEF Answer, Fixed
<1>12. ASSUME AnswerRaises PROVE G
  BY <1>12 DEF AnswerRaises, Fixed
<1>13. ASSUME Handoff PROVE G
  BY <1>13 DEF Handoff, Fixed
<1>14. ASSUME StageReturns PROVE G
  BY <1>14 DEF StageReturns, Fixed
<1>15. ASSUME Handle PROVE G
  BY <1>15 DEF Handle, Fixed
<1>16. ASSUME Close PROVE G
  BY <1>16 DEF Close, Fixed
<1> QED
  BY <1>1, <1>2, <1>3, <1>4, <1>5, <1>6, <1>7, <1>8, <1>9, <1>10, <1>11, <1>12, <1>13, <1>14, <1>15, <1>16,
     StepsAre DEF Steps

(* The calls attempted in a step are undeclared ones, or one that is left  *)
(* to run.                                                                 *)
LEMMA NewAttempts ==
  ASSUME TypeOK, PhaseInv, [Next]_vars, adapter # "custom",
         NEW j \in New, events'[j].type = "tool_attempt"
  PROVE  \E c \in AllCalls :
           /\ events'[j] = Attempted(Latest("model_response"), CallAt(c), c)
           /\ \A i \in New : events'[i].type # "user_turn"
           /\ \/ KindOf(c) = "undeclared"
              \/ /\ KindOf(c) \in {"declared", "malformed"} /\ phase = "dispatch"
                 /\ c[1] = Len(responses) /\ c[2] \in todo
<1>1. ASSUME Mute PROVE FALSE
  BY <1>1 DEF Mute
<1>2. ~Waits /\ ~UNCHANGED vars
  BY <1>1, WaitsEffect, QuietStep
<1>3. ~Stops
  BY <1>1, StopsEffect, QuietStep DEF Settled
<1>4. ~Start /\ ~Request /\ ~AgentReturns /\ ~Complete /\ ~OutOfTurns /\ ~Deliver
  BY <1>1, SpeaksEffect DEF Start, Request, AgentReturns, Complete, OutOfTurns, Deliver
<1>5. ~Respond
  <2> SUFFICES ASSUME Respond PROVE FALSE
    OBVIOUS
  <2>1. PICK calls \in Calls, u \in Usages : Responded(calls, u)
    BY RespondEffect
  <2> QED
    BY <2>1 DEF Responded
<1>6. ~Handoff /\ ~Close
  BY <1>1, HandoffEffect, CloseEffect
<1>7. ~AgentCalled
  BY AgentCallEffect DEF PhaseInv
<1>8. CASE Answer \/ AnswerRaises
  <2>1. PICK i \in todo : /\ Kind(i) \in {"declared", "malformed"}
                          /\ Tries({This(i)}) /\ phase = "dispatch"
    BY <1>8, AnswerEffect, AnswerRaisesEffect DEF Answer, AnswerRaises
  <2>2. /\ events'[j] = Attempted(Latest("model_response"), CallAt(This(i)), This(i))
        /\ \A k \in New : events'[k].type # "user_turn"
    BY <2>1 DEF Tries
  <2> QED
    BY <2>1, <2>2, TodoCalls
<1>9. CASE StageReturns \/ Handle
  <2>1. PICK T : Tries(T) /\ T \subseteq {c \in AllCalls : KindOf(c) = "undeclared"}
    BY <1>9, StageReturnsEffect, HandleEffect DEF Rejected, Undeclared
  <2> QED
    BY <2>1 DEF Tries
<1> QED
  BY <1>2, <1>3, <1>4, <1>5, <1>6, <1>7, <1>8, <1>9, StepsAre DEF Steps

(* Handoffs are recorded by these two steps, and they record nothing else. *)
LEMMA NewHandoffs ==
  ASSUME TypeOK, PhaseInv, [Next]_vars, NEW j \in New
  PROVE  /\ events'[j].type = "handoff" => Handoff
         /\ events'[j].type = "ignored_handoff" => Close
<1>1. ASSUME Close PROVE events'[j].type = "ignored_handoff"
  <2>1. PICK c \in AllCalls : events'[j] = IgnoredEvent(c)
    BY <1>1, CloseEffect DEF Ignores
  <2> QED
    BY <2>1, IgnoredType
<1>2. ASSUME Handoff PROVE events'[j].type = "handoff"
  <2>1. PICK c : /\ New = {Len(events) + 1}
                 /\ events'[Len(events) + 1] =
                      Event("handoff", Latest("model_response"), CallAt(c), c, None)
    BY <1>2, HandoffEffect
  <2> QED
    BY <2>1 DEF Event
<1> DEFINE Neither == events'[j].type \notin {"handoff", "ignored_handoff"}
<1>3. ASSUME Waits \/ UNCHANGED vars PROVE FALSE
  BY <1>3, WaitsEffect, QuietStep
<1>4. ASSUME Stops PROVE FALSE
  BY <1>4, StopsEffect, QuietStep DEF Settled
<1>5. ASSUME Start \/ Request \/ AgentReturns \/ Complete \/ OutOfTurns \/ Deliver PROVE Neither
  BY <1>5, SpeaksEffect DEF Start, Request, AgentReturns, Complete, OutOfTurns, Deliver
<1>6. ASSUME Respond PROVE Neither
  <2>1. PICK calls \in Calls, u \in Usages : Responded(calls, u)
    BY <1>6, RespondEffect
  <2> QED
    BY <2>1 DEF Responded
<1>7. ASSUME AgentCalled PROVE Neither
  BY <1>7, AgentCallEffect
<1>8. ASSUME Answer \/ AnswerRaises PROVE Neither
  BY <1>8, AnswerEffect, AnswerRaisesEffect DEF Tries
<1>9. ASSUME StageReturns \/ Handle PROVE Neither
  BY <1>9, StageReturnsEffect, HandleEffect DEF Tries
<1> QED
  BY <1>1, <1>2, <1>3, <1>4, <1>5, <1>6, <1>7, <1>8, <1>9, StepsAre DEF Steps

LEMMA ToldStays ==
  ASSUME TypeOK, PhaseInv, [Next]_vars, NEW i \in DOMAIN events, Told(i),
         NEW c, c = events[i].made
  PROVE  /\ Told(i)' /\ events'[i] = events[i] /\ c \in AllCalls
         /\ KindOf(c)' = KindOf(c) /\ First(c)' = First(c)
         /\ c[1] \in DOMAIN responses /\ responses'[c[1]] = responses[c[1]]
<1>1. /\ c \in AllCalls /\ c[1] \in DOMAIN responses
      /\ events[i].tool = CallAt(c).tool /\ events[i].args = CallAt(c).args
  BY CallsOfRun DEF Told
<1>2. CASE Extends
  <2>1. events'[i] = events[i] /\ responses' = responses
    BY <1>2, Kept DEF Extends
  <2>2. c \in AllCalls' /\ CallAt(c)' = CallAt(c) /\ KindOf(c)' = KindOf(c) /\ First(c)' = First(c)
    BY <1>1, <2>1, SameCalls
  <2>3. Told(i)'
    BY <1>1, <2>1, <2>2 DEF Told, CallAt
  <2> QED
    BY <1>1, <2>1, <2>2, <2>3
<1>3. CASE Respond
  <2>1. PICK calls \in Calls, u \in Usages : Responded(calls, u)
    BY <1>3, RespondEffect
  <2>2. events'[i] = events[i]
    BY <2>1, Kept DEF Responded
  <2>3. /\ c \in AllCalls' /\ CallAt(c)' = CallAt(c) /\ KindOf(c)' = KindOf(c) /\ First(c)' = First(c)
        /\ responses'[c[1]] = responses[c[1]]
    <3>1. /\ c \in AllCalls' /\ CallAt(c)' = CallAt(c)
          /\ KindOf(c)' = KindOf(c) /\ First(c)' = First(c)
      BY <1>1, <2>1, RespondedCalls
    <3>2. responses'[c[1]] = responses[c[1]]
      BY <1>1, <2>1 DEF Responded
    <3> QED
      BY <3>1, <3>2
  <2>4. Told(i)'
    BY <1>1, <2>2, <2>3 DEF Told, CallAt
  <2> QED
    BY <1>1, <2>2, <2>3, <2>4
<1> QED
  BY <1>2, <1>3, Extending

LEMMA WithinStays ==
  ASSUME TypeOK, PhaseInv, [Next]_vars, NEW i \in DOMAIN events, NEW r \in DOMAIN responses,
         Within(i, r)
  PROVE  Within(i, r)'
<1>1. CASE Extends
  BY <1>1 DEF Extends, Within
<1>2. CASE Respond
  <2>1. PICK calls \in Calls, u \in Usages : Responded(calls, u)
    BY <1>2, RespondEffect
  <2> DEFINE n == Len(responses) + 1
  <2>2. /\ \A s \in DOMAIN responses : responses'[s] = responses[s]
        /\ \A s \in DOMAIN responses' : s \in DOMAIN responses \/ s = n
        /\ responses'[n].event = Len(events) + 1 /\ i < Len(events) + 1
    BY <2>1, RecordLength DEF Responded
  <2>3. responses'[r].event < i
    BY <2>2 DEF Within
  <2>4. ASSUME r + 1 \in DOMAIN responses' PROVE i < responses'[r + 1].event
    <3>1. CASE r + 1 \in DOMAIN responses
      BY <2>2, <3>1 DEF Within
    <3>2. CASE r + 1 = n
      BY <2>2, <3>2
    <3> QED
      BY <2>2, <2>4, <3>1, <3>2
  <2> QED
    BY <2>3, <2>4 DEF Within
<1> QED
  BY <1>1, <1>2, Extending

LEMMA StagedStays ==
  ASSUME TypeOK, PhaseInv, StageInv, [Next]_vars,
         NEW i \in DOMAIN events, NEW r \in DOMAIN responses, Staged(i, r)
  PROVE  Staged(i, r)'
<1>1. responses'[r] = responses[r] /\ Keeps
  <2>1. CASE Extends
    BY <2>1 DEF Extends
  <2>2. CASE Respond
    <3>1. PICK calls \in Calls, u \in Usages : Responded(calls, u)
      BY <2>2, RespondEffect
    <3> QED
      BY <3>1 DEF Responded
  <2> QED
    BY <2>1, <2>2, Extending
<1>2. followups' = followups
  BY FixedStays
<1>3. responses[r].stage \in Nat /\ responses[r].stage <= stages
  BY RecordLength DEF StageInv, ResponseType
<1>4. ASSUME NEW n \in 1..(followups + 1), NEW k \in Delivery(events, n)'
      PROVE  k < i <=> n <= responses[r].stage
  <2>1. CASE k \in Delivery(events, n)
    <3>1. k \in DOMAIN events
      BY <2>1 DEF Delivery
    <3> QED
      BY <2>1, <3>1 DEF Staged
  <2>2. CASE k \in New
    <3>1. events'[k].type = "user_turn"
      BY DEF Delivery
    <3>2. ~(k < i)
      BY <1>1, <2>2, Kept
    <3>3. ~Respond
      <4> SUFFICES ASSUME Respond PROVE FALSE
        OBVIOUS
      <4>1. PICK calls \in Calls, u \in Usages : Responded(calls, u)
        BY RespondEffect
      <4> QED
        BY <2>2, <3>1, <4>1 DEF Responded
    <3>4. ~StageStays
      BY <2>2, <3>1 DEF StageStays
    <3>5. ~BeginStage
      <4> SUFFICES ASSUME BeginStage PROVE FALSE
        OBVIOUS
      <4>1. New = {}
        BY QuietStep DEF BeginStage
      <4> QED
        BY <2>2, <4>1
    <3>6. CASE Start \/ Deliver
      <4>1. Log(<<Plain("user_turn")>>) /\ phase \in {"prepared", "staged"}
        BY <3>6 DEF Start, Deliver
      <4>2. /\ Keeps /\ New = {Len(events) + 1} /\ Len(events) + 1 \in DOMAIN events'
            /\ events'[Len(events) + 1].type = "user_turn"
        BY <4>1, SpeaksEffect
      <4>3. n = Turns + 1
        BY <2>2, <4>2, TurnsGrow
      <4>4. stages = Turns
        BY <4>1 DEF StageInv, Turns
      <4>5. stages \in Nat
        BY AdapterAssumption DEF TypeOK
      <4> QED
        BY <1>3, <3>2, <4>3, <4>4, <4>5
    <3> QED
      BY <3>3, <3>4, <3>5, <3>6, StageMoves
  <2> QED
    BY <1>1, <2>1, <2>2, KeptDeliveries
<1> QED
  BY <1>1, <1>2, <1>4 DEF Staged

LEMMA AttemptStep ==
  ASSUME TypeOK, PhaseInv, StageInv, ResponseInv, KindInv, AttemptInv, [Next]_vars
  PROVE  AttemptInv'
<1> SUFFICES ASSUME adapter # "custom", NEW i \in Attempts(events)'
             PROVE  Tried(i)'
  BY FixedStays DEF AttemptInv
<1>1. Keeps
  <2>1. CASE Respond
    <3>1. PICK calls \in Calls, u \in Usages : Responded(calls, u)
      BY <2>1, RespondEffect
    <3> QED
      BY <3>1 DEF Responded
  <2> QED
    BY <2>1, Extending DEF Extends
<1>2. CASE i \in Attempts(events)
  <2>0. PICK c : c = events[i].made
    OBVIOUS
  <2>1. i \in DOMAIN events /\ Tried(i)
    BY <1>2 DEF Attempts, AttemptInv
  <2>2. /\ Told(i)' /\ events'[i] = events[i] /\ KindOf(c)' = KindOf(c)
        /\ c[1] \in DOMAIN responses /\ responses'[c[1]] = responses[c[1]]
    BY <2>0, <2>1, ToldStays DEF Tried
  <2>3. Within(i, c[1]) => Within(i, c[1])'
    BY <2>1, <2>2, WithinStays
  <2>4. Staged(i, c[1]) => Staged(i, c[1])'
    BY <2>1, <2>2, StagedStays
  <2> QED
    BY <2>0, <2>1, <2>2, <2>3, <2>4, FixedStays DEF Tried, Placed
<1>3. CASE i \in New /\ events'[i].type = "tool_attempt"
  <2>1. PICK c \in AllCalls :
          /\ events'[i] = Attempted(Latest("model_response"), CallAt(c), c)
          /\ \A k \in New : events'[k].type # "user_turn"
          /\ \/ KindOf(c) = "undeclared"
             \/ /\ KindOf(c) \in {"declared", "malformed"} /\ phase = "dispatch"
                /\ c[1] = Len(responses) /\ c[2] \in todo
    BY <1>3, NewAttempts
  <2>2. ~Respond
    <3> SUFFICES ASSUME Respond PROVE FALSE
      OBVIOUS
    <3>1. PICK calls \in Calls, u \in Usages : Responded(calls, u)
      BY RespondEffect
    <3> QED
      BY <1>3, <3>1 DEF Responded
  <2>3. responses' = responses
    BY <2>2, Extending DEF Extends
  <2>4. /\ c \in Pairs /\ CallAt(c) \in CallType /\ Latest("model_response") \in Nat
        /\ c[1] \in DOMAIN responses
    BY CallsOfRun, LatestEvent, RecordLength
  <2>5. /\ events'[i].made = c /\ events'[i].of = Latest("model_response")
        /\ events'[i].tool = CallAt(c).tool /\ events'[i].args = CallAt(c).args
    BY <2>1, <2>4, AttemptType
  <2>6. c \in AllCalls' /\ CallAt(c)' = CallAt(c) /\ KindOf(c)' = KindOf(c)
    BY <2>3, SameCalls
  <2>7. Told(i)' /\ KindOf(c)' # "handoff"
    <3>1. KindOf(c)' # "handoff"
      BY <2>1, <2>6
    <3>2. Told(i)'
      BY <2>5, <2>6 DEF Told, CallAt
    <3> QED
      BY <3>1, <3>2
  <2>8. ASSUME Placed(c)
        PROVE  events'[i].of = responses'[c[1]].event /\ Within(i, c[1])' /\ Staged(i, c[1])'
    <3>0. PICK r, e : r = Len(responses) /\ e = responses[r].event
      OBVIOUS
    <3>1. /\ c[1] = r /\ phase \notin {"prepared", "stage"} /\ responses # <<>> /\ r > stageStart
          /\ \A k \in New : events'[k].type # "user_turn"
      <4>1. CASE KindOf(c) # "undeclared"
        BY <2>1, <3>0, <4>1, RecordLength DEF PhaseInv, StageInv
      <4>2. CASE KindOf(c) = "undeclared"
        BY <2>1, <2>4, <2>8, <3>0, <4>2 DEF Placed, KindInv, Closed
      <4> QED
        BY <4>1, <4>2
    <3>2. r \in DOMAIN responses /\ Latest("model_response") = e
      BY <3>0, <3>1, ResponseEvent
    <3>3. e \in 1..Len(events) /\ r + 1 \notin DOMAIN responses /\ responses[r].stage = stages
      BY <3>0, <3>1, <3>2, RecordLength DEF ResponseInv, EventsOf, StageInv
    <3>4. Within(i, r)'
      <4>1. responses'[r].event < i /\ r + 1 \notin DOMAIN responses'
        BY <1>1, <1>3, <2>3, <3>0, <3>3, Kept
      <4> QED
        BY <4>1 DEF Within
    <3>5. stages = Turns
      BY <3>1 DEF StageInv, Turns
    <3>6. ASSUME NEW n \in 1..(followups + 1), NEW k \in Delivery(events, n)'
          PROVE  k < i <=> n <= responses'[r].stage
      <4>1. k \in Delivery(events, n)
        BY <1>1, <3>1, TurnsStay
      <4>2. n \in Nat /\ n <= Turns /\ k \in DOMAIN events
        BY <4>1, DeliveredTurns
      <4>3. k < i
        BY <1>1, <1>3, <4>2, Kept
      <4> QED
        BY <2>3, <3>3, <3>5, <4>2, <4>3
    <3>7. Staged(i, r)'
      BY <3>6, FixedStays DEF Staged
    <3> QED
      BY <2>3, <2>5, <3>0, <3>1, <3>2, <3>4, <3>7
  <2> QED
    BY <2>5, <2>6, <2>7, <2>8, FixedStays DEF Tried, Placed
<1> QED
  BY <1>1, <1>2, <1>3, KeptAttempts

(* A call stays what it is.                                                *)
LEMMA CallsStay ==
  ASSUME TypeOK, PhaseInv, [Next]_vars, NEW c \in AllCalls
  PROVE  /\ c \in AllCalls' /\ CallAt(c)' = CallAt(c) /\ KindOf(c)' = KindOf(c)
         /\ First(c)' = First(c)
<1>1. CASE Extends
  BY <1>1, SameCalls DEF Extends
<1>2. CASE Respond
  <2>1. PICK calls \in Calls, u \in Usages : Responded(calls, u)
    BY <1>2, RespondEffect
  <2> QED
    BY <2>1, RespondedCalls
<1> QED
  BY <1>1, <1>2, Extending

(* A call that is new is of a response that is new.                        *)
LEMMA NewCalls ==
  ASSUME TypeOK, PhaseInv, [Next]_vars, NEW c \in AllCalls', c \notin AllCalls
  PROVE  c[1] \notin DOMAIN responses
<1>1. ~Extends
  BY SameCalls DEF Extends
<1>2. PICK calls \in Calls, u \in Usages : Responded(calls, u)
  BY <1>1, Extending, RespondEffect
<1> QED
  BY <1>2, RespondedCalls, RecordLength

(* Every step keeps the record.                                            *)
LEMMA StepKeeps ==
  ASSUME TypeOK, PhaseInv, [Next]_vars
  PROVE  Keeps
<1>1. CASE Respond
  <2>1. PICK calls \in Calls, u \in Usages : Responded(calls, u)
    BY <1>1, RespondEffect
  <2> QED
    BY <2>1 DEF Responded
<1> QED
  BY <1>1, Extending DEF Extends

LEMMA HandoffStep ==
  ASSUME TypeOK, PhaseInv, ResponseInv, KindInv, AttemptInv, HandoffInv, [Next]_vars
  PROVE  HandoffInv'
<1>1. Keeps
  BY StepKeeps
<1> SUFFICES ASSUME NEW h \in EventsOf("handoff")', NEW c, c = events'[h].made
             PROVE  /\ Told(h)' /\ KindOf(c)' = "handoff" /\ First(c)' /\ Within(h, c[1])'
                    /\ c[1] = Len(responses') => todo' = {}
                    /\ \A d \in AllCalls' : d[1] = c[1] => KindOf(d)' # "undeclared"
                    /\ \A i \in Attempts(events)' : events'[i].made[1] = c[1] => i < h
  BY DEF HandoffInv
<1>2. CASE h \in EventsOf("handoff")
  <2>1. h \in DOMAIN events /\ events'[h] = events[h] /\ c = events[h].made
    BY <1>1, <1>2, Kept DEF EventsOf
  <2>2. /\ Told(h) /\ KindOf(c) = "handoff" /\ First(c) /\ Within(h, c[1])
        /\ c[1] = Len(responses) => todo = {}
        /\ \A d \in AllCalls : d[1] = c[1] => KindOf(d) # "undeclared"
        /\ \A i \in Attempts(events) : events[i].made[1] = c[1] => i < h
    BY <1>2, <2>1 DEF HandoffInv
  <2>3. /\ Told(h)' /\ KindOf(c)' = "handoff" /\ First(c)'
        /\ c \in AllCalls /\ c[1] \in DOMAIN responses
    BY <2>1, <2>2, ToldStays
  <2>4. Within(h, c[1])'
    BY <2>1, <2>2, <2>3, WithinStays
  <2>5. ASSUME c[1] = Len(responses') PROVE todo' = {}
    <3>1. ~Respond
      <4> SUFFICES ASSUME Respond PROVE FALSE
        OBVIOUS
      <4>1. PICK calls \in Calls, u \in Usages : Responded(calls, u)
        BY RespondEffect
      <4> QED
        BY <2>3, <2>5, <4>1, RespondedCalls
    <3>2. responses' = responses
      BY <3>1, Extending DEF Extends
    <3> QED
      BY <2>2, <2>5, <3>1, <3>2, FixedStays
  <2>6. adapter # "custom"
    BY <2>3 DEF PhaseInv
  <2>7. ASSUME NEW i \in Attempts(events)', NEW d, d = events'[i].made,
               d[1] = c[1]
        PROVE  i < h
    <3>1. CASE i \in Attempts(events)
      <4>1. i \in DOMAIN events /\ events'[i] = events[i] /\ Told(i) /\ d = events[i].made
        BY <1>1, <2>6, <2>7, <3>1, Kept DEF Attempts, AttemptInv, Tried
      <4> QED
        BY <2>2, <2>7, <3>1, <4>1
    <3>2. CASE i \in New /\ events'[i].type = "tool_attempt"
      <4>1. PICK e \in AllCalls :
              /\ events'[i] = Attempted(Latest("model_response"), CallAt(e), e)
              /\ KindOf(e) # "undeclared" => e[1] = Len(responses) /\ e[2] \in todo
        BY <2>6, <3>2, NewAttempts
      <4>2. e \in Pairs /\ CallAt(e) \in CallType /\ Latest("model_response") \in Nat
        BY CallsOfRun, LatestEvent, RecordLength
      <4>3. e = d
        BY <2>7, <4>1, <4>2, AttemptType
      <4>4. KindOf(d) # "undeclared"
        BY <2>2, <2>7, <4>3
      <4> QED
        BY <2>2, <2>7, <4>1, <4>3, <4>4
    <3> QED
      BY <1>1, <3>1, <3>2, KeptAttempts
  <2>8. ASSUME NEW d \in AllCalls', d[1] = c[1] PROVE KindOf(d)' # "undeclared"
    <3>1. CASE d \in AllCalls
      BY <2>2, <2>8, <3>1, CallsStay
    <3>2. CASE d \notin AllCalls
      BY <2>3, <2>8, <3>2, NewCalls
    <3> QED
      BY <3>1, <3>2
  <2> QED
    BY <2>3, <2>4, <2>5, <2>7, <2>8
<1>3. CASE h \in New /\ events'[h].type = "handoff"
  <2>1. Handoff /\ responses' = responses /\ todo' = {}
    BY <1>3, NewHandoffs DEF Handoff
  <2>2. PICK d \in AllCalls :
          /\ responses # <<>> /\ First(d) /\ d[1] = Len(responses) /\ KindOf(d) = "handoff"
          /\ Mute /\ New = {Len(events) + 1}
          /\ events'[Len(events) + 1] =
               Event("handoff", Latest("model_response"), CallAt(d), d, None)
    BY <2>1, HandoffEffect
  <2>3. /\ h = Len(events) + 1 /\ c = d
        /\ events'[h].tool = CallAt(d).tool /\ events'[h].args = CallAt(d).args
    BY <1>3, <2>2 DEF Event
  <2>4. c \in AllCalls' /\ CallAt(c)' = CallAt(c) /\ KindOf(c)' = "handoff" /\ First(c)'
    BY <2>2, <2>3, CallsStay, SMTT(60)
  <2>5. Told(h)'
    BY <2>3, <2>4 DEF Told, CallAt
  <2>6. Within(h, c[1])'
    <3>1. Len(responses) \in DOMAIN responses /\ Len(responses) + 1 \notin DOMAIN responses
      BY <2>2, RecordLength, ResponseEvent
    <3>2. responses[Len(responses)].event \in DOMAIN events
      BY <3>1 DEF ResponseInv, EventsOf
    <3> QED
      BY <2>1, <2>2, <2>3, <3>1, <3>2, RecordLength DEF Within
  <2>7. \A i \in Attempts(events)' : i < h
    <3>1. Attempts(events)' = Attempts(events)
      BY <1>1, <2>2, KeptAttempts DEF Mute
    <3> QED
      BY <2>3, <3>1, RecordLength DEF Attempts
  <2>8. ASSUME NEW d1 \in AllCalls' PROVE KindOf(d1)' # "undeclared"
    <3>1. d1 \in AllCalls /\ KindOf(d1)' = KindOf(d1)
      BY <2>1, SameCalls
    <3>2. adapter = "openai"
      BY <2>2, AdapterAssumption DEF TypeOK, AdapterNames, PhaseInv, KindInv
    <3> QED
      BY <2>1, <3>1, <3>2 DEF KindInv, Handoff, Closed
  <2> QED
    BY <2>1, <2>4, <2>5, <2>6, <2>7, <2>8
<1> QED
  BY <1>1, <1>2, <1>3, KeptOf

LEMMA EndedStays ==
  ASSUME [Next]_vars, phase \in {"ended", "escaped"}
  PROVE  UNCHANGED vars
<1>1. ~Stops
  BY StopsEffect DEF Running
<1>2. ~Start /\ ~Request /\ ~AgentReturns /\ ~Complete /\ ~OutOfTurns /\ ~Deliver
  BY DEF Start, Request, AgentReturns, Complete, OutOfTurns, Deliver
<1>3. ~Respond /\ ~Answer /\ ~AnswerRaises /\ ~Handoff /\ ~StageReturns /\ ~Handle /\ ~Close
  BY DEF Respond, Answer, AnswerRaises, Handoff, StageReturns, Handle, Close
<1>4. ~AgentCalled
  BY DEF AgentCalled, AgentIsAnswered, AgentIsRefused, AgentCallRaises
<1>5. Waits => UNCHANGED vars
  BY DEF Waits, Tick, Escapes, BeginStage, RetryPrompt, NextTurn, CalledAfterwards, Running
<1> QED
  BY <1>1, <1>2, <1>3, <1>4, <1>5, StepsAre DEF Steps

LEMMA IgnoredStep ==
  ASSUME TypeOK, PhaseInv, IgnoredInv, [Next]_vars
  PROVE  IgnoredInv'
<1>1. Keeps
  BY StepKeeps
<1> SUFFICES ASSUME NEW h \in EventsOf("ignored_handoff")', NEW c, c = events'[h].made
             PROVE  /\ phase' = "ended" /\ Told(h)' /\ KindOf(c)' = "handoff" /\ ~First(c)'
  BY DEF IgnoredInv
<1>2. CASE h \in EventsOf("ignored_handoff")
  <2>1. h \in DOMAIN events /\ events'[h] = events[h] /\ c = events[h].made
    BY <1>1, <1>2, Kept DEF EventsOf
  <2>2. phase = "ended" /\ Told(h) /\ KindOf(c) = "handoff" /\ ~First(c)
    BY <1>2, <2>1 DEF IgnoredInv
  <2>3. Told(h)' /\ KindOf(c)' = KindOf(c) /\ First(c)' = First(c)
    BY <2>1, <2>2, ToldStays
  <2>4. phase' = "ended"
    BY <2>2, EndedStays DEF vars, control
  <2> QED
    BY <2>2, <2>3, <2>4
<1>3. CASE h \in New /\ events'[h].type = "ignored_handoff"
  <2>1. Close
    BY <1>3, NewHandoffs
  <2>2. PICK d \in AllCalls : /\ events'[h] = IgnoredEvent(d)
                              /\ KindOf(d) = "handoff" /\ ~First(d)
    BY <1>3, <2>1, CloseEffect DEF Ignores
  <2>3. c = d /\ events'[h].tool = CallAt(d).tool /\ events'[h].args = CallAt(d).args
    BY <2>2, IgnoredType
  <2>4. c \in AllCalls' /\ CallAt(c)' = CallAt(c) /\ KindOf(c)' = "handoff" /\ ~First(c)'
    BY <2>2, <2>3, CallsStay
  <2>5. Told(h)'
    BY <2>3, <2>4 DEF Told, CallAt
  <2> QED
    BY <2>1, <2>4, <2>5 DEF Close, Goto
<1> QED
  BY <1>1, <1>2, <1>3, KeptOf

-----------------------------------------------------------------------------
(* Every call gets the evidence it is due, when it is due.                 *)

NewWitness(c) ==
  {i \in New : /\ events'[i].made = c
               /\ events'[i].type \in {"tool_attempt", "handoff", "ignored_handoff"}}
Settles(c) ==
  \/ (Due(c)' <=> Due(c)) /\ NewWitness(c) = {}
  \/ ~Due(c) /\ Due(c)' /\ \E i \in New : NewWitness(c) = {i}

LEMMA EvidenceStep ==
  ASSUME TypeOK, Keeps, NEW c, Evidenced(c), Settles(c)
  PROVE  Evidenced(c)'
<1>1. Witness(c)' = Witness(c) \cup NewWitness(c)
  BY KeptWitnesses DEF NewWitness
<1>2. \A i : i \in DOMAIN events \/ i \in New => i \in DOMAIN events'
  BY Kept
<1> QED
  BY <1>1, <1>2 DEF Evidenced, Settles

LEMMA TriesWitness ==
  ASSUME TypeOK, NEW T \in SUBSET AllCalls, Tries(T), NEW c
  PROVE  /\ c \in T => \E i \in New : NewWitness(c) = {i}
         /\ c \notin T => NewWitness(c) = {}
<1>1. \A i \in New : i \in NewWitness(c) => \E d \in T : events'[i] = Attempted(Latest("model_response"), CallAt(d), d)
  BY DEF Tries, NewWitness
<1>2. \A d \in T : Attempted(Latest("model_response"), CallAt(d), d).made = d
  BY DEF Attempted, Event
<1>3. c \notin T => NewWitness(c) = {}
  BY <1>1, <1>2 DEF NewWitness
<1>4. ASSUME c \in T PROVE \E i \in New : NewWitness(c) = {i}
  <2>1. PICK i \in New :
          /\ events'[i].type = "tool_attempt" /\ events'[i].made = c
          /\ \A j \in New : events'[j].type = "tool_attempt" /\ events'[j].made = c => j = i
    BY <1>4 DEF Tries
  <2>2. \A j \in New : events'[j].type \in {"tool_attempt", "handoff", "ignored_handoff"}
                         => events'[j].type = "tool_attempt"
    BY DEF Tries
  <2> QED
    BY <2>1, <2>2 DEF NewWitness
<1> QED
  BY <1>3, <1>4

(* A step that records nothing about a call.                               *)
LEMMA NothingWitness ==
  ASSUME TypeOK, NEW c, \A i \in New : events'[i].type \notin {"tool_attempt", "handoff", "ignored_handoff"}
  PROVE  NewWitness(c) = {}
BY DEF NewWitness

(* Whether a call is due, from the variables it depends on.                *)
LEMMA DueStays ==
  ASSUME responses' = responses, adapter' = adapter, NEW c,
         KindOf(c) # "undeclared" => (Open(c)' <=> Open(c)) /\ (phase = "ended" <=> phase' = "ended"),
         KindOf(c) = "undeclared" =>
           (Searched \/ (adapter = "pydantic" /\ c[1] <= stageStart) <=>
              (Searched' \/ (adapter = "pydantic" /\ c[1] <= stageStart')))
  PROVE  Due(c)' <=> Due(c)
<1>1. KindOf(c)' = KindOf(c) /\ First(c)' = First(c)
  BY SameCalls
<1> QED
  BY <1>1 DEF Due

(* Calls are made of no custom agent, and by the responses there are.      *)
LEMMA CallFacts ==
  ASSUME TypeOK, PhaseInv, NEW c \in AllCalls
  PROVE  /\ adapter \in {"openai", "pydantic"} /\ responses # <<>> /\ phase \notin {"prepared", "agent"}
         /\ c = <<c[1], c[2]>> /\ c[1] \in 1..Len(responses) /\ c[2] \in Nat
         /\ Len(responses) \in Nat /\ stageStart \in Nat /\ stageStart <= Len(responses)
         /\ KindOf(c) \in CallKinds
<1>1. c \in Pairs /\ c[1] \in DOMAIN responses /\ KindOf(c) \in CallKinds
  BY CallsOfRun
<1>2. c = <<c[1], c[2]>> /\ c[2] \in Nat
  BY <1>1 DEF Pairs
<1>3. /\ DOMAIN responses = 1..Len(responses) /\ Len(responses) \in Nat
      /\ stageStart \in 0..Len(responses)
  BY RecordLength DEF TypeOK
<1>4. responses # <<>>
  BY <1>1, <1>3
<1>5. adapter \in AdapterNames
  BY AdapterAssumption DEF TypeOK
<1> QED
  BY <1>1, <1>2, <1>3, <1>4, <1>5 DEF PhaseInv, AdapterNames

LEMMA WaitsSettle ==
  ASSUME TypeOK, PhaseInv, NEW c \in AllCalls, Waits \/ UNCHANGED vars
  PROVE  Settles(c)
<1>1. NewWitness(c) = {}
  <2>1. New = {}
    BY WaitsEffect, QuietStep
  <2> QED
    BY <2>1 DEF NewWitness
<1>2. /\ responses' = responses /\ adapter' = adapter /\ exc' = exc
      /\ termination' = termination /\ output' = output
  BY WaitsEffect
<1>3. Due(c)' <=> Due(c)
  <2>1. CASE Tick \/ CalledAfterwards \/ UNCHANGED vars
    <3>1. phase' = phase /\ todo' = todo /\ stageStart' = stageStart
      BY <2>1 DEF Tick, CalledAfterwards, vars, control, stage
    <3> QED
      BY <1>2, <3>1, DueStays DEF Open, Searched
  <2>2. CASE Escapes
    <3>1. phase \in Running /\ phase' = "escaped" /\ todo' = todo /\ stageStart' = stageStart
      BY <2>2 DEF Escapes, stage
    <3> QED
      BY <1>2, <3>1, DueStays DEF Open, Searched, Running, Closed
  <2>3. CASE NextTurn
    <3>1. phase = "dispatch" /\ phase' = "turn" /\ todo' = todo /\ stageStart' = stageStart
      BY <2>3 DEF NextTurn, Goto, stage
    <3> QED
      BY <1>2, <3>1, DueStays DEF Open, Searched, Closed
  <2>4. CASE BeginStage
    <3>1. /\ phase = "stage" /\ phase' \in {"turn", "agent"} /\ todo' = todo
          /\ stageStart' = Len(responses)
      BY <2>4 DEF BeginStage, Goto
    <3>2. c[1] <= stageStart'
      BY <3>1, CallFacts
    <3>3. adapter \in {"openai", "pydantic"}
      BY CallFacts
    <3>4. Open(c)' <=> Open(c)
      BY <1>2, <3>1 DEF Open
    <3>5. adapter = "openai" => (Searched' <=> Searched)
      BY <1>2 DEF Searched
    <3>6. adapter = "pydantic" => Searched
      BY <3>1 DEF Searched
    <3> QED
      BY <1>2, <3>1, <3>2, <3>3, <3>4, <3>5, <3>6, DueStays
  <2>5. CASE RetryPrompt
    <3>1. PICK i \in todo : Kind(i) \in {"malformed", "undeclared"} /\ todo' = todo \ {i}
      BY <2>5 DEF RetryPrompt
    <3>2. phase' = phase /\ stageStart' = stageStart /\ adapter = "pydantic"
      BY <2>5 DEF RetryPrompt, stage
    <3>3. CASE c # This(i)
      <4>1. Open(c)' <=> Open(c)
        BY <1>2, <3>1, <3>3, CallFacts DEF Open, This
      <4>2. Searched' <=> Searched
        BY <1>2, <3>2 DEF Searched
      <4> QED
        BY <1>2, <3>2, <4>1, <4>2, DueStays
    <3>4. CASE c = This(i)
      <4>1. KindOf(c) \in {"malformed", "undeclared"}
        BY <3>1, <3>4 DEF Kind, KindOf
      <4>2. Searched' <=> Searched
        BY <1>2, <3>2 DEF Searched
      <4>3. KindOf(c)' = KindOf(c)
        BY <1>2, SameCalls
      <4> QED
        BY <1>2, <3>2, <4>1, <4>2, <4>3 DEF Due
    <3> QED
      BY <3>3, <3>4
  <2> QED
    BY <2>1, <2>2, <2>3, <2>4, <2>5 DEF Waits
<1> QED
  BY <1>1, <1>3 DEF Settles

LEMMA StopsSettle ==
  ASSUME TypeOK, PhaseInv, NEW c \in AllCalls, Stops
  PROVE  Settles(c)
<1>1. /\ phase \in Running /\ phase' = "raised" /\ responses' = responses /\ adapter' = adapter
      /\ events' = events /\ todo' = todo /\ stageStart' = stageStart
      /\ termination' = termination /\ output' = output
  BY StopsEffect DEF Settled
<1>2. NewWitness(c) = {}
  BY <1>1, QuietStep DEF NewWitness
<1>3. Due(c)' <=> Due(c)
  BY <1>1, DueStays DEF Open, Searched, Running, Closed
<1> QED
  BY <1>2, <1>3 DEF Settles

LEMMA SpeaksSettle ==
  ASSUME TypeOK, PhaseInv, NEW c \in AllCalls,
         Start \/ Request \/ AgentReturns \/ Complete \/ OutOfTurns \/ Deliver
  PROVE  Settles(c)
<1>1. NewWitness(c) = {}
  <2>1. PICK type \in {"user_turn", "model_request", "assistant_output", "final_output", "error"} :
          Log(<<Plain(type)>>)
    BY DEF Start, Request, AgentReturns, Complete, OutOfTurns, Deliver
  <2>2. New = {Len(events) + 1} /\ events'[Len(events) + 1].type = type
    BY <2>1, SpeaksEffect
  <2> QED
    BY <2>2, NothingWitness
<1>2. /\ responses' = responses /\ adapter' = adapter /\ todo' = todo /\ stageStart' = stageStart
  BY DEF Start, Request, AgentReturns, Complete, OutOfTurns, Deliver, Fixed, stage
<1>3. Open(c)' <=> Open(c)
  BY <1>2 DEF Open
<1>4. /\ phase \notin {"prepared", "agent"} /\ adapter \in {"openai", "pydantic"}
  BY CallFacts
<1>5. CASE Request
  <2>1. /\ phase = "turn" /\ phase' \in {"requested", "raised"}
        /\ termination' = termination /\ output' = output
    BY <1>5 DEF Request, Raise, Goto, result
  <2>2. Searched' <=> Searched
    BY <1>2, <2>1 DEF Searched, Closed
  <2> QED
    BY <1>1, <1>2, <1>3, <2>1, <2>2, DueStays DEF Settles
<1>6. CASE Complete
  <2>1. /\ phase = "staged" /\ phase' = "closing" /\ exc' = exc /\ exc = None
        /\ output' = TRUE /\ ~output /\ termination # "completed"
    BY <1>6 DEF Complete, Goto, PhaseInv, Closed, None
  <2>2. Searched' <=> Searched
    BY <1>2, <2>1 DEF Searched, Closed
  <2> QED
    BY <1>1, <1>2, <1>3, <2>1, <2>2, DueStays DEF Settles
<1>7. CASE OutOfTurns
  <2>1. /\ phase = "staged" /\ phase' = "closing" /\ exc' = exc /\ exc = None
        /\ termination' = "max_model_turns" /\ termination # "completed"
    BY <1>7 DEF OutOfTurns, Goto, PhaseInv, Closed, None
  <2>2. Searched' <=> Searched
    BY <1>2, <2>1 DEF Searched, Closed
  <2> QED
    BY <1>1, <1>2, <1>3, <2>1, <2>2, DueStays DEF Settles
<1>8. CASE Deliver
  <2>1. /\ phase = "staged" /\ phase' = "stage"
        /\ termination' = termination /\ output' = output
    BY <1>8 DEF Deliver, Goto, result
  <2>2. Searched' <=> Searched
    BY <1>2, <2>1 DEF Searched, Closed
  <2> QED
    BY <1>1, <1>2, <1>3, <2>1, <2>2, DueStays DEF Settles
<1>9. ~Start /\ ~AgentReturns
  BY <1>4 DEF Start, AgentReturns
<1> QED
  BY <1>1, <1>5, <1>6, <1>7, <1>8, <1>9 DEF Settles

LEMMA AnswerSettles ==
  ASSUME TypeOK, PhaseInv, NEW c \in AllCalls, Answer
  PROVE  Settles(c)
<1>1. PICK i \in todo :
        /\ Kind(i) = "declared" \/ (Kind(i) = "malformed" /\ adapter = "openai")
        /\ Tries({This(i)}) /\ todo' = todo \ {i}
  BY AnswerEffect
<1>2. This(i) \in AllCalls /\ Kind(i) = KindOf(This(i))
  BY TodoCalls
<1>3. /\ responses' = responses /\ adapter' = adapter /\ phase' = phase /\ exc' = exc
      /\ stageStart' = stageStart /\ termination' = termination /\ output' = output
  BY DEF Answer, Fixed, stage, result
<1>4. Searched' <=> Searched
  BY <1>3 DEF Searched
<1>5. /\ c \in {This(i)} => \E j \in New : NewWitness(c) = {j}
      /\ c \notin {This(i)} => NewWitness(c) = {}
  BY <1>1, <1>2, TriesWitness
<1>6. CASE c = This(i)
  <2>1. Open(c) /\ ~Open(c)'
    BY <1>1, <1>6 DEF Open, This
  <2>2. KindOf(c) = "declared" \/ (KindOf(c) = "malformed" /\ adapter = "openai")
    BY <1>1, <1>2, <1>6
  <2>3. KindOf(c)' = KindOf(c)
    BY <1>3, SameCalls
  <2>4. ~Due(c) /\ Due(c)'
    BY <1>3, <2>1, <2>2, <2>3 DEF Due
  <2> QED
    BY <1>5, <1>6, <2>4 DEF Settles
<1>7. CASE c # This(i)
  <2>1. Open(c)' <=> Open(c)
    BY <1>1, <1>3, <1>7, CallFacts DEF Open, This
  <2>2. Due(c)' <=> Due(c)
    BY <1>3, <1>4, <2>1, DueStays
  <2> QED
    BY <1>5, <1>7, <2>2 DEF Settles
<1> QED
  BY <1>6, <1>7

LEMMA HandoffSettles ==
  ASSUME TypeOK, PhaseInv, KindInv, NEW c \in AllCalls, Handoff
  PROVE  Settles(c)
<1>1. PICK d \in Handoffs(Len(responses)) :
        /\ First(d) /\ d \in AllCalls /\ d[1] = Len(responses) /\ KindOf(d) = "handoff"
        /\ New = {Len(events) + 1}
        /\ events'[Len(events) + 1] =
             Event("handoff", Latest("model_response"), CallAt(d), d, None)
  BY HandoffEffect
<1>2. /\ responses' = responses /\ adapter' = adapter /\ phase' = phase /\ exc' = exc
      /\ stageStart' = stageStart /\ termination' = termination /\ output' = output
      /\ todo' = {} /\ phase = "dispatch" /\ todo # {}
      /\ \A i \in todo : Kind(i) = "handoff"
  BY DEF Handoff, Fixed, stage, result
<1>3. Searched' <=> Searched
  BY <1>2 DEF Searched
<1>4. NewWitness(c) = IF c = d THEN {Len(events) + 1} ELSE {}
  BY <1>1 DEF NewWitness, Event
<1>5. ~Open(c)'
  BY <1>2 DEF Open
<1>6. CASE c = d
  <2>1. Open(c)
    BY <1>1, <1>2, <1>6 DEF KindInv, Open
  <2>2. KindOf(c)' = "handoff" /\ First(c)'
    BY <1>1, <1>2, <1>6, SameCalls
  <2> QED
    BY <1>1, <1>4, <1>5, <1>6, <2>1, <2>2 DEF Settles, Due
<1>7. CASE c # d /\ (KindOf(c) = "handoff" => ~First(c))
  <2>1. KindOf(c) # "handoff" => ~Open(c)
    <3> SUFFICES ASSUME Open(c) PROVE KindOf(c) = "handoff"
      OBVIOUS
    <3>1. c = This(c[2]) /\ c[2] \in todo
      BY CallFacts DEF Open, This
    <3> QED
      BY <1>2, <3>1 DEF Kind, KindOf
  <2>2. KindOf(c)' = KindOf(c) /\ First(c)' = First(c)
    BY <1>2, SameCalls
  <2> QED
    BY <1>2, <1>3, <1>4, <1>5, <1>7, <2>1, <2>2 DEF Settles, Due
<1>8. CASE c # d /\ KindOf(c) = "handoff" /\ First(c)
  <2>1. ~Open(c)
    <3> SUFFICES ASSUME c[1] = Len(responses) PROVE FALSE
      BY DEF Open
    <3>1. c \in Handoffs(Len(responses))
      <4>1. c \in Of(Len(responses))
        BY CallsOfRun, CallFacts DEF Of
      <4> QED
        BY <1>8, <4>1 DEF Handoffs
    <3>2. c[2] <= d[2] /\ d[2] <= c[2]
      BY <1>1, <1>8, <3>1 DEF First
    <3>3. /\ c = <<c[1], c[2]>> /\ c[2] \in Nat
      BY CallFacts
    <3>4. d = <<d[1], d[2]>> /\ d[2] \in Nat
      BY <1>1, CallFacts
    <3> QED
      BY <1>1, <1>8, <3>2, <3>3, <3>4
  <2> QED
    BY <1>2, <1>4, <1>5, <1>8, <2>1, DueStays DEF Settles
<1> QED
  BY <1>6, <1>7, <1>8

LEMMA StageReturnsSettles ==
  ASSUME TypeOK, PhaseInv, NEW c \in AllCalls, StageReturns
  PROVE  Settles(c)
<1>1. PICK T : /\ T = IF adapter = "pydantic" THEN Undeclared(stageStart) ELSE {}
               /\ T \subseteq AllCalls /\ Tries(T)
  BY StageReturnsEffect
<1>2. /\ c \in T => \E i \in New : NewWitness(c) = {i}
      /\ c \notin T => NewWitness(c) = {}
  BY <1>1, TriesWitness
<1>3. /\ responses' = responses /\ adapter' = adapter /\ phase = "dispatch" /\ phase' = "staged"
      /\ todo' = todo /\ stageStart' = stageStart /\ termination' = termination /\ output' = output
  BY DEF StageReturns, Goto, Fixed, stage, result
<1>4. adapter \in {"openai", "pydantic"} /\ c[1] \in Nat /\ stageStart \in Nat
  BY CallFacts
<1>5. Open(c)' <=> Open(c)
  BY <1>3 DEF Open
<1>6. KindOf(c)' = KindOf(c)
  BY <1>3, SameCalls
<1>7. CASE c \in T
  <2>1. adapter = "pydantic" /\ KindOf(c) = "undeclared" /\ c[1] > stageStart
    BY <1>1, <1>7 DEF Undeclared
  <2>2. ~Searched /\ Searched'
    BY <1>3, <2>1 DEF Searched, Closed
  <2>3. ~Due(c) /\ Due(c)'
    BY <1>4, <1>6, <2>1, <2>2 DEF Due
  <2> QED
    BY <1>2, <1>7, <2>3 DEF Settles
<1>8. CASE c \notin T
  <2>1. adapter = "openai" => (Searched' <=> Searched)
    BY <1>3 DEF Searched
  <2>2. adapter = "pydantic" /\ KindOf(c) = "undeclared" => c[1] <= stageStart
    BY <1>1, <1>4, <1>8 DEF Undeclared
  <2>3. Due(c)' <=> Due(c)
    BY <1>3, <1>4, <1>5, <2>1, <2>2, DueStays
  <2> QED
    BY <1>2, <1>8, <2>3 DEF Settles
<1> QED
  BY <1>7, <1>8

LEMMA HandleSettles ==
  ASSUME TypeOK, PhaseInv, KindInv, NEW c \in AllCalls, Handle
  PROVE  Settles(c)
<1>1. Rejected \subseteq AllCalls /\ Tries(Rejected)
  BY HandleEffect
<1>2. /\ c \in Rejected => \E i \in New : NewWitness(c) = {i}
      /\ c \notin Rejected => NewWitness(c) = {}
  BY <1>1, TriesWitness
<1>3. /\ responses' = responses /\ adapter' = adapter /\ phase = "raised" /\ phase' = "closing"
      /\ todo' = todo /\ stageStart' = stageStart /\ output' = output /\ exc' = exc
  BY DEF Handle, Fixed, stage
<1>4. exc # None /\ ~output /\ termination # "completed"
  BY <1>3 DEF PhaseInv, Closed, None
<1>5. adapter \in {"openai", "pydantic"}
  BY CallFacts
<1>6. Open(c)' <=> Open(c)
  BY <1>3 DEF Open
<1>7. KindOf(c)' = KindOf(c)
  BY <1>3, SameCalls
<1>8. adapter = "pydantic" => (Searched' <=> Searched)
  BY <1>3, <1>4 DEF Searched, Closed
<1>9. adapter = "openai" => ~Searched
  BY <1>4 DEF Searched
<1>10. CASE Rejected = {}
  <2>1. termination' # "completed"
    <3>1. CASE exc = "model_behavior"
      BY <1>10, <3>1 DEF Handle
    <3>2. CASE exc # "model_behavior"
      <4>1. exc \in Raised
        BY <1>4 DEF TypeOK
      <4> QED
        BY <3>2, <4>1 DEF Handle, Raised, Resources, OfBudget
    <3> QED
      BY <3>1, <3>2
  <2>2. adapter = "openai" => ~Searched'
    BY <1>3, <2>1 DEF Searched
  <2>3. Due(c)' <=> Due(c)
    BY <1>3, <1>5, <1>6, <1>8, <1>9, <2>2, DueStays
  <2> QED
    BY <1>2, <1>10, <2>3 DEF Settles
<1>11. CASE Rejected # {}
  <2>1. exc = "model_behavior" /\ adapter = "openai" /\ Rejected = Undeclared(stageStart)
    BY <1>11 DEF Rejected
  <2>2. termination' = "completed"
    BY <1>11, <2>1 DEF Handle
  <2>3. Searched' /\ ~Searched
    BY <1>3, <1>4, <2>1, <2>2 DEF Searched
  <2>4. c \in Rejected <=> KindOf(c) = "undeclared"
    BY <2>1 DEF Undeclared, KindInv
  <2>5. CASE KindOf(c) = "undeclared"
    <3>1. ~Due(c) /\ Due(c)'
      BY <1>3, <1>7, <2>1, <2>3, <2>5 DEF Due
    <3> QED
      BY <1>2, <2>4, <2>5, <3>1 DEF Settles
  <2>6. CASE KindOf(c) # "undeclared"
    <3>1. Due(c)' <=> Due(c)
      BY <1>3, <1>6, <2>6, DueStays
    <3> QED
      BY <1>2, <2>4, <2>6, <3>1 DEF Settles
  <2> QED
    BY <2>5, <2>6
<1> QED
  BY <1>10, <1>11

LEMMA CloseSettles ==
  ASSUME TypeOK, PhaseInv, KindInv, NEW c \in AllCalls, Close
  PROVE  Settles(c)
<1>1. PICK T : /\ T = IF adapter = "openai"
                      THEN {d \in AllCalls : KindOf(d) = "handoff" /\ ~First(d)} ELSE {}
               /\ T \subseteq AllCalls /\ Ignores(T)
  BY CloseEffect
<1>2. /\ responses' = responses /\ adapter' = adapter /\ phase = "closing" /\ phase' = "ended"
      /\ todo' = todo /\ stageStart' = stageStart /\ exc' = exc
      /\ output' = output /\ termination' = termination
  BY DEF Close, Goto, Fixed, stage, result
<1>3. Open(c)' <=> Open(c)
  BY <1>2 DEF Open
<1>4. Searched' <=> Searched
  BY <1>2 DEF Searched, Closed
<1>5. KindOf(c)' = KindOf(c) /\ First(c)' = First(c)
  BY <1>2, SameCalls
<1>6. \A d \in T : IgnoredEvent(d).type = "ignored_handoff" /\ IgnoredEvent(d).made = d
  BY <1>1, IgnoredType
<1>7. CASE c \in T
  <2>1. KindOf(c) = "handoff" /\ ~First(c)
    BY <1>1, <1>7
  <2>2. ~Due(c) /\ Due(c)'
    BY <1>2, <1>5, <2>1 DEF Due
  <2>3. PICK i \in New :
          events'[i] = IgnoredEvent(c) /\ \A j \in New : events'[j].made = c => j = i
    BY <1>1, <1>7 DEF Ignores
  <2>4. NewWitness(c) = {i}
    BY <1>6, <1>7, <2>3 DEF NewWitness
  <2> QED
    BY <2>2, <2>4 DEF Settles
<1>8. CASE c \notin T
  <2>1. NewWitness(c) = {}
    BY <1>1, <1>6, <1>8 DEF NewWitness, Ignores
  <2>2. KindOf(c) = "handoff" => First(c)
    BY <1>1, <1>8, CallFacts DEF KindInv
  <2>3. Due(c)' <=> Due(c)
    BY <1>2, <1>3, <1>4, <1>5, <2>2 DEF Due
  <2> QED
    BY <2>1, <2>3 DEF Settles
<1> QED
  BY <1>7, <1>8

(* A response brings calls that are not due, and leaves the others alone.  *)
LEMMA RespondEvidence ==
  ASSUME TypeOK, PhaseInv, AttemptInv, HandoffInv, IgnoredInv, Respond,
         NEW c \in AllCalls', c \in AllCalls => Evidenced(c)
  PROVE  Evidenced(c)'
<1>1. PICK calls \in Calls, u \in Usages, planRaises \in BOOLEAN, raises \in Raises :
        Responded(calls, u) /\ Outcome(calls, u, planRaises, raises)
  BY RespondEffect
<1>2. /\ phase = "requested" /\ todo = {} /\ adapter # "custom" /\ ~output /\ termination # "completed"
      /\ stageStart' = stageStart /\ output' = output /\ termination' = termination
      /\ adapter' = adapter
  BY DEF Respond, Fixed, stage, result, PhaseInv, Closed, None
<1>3. phase' \in {"raised", "dispatch"}
  BY <1>1 DEF Outcome, Raise, Goto
<1>4. adapter \in {"openai", "pydantic"}
  BY <1>2, AdapterAssumption DEF TypeOK, AdapterNames
<1>5. ~Searched /\ ~Searched'
  BY <1>2, <1>3, <1>4 DEF Searched, Closed
<1>6. Keeps /\ NewWitness(c) = {}
  BY <1>1 DEF Responded, NewWitness
<1>7. CASE c \in AllCalls
  <2>1. /\ c[1] # Len(responses') /\ KindOf(c)' = KindOf(c) /\ First(c)' = First(c)
    BY <1>1, <1>7, RespondedCalls
  <2>2. ~Open(c) /\ ~Open(c)'
    BY <1>2, <2>1 DEF Open
  <2>3. Due(c)' <=> Due(c)
    BY <1>2, <1>3, <1>5, <2>1, <2>2 DEF Due
  <2> QED
    BY <1>6, <1>7, <2>3, EvidenceStep DEF Settles
<1>8. CASE c \notin AllCalls
  <2>1. /\ c[1] = Len(responses) + 1 /\ c[1] = Len(responses') /\ c[2] \in DOMAIN calls
    BY <1>1, <1>8, RespondedCalls
  <2>2. Open(c)' /\ c[1] > stageStart'
    <3>1. stageStart \in 0..Len(responses) /\ Len(responses) \in Nat
      BY RecordLength DEF TypeOK
    <3> QED
      BY <1>1, <1>2, <2>1, <3>1 DEF Open, Responded
  <2>3. ~Due(c)'
    <3>1. ~(c[1] <= stageStart')
      BY <1>2, <2>1, <2>2, RecordLength DEF TypeOK
    <3>2. First(c)' \/ ~First(c)'
      OBVIOUS
    <3>3. phase' # "ended"
      BY <1>3
    <3>4. ~(KindOf(c)' = "declared" /\ ~Open(c)')
      BY <2>2
    <3>5. ~(KindOf(c)' = "handoff" /\ IF First(c)' THEN ~Open(c)' ELSE phase' = "ended")
      BY <2>2, <3>3
    <3> QED
      BY <1>5, <2>2, <3>1, <3>4, <3>5 DEF Due
  <2>4. Witness(c) = {}
    <3> SUFFICES ASSUME NEW i \in Witness(c) PROVE FALSE
      OBVIOUS
    <3>1. /\ i \in DOMAIN events /\ events[i].made = c
          /\ \/ events[i].type = "tool_attempt" \/ events[i].type = "handoff"
             \/ events[i].type = "ignored_handoff"
      BY DEF Witness
    <3>2. Told(i)
      <4>1. CASE events[i].type = "tool_attempt"
        <5>1. Tried(i)
          BY <1>2, <3>1, <4>1 DEF Attempts, AttemptInv
        <5> QED
          BY <5>1 DEF Tried
      <4>2. CASE events[i].type = "handoff"
        BY <3>1, <4>2 DEF EventsOf, HandoffInv
      <4>3. CASE events[i].type = "ignored_handoff"
        BY <3>1, <4>3 DEF EventsOf, IgnoredInv
      <4> QED
        BY <3>1, <4>1, <4>2, <4>3
    <3> QED
      BY <1>8, <3>1, <3>2 DEF Told
  <2>5. Witness(c)' = {}
    <3>1. Witness(c)' = Witness(c) \cup NewWitness(c)
      BY <1>6, KeptWitnesses DEF NewWitness
    <3> QED
      BY <1>6, <2>4, <3>1
  <2> QED
    BY <2>3, <2>5 DEF Evidenced
<1> QED
  BY <1>7, <1>8

LEMMA WitnessStep ==
  ASSUME TypeOK, PhaseInv, KindInv, AttemptInv, HandoffInv, IgnoredInv, WitnessInv, [Next]_vars
  PROVE  WitnessInv'
<1> SUFFICES ASSUME exc' # "error", NEW c \in AllCalls' PROVE Evidenced(c)'
  BY DEF WitnessInv
<1>1. exc # "error"
  BY ExcStays DEF None
<1>2. CASE Respond
  BY <1>1, <1>2, RespondEvidence DEF WitnessInv
<1>3. CASE ~Respond
  <2>1. Keeps /\ c \in AllCalls
    BY <1>3, Extending, SameCalls DEF Extends
  <2>2. Evidenced(c)
    BY <1>1, <2>1 DEF WitnessInv
  <2>3. ~AnswerRaises
    BY DEF AnswerRaises, Raise
  <2>4. ~AgentCalled
    BY <2>1, CallFacts, AgentCallEffect
  <2>5. Settles(c)
    BY <1>3, <2>1, <2>3, <2>4, WaitsSettle, StopsSettle, SpeaksSettle, AnswerSettles, HandoffSettles,
       StageReturnsSettles, HandleSettles, CloseSettles, StepsAre DEF Steps
  <2> QED
    BY <2>1, <2>2, <2>5, EvidenceStep
<1> QED
  BY <1>2, <1>3

-----------------------------------------------------------------------------
(* What the responses add up to.                                           *)

Adds(f, n, a) == f = [k \in 0..n |-> IF k = 0 THEN 0 ELSE f[k - 1] + a[k]]

LEMMA AddsExist ==
  ASSUME NEW n \in Nat, NEW a \in [1..n -> Nat]
  PROVE  \E f \in [0..n -> Nat] : Adds(f, n, a)
<1> DEFINE Partial(f, m) == \A k \in 0..m : f[k] = IF k = 0 THEN 0 ELSE f[k - 1] + a[k]
           Bad == {m \in 0..n : ~\E f \in [0..m -> Nat] : Partial(f, m)}
<1>1. Bad = {}
  <2> SUFFICES ASSUME Bad # {} PROVE FALSE
    OBVIOUS
  <2>1. Bad \in SUBSET Nat
    OBVIOUS
  <2>2. PICK m \in Bad : \A k \in Bad : m <= k
    <3> HIDE DEF Bad
    <3> QED
      BY <2>1, LeastNumber
  <2>3. m \in 0..n /\ ~\E f \in [0..m -> Nat] : Partial(f, m)
    OBVIOUS
  <2>4. CASE m = 0
    <3> DEFINE f == [k \in 0..0 |-> 0]
    <3>1. f \in [0..m -> Nat] /\ Partial(f, m)
      BY <2>4
    <3> QED
      BY <2>3, <3>1
  <2>5. CASE m # 0
    <3>1. m - 1 \in 0..n /\ m - 1 \notin Bad
      <4> HIDE DEF Bad
      <4> QED
        BY <2>2, <2>3, <2>5
    <3>2. PICK h \in [0..(m - 1) -> Nat] : Partial(h, m - 1)
      BY <3>1
    <3> DEFINE f == [k \in 0..m |-> IF k = m THEN h[m - 1] + a[m] ELSE h[k]]
    <3>3. h[m - 1] \in Nat /\ m \in 1..n /\ a[m] \in Nat
      BY <2>3, <2>5
    <3>4. f \in [0..m -> Nat]
      BY <3>3
    <3>5. ASSUME NEW k \in 0..m
          PROVE  f[k] = IF k = 0 THEN 0 ELSE f[k - 1] + a[k]
      <4>1. CASE k = m
        BY <2>3, <2>5, <4>1, SMTT(60)
      <4>2. CASE k # m
        <5>1. k \in 0..(m - 1) /\ f[k] = h[k] /\ (k # 0 => f[k - 1] = h[k - 1])
          BY <2>3, <4>2
        <5>2. h[k] = IF k = 0 THEN 0 ELSE h[k - 1] + a[k]
          BY <3>2, <5>1
        <5> HIDE DEF f
        <5> QED
          BY <5>1, <5>2
      <4> QED
        BY <4>1, <4>2
    <3> HIDE DEF f
    <3> QED
      BY <2>3, <3>4, <3>5
  <2> QED
    BY <2>4, <2>5
<1>2. PICK f \in [0..n -> Nat] : Partial(f, n)
  <2>1. n \in 0..n /\ n \notin Bad
    <3> HIDE DEF Bad
    <3> QED
      BY <1>1
  <2> HIDE DEF Partial
  <2> QED
    BY <2>1
<1>3. Adds(f, n, a)
  <2>1. f = [k \in 0..n |-> f[k]]
    OBVIOUS
  <2> QED
    BY <1>2, <2>1 DEF Adds
<1> QED
  BY <1>2, <1>3

LEMMA AddsAgree ==
  ASSUME NEW n \in Nat, NEW m \in Nat, n <= m, NEW a, NEW b, NEW f, NEW g,
         Adds(f, n, a), Adds(g, m, b), \A k \in 1..n : a[k] = b[k]
  PROVE  \A k \in 0..n : f[k] = g[k]
<1> DEFINE Bad == {k \in 0..n : f[k] # g[k]}
<1>1. /\ \A k \in 0..n : f[k] = IF k = 0 THEN 0 ELSE f[k - 1] + a[k]
      /\ \A k \in 0..m : g[k] = IF k = 0 THEN 0 ELSE g[k - 1] + b[k]
  <2> DEFINE F == [k \in 0..n |-> IF k = 0 THEN 0 ELSE f[k - 1] + a[k]]
             G == [k \in 0..m |-> IF k = 0 THEN 0 ELSE g[k - 1] + b[k]]
  <2>1. f = F /\ g = G
    BY Zenon DEF Adds
  <2>2. \A k \in 0..n : F[k] = IF k = 0 THEN 0 ELSE f[k - 1] + a[k]
    OBVIOUS
  <2>3. \A k \in 0..m : G[k] = IF k = 0 THEN 0 ELSE g[k - 1] + b[k]
    OBVIOUS
  <2> HIDE DEF F, G
  <2> QED
    BY <2>1, <2>2, <2>3
<1>2. SUFFICES ASSUME Bad # {} PROVE FALSE
  OBVIOUS
<1>3. PICK k \in Bad : \A j \in Bad : k <= j
  <2>1. Bad \in SUBSET Nat
    OBVIOUS
  <2> HIDE DEF Bad
  <2> QED
    BY <1>2, <2>1, LeastNumber
<1>4. k \in 0..n /\ k \in 0..m /\ f[k] # g[k]
  OBVIOUS
<1>5. k # 0
  BY <1>1, <1>4
<1>6. k - 1 \in 0..n /\ k - 1 \notin Bad
  BY <1>3, <1>4, <1>5
<1>7. f[k - 1] = g[k - 1] /\ a[k] = b[k]
  BY <1>4, <1>5, <1>6
<1> QED
  BY <1>1, <1>4, <1>5, <1>7

TotalOf(rs, field) ==
  LET upTo[r \in 0..Len(rs)] ==
        IF r = 0 THEN 0 ELSE upTo[r - 1] + Amount(rs[r].usage, field)
  IN  upTo[Len(rs)]
AmountsOf(rs, field) == [r \in 1..Len(rs) |-> Amount(rs[r].usage, field)]

LEMMA AmountType ==
  ASSUME NEW u \in Usages, NEW field \in {"tokens", "cost"}
  PROVE  Amount(u, field) \in Nat
<1>1. u = Unknown \/ u \in [tokens : Nat, cost : Nat]
  BY AdapterAssumption DEF UsageType
<1> QED
  BY <1>1 DEF Amount

LEMMA TotalAdds ==
  ASSUME NEW rs \in Seq(ResponseType), NEW field \in {"tokens", "cost"}
  PROVE  /\ AmountsOf(rs, field) \in [1..Len(rs) -> Nat]
         /\ \E f \in [0..Len(rs) -> Nat] :
              Adds(f, Len(rs), AmountsOf(rs, field)) /\ TotalOf(rs, field) = f[Len(rs)]
<1> DEFINE n == Len(rs)
           a == AmountsOf(rs, field)
           Body(f) == f = [r \in 0..n |-> IF r = 0 THEN 0 ELSE f[r - 1] + Amount(rs[r].usage, field)]
           g == CHOOSE f : Body(f)
<1>1. n \in Nat /\ \A r \in 1..n : rs[r].usage \in Usages
  <2>1. n \in Nat /\ \A r \in 1..n : rs[r] \in ResponseType
    OBVIOUS
  <2> QED
    BY <2>1 DEF ResponseType
<1>2. \A r \in 1..n : Amount(rs[r].usage, field) \in Nat
  BY <1>1, AmountType
<1>3. a \in [1..n -> Nat] /\ \A r \in 1..n : a[r] = Amount(rs[r].usage, field)
  BY <1>2 DEF AmountsOf
<1> HIDE DEF a
<1>4. \A f : Body(f) <=> Adds(f, n, a)
  <2> SUFFICES ASSUME NEW f PROVE Body(f) <=> Adds(f, n, a)
    OBVIOUS
  <2> DEFINE F == [r \in 0..n |-> IF r = 0 THEN 0 ELSE f[r - 1] + Amount(rs[r].usage, field)]
             G == [k \in 0..n |-> IF k = 0 THEN 0 ELSE f[k - 1] + a[k]]
  <2>1. \A r \in 0..n : F[r] = G[r]
    BY <1>1, <1>3
  <2>2. F = G
    BY <2>1
  <2> QED
    BY Zenon, <2>2 DEF Adds
<1>5. PICK f \in [0..n -> Nat] : Adds(f, n, a)
  BY <1>1, <1>3, AddsExist
<1>6. Body(g)
  BY <1>4, <1>5
<1>7. TotalOf(rs, field) = g[n]
  BY Zenon DEF TotalOf
<1> HIDE DEF g
<1>8. Adds(g, n, a)
  BY <1>4, <1>6
<1>9. \A k \in 0..n : g[k] = f[k]
  BY <1>1, <1>5, <1>8, AddsAgree
<1> QED
  BY <1>1, <1>3, <1>5, <1>7, <1>9 DEF a

LEMMA SumIsTotal ==
  ASSUME NEW field
  PROVE  Sum(field) = TotalOf(responses, field) /\ Sum(field)' = TotalOf(responses', field)
BY Zenon DEF Sum, TotalOf, Amount

LEMMA SumGrows ==
  ASSUME TypeOK, NEW calls, NEW u \in Usages, Responded(calls, u), NEW field \in {"tokens", "cost"}
  PROVE  Sum(field) \in Nat /\ Amount(u, field) \in Nat /\ Sum(field)' = Sum(field) + Amount(u, field)
<1> DEFINE n == Len(responses)
<1>0. responses \in Seq(ResponseType) /\ responses' \in Seq(ResponseType)
  BY DEF TypeOK, Responded
<1>1. PICK f \in [0..n -> Nat] :
        Adds(f, n, AmountsOf(responses, field)) /\ TotalOf(responses, field) = f[n]
  BY <1>0, TotalAdds
<1>2. PICK g \in [0..(n + 1) -> Nat] :
        Adds(g, n + 1, AmountsOf(responses', field)) /\ TotalOf(responses', field) = g[n + 1]
  BY <1>0, TotalAdds DEF Responded
<1>3. n \in Nat
  BY RecordLength
<1>4. \A k \in 1..n : AmountsOf(responses, field)[k] = AmountsOf(responses', field)[k]
  <2>1. \A k \in 1..n : responses'[k] = responses[k]
    BY RecordLength DEF Responded
  <2> QED
    BY <1>3, <2>1 DEF AmountsOf, Responded
<1>5. AmountsOf(responses', field)[n + 1] = Amount(u, field)
  <2>1. Len(responses') = n + 1 /\ responses'[n + 1].usage = u
    BY DEF Responded
  <2> QED
    BY <1>3, <2>1 DEF AmountsOf
<1>6. f[n] = g[n]
  BY <1>1, <1>2, <1>3, <1>4, AddsAgree
<1>7. g[n + 1] = g[n] + AmountsOf(responses', field)[n + 1]
  <2> DEFINE b == AmountsOf(responses', field)
             G == [k \in 0..(n + 1) |-> IF k = 0 THEN 0 ELSE g[k - 1] + b[k]]
  <2> HIDE DEF b
  <2>1. g = G
    BY Zenon, <1>2 DEF Adds, b
  <2>2. G[n + 1] = g[n] + b[n + 1]
    BY <1>3
  <2> HIDE DEF G
  <2> QED
    BY <2>1, <2>2 DEF b
<1> QED
  BY <1>1, <1>2, <1>3, <1>5, <1>6, <1>7, AmountType, SumIsTotal

LEMMA SumStarts ==
  ASSUME responses = <<>>, NEW field \in {"tokens", "cost"}
  PROVE  Sum(field) = 0
<1>1. responses \in Seq(ResponseType) /\ Len(responses) = 0
  OBVIOUS
<1>2. PICK f \in [0..0 -> Nat] :
        Adds(f, 0, AmountsOf(responses, field)) /\ TotalOf(responses, field) = f[0]
  BY <1>1, TotalAdds, ZenonT(60)
<1> DEFINE b == AmountsOf(responses, field)
           F == [k \in 0..0 |-> IF k = 0 THEN 0 ELSE f[k - 1] + b[k]]
<1> HIDE DEF b
<1>3. f = F
  BY Zenon, <1>2 DEF Adds, b
<1>4. F[0] = 0
  OBVIOUS
<1> QED
  BY <1>2, <1>3, <1>4, SumIsTotal

-----------------------------------------------------------------------------
(* What the tracker counts.                                                *)

LEMMA Spends ==
  ASSUME TypeOK, PhaseInv, [Next]_vars
  PROVE  \/ Respond \/ Request
         \/ spent' = spent /\ \A i \in New : events'[i].type # "model_request"
<1> DEFINE G == spent' = spent /\ \A i \in New : events'[i].type # "model_request"
<1>1. ASSUME Waits \/ UNCHANGED vars PROVE G
  BY <1>1, WaitsEffect, QuietStep
<1>2. ASSUME Stops PROVE G
  BY <1>2, StopsEffect, QuietStep DEF Settled
<1>3. ASSUME Start \/ AgentReturns \/ Complete \/ OutOfTurns \/ Deliver PROVE G
  BY <1>3, SpeaksEffect DEF Start, AgentReturns, Complete, OutOfTurns, Deliver
<1>4. ASSUME AgentCalled PROVE G
  BY <1>4, AgentCallEffect DEF AgentCalled, AgentIsAnswered, AgentIsRefused, AgentCallRaises
<1>5. ASSUME Answer \/ AnswerRaises PROVE G
  BY <1>5, AnswerEffect, AnswerRaisesEffect DEF Tries, Answer, AnswerRaises
<1>6. ASSUME Handoff PROVE G
  <2>1. PICK c : /\ New = {Len(events) + 1}
                 /\ events'[Len(events) + 1] =
                      Event("handoff", Latest("model_response"), CallAt(c), c, None)
    BY <1>6, HandoffEffect
  <2>2. \A i \in New : events'[i].type # "model_request"
    BY <2>1 DEF Event
  <2> QED
    BY <1>6, <2>2 DEF Handoff
<1>7. ASSUME StageReturns \/ Handle PROVE G
  BY <1>7, StageReturnsEffect, HandleEffect DEF Tries, StageReturns, Handle
<1>8. ASSUME Close PROVE G
  BY <1>8, CloseEffect, IgnoredType DEF Ignores, Close
<1> QED
  BY <1>1, <1>2, <1>3, <1>4, <1>5, <1>6, <1>7, <1>8, StepsAre DEF Steps

(* What is raised by which step.                                           *)
LEMMA RaisesWhat ==
  ASSUME TypeOK, PhaseInv, [Next]_vars
  PROVE  \/ Respond \/ Request \/ AgentIsRefused
         \/ exc' = exc
         \/ exc' \in {"cancelled", "max_turns_exceeded", "provider", "model_behavior", "error"}
<1> DEFINE G == \/ exc' = exc
                \/ exc' \in {"cancelled", "max_turns_exceeded", "provider", "model_behavior", "error"}
<1>1. ASSUME Waits \/ UNCHANGED vars PROVE G
  BY <1>1, WaitsEffect
<1>2. ASSUME Stops PROVE G
  BY <1>2, StopsEffect
<1>3. ASSUME Start \/ AgentReturns \/ Complete \/ OutOfTurns \/ Deliver PROVE G
  BY <1>3 DEF Start, AgentReturns, Complete, OutOfTurns, Deliver, Goto
<1>4. ASSUME AgentIsAnswered \/ AgentCallRaises PROVE G
  BY <1>4 DEF AgentIsAnswered, AgentCallRaises, Raise
<1>5. ASSUME Answer \/ AnswerRaises \/ Handoff PROVE G
  BY <1>5 DEF Answer, AnswerRaises, Handoff, Raise
<1>6. ASSUME StageReturns \/ Handle \/ Close PROVE G
  BY <1>6 DEF StageReturns, Handle, Close, Goto
<1> QED
  BY <1>1, <1>2, <1>3, <1>4, <1>5, <1>6, StepsAre DEF Steps, AgentCalled

(* A request is counted, or the tracker refuses to and raises.             *)
LEMMA RequestCounts ==
  ASSUME TypeOK, Request
  PROVE  /\ Cardinality(EventsOf("model_request"))' = Cardinality(EventsOf("model_request")) + 1
         /\ exc' \in {exc, "wall_time", "model_turns"}
         /\ exc' \notin {"wall_time", "model_turns"} => spent'.turns = spent.turns + 1
         /\ spent'.tokens = spent.tokens /\ spent'.cost = spent.cost
<1>1. Log(<<Plain("model_request")>>)
  BY DEF Request
<1>2. /\ Keeps /\ New = {Len(events) + 1}
      /\ events'[Len(events) + 1].type = "model_request"
  BY <1>1, SpeaksEffect
<1>3. EventsOf("model_request")' = EventsOf("model_request") \cup {Len(events) + 1}
  BY <1>2, KeptOf
<1>4. Len(events) + 1 \notin EventsOf("model_request") /\ IsFiniteSet(EventsOf("model_request"))
  BY FiniteEvents, RecordLength DEF EventsOf
<1>5. Cardinality(EventsOf("model_request"))' = Cardinality(EventsOf("model_request")) + 1
  BY <1>3, <1>4, FS_AddElement
<1>6. spent \in [turns : 0..MaxTurns, tokens : 0..TokenLimit, cost : 0..CostLimit]
  BY DEF TypeOK
<1>7. \/ spent' = spent /\ exc' \in {"wall_time", "model_turns"}
      \/ spent' = [spent EXCEPT !.turns = @ + 1] /\ exc' = exc
  BY DEF Request, Raise, Goto
<1> QED
  BY <1>5, <1>6, <1>7

LEMMA CallsBudgetStep ==
  ASSUME TypeOK, PhaseInv, BudgetInv, [Next]_vars
  PROVE  /\ CallsUsed' > MaxToolCalls =>
              exc' = "error" \/ \E i \in DOMAIN events' : events'[i].status = "over_budget"
         /\ exc' = "tool_calls" => CallsUsed' > MaxToolCalls
<1>1. /\ CallsUsed \in Nat /\ CallsUsed' \in Nat /\ CallsUsed <= CallsUsed' /\ Keeps
      /\ MaxToolCalls \in Nat
      /\ CallsUsed' # CallsUsed /\ CallsUsed' > MaxToolCalls =>
           exc' = "error" \/ \E i \in New : events'[i].status = "over_budget"
  <2>1. CASE Respond
    <3>1. PICK calls \in Calls, u \in Usages : Responded(calls, u)
      BY <2>1, RespondEffect
    <3>2. Keeps /\ Attempts(events)' = Attempts(events)
      BY <3>1, KeptAttempts DEF Responded
    <3>3. CallsUsed' = CallsUsed
      BY <3>2 DEF CallsUsed
    <3> QED
      BY <3>2, <3>3, CallsUsedType, AdapterAssumption
  <2>2. CASE Extends
    BY <2>2, CallsUsedType, AdapterAssumption DEF Extends, Counted
  <2> QED
    BY <2>1, <2>2, Extending
<1>2. ASSUME CallsUsed' > MaxToolCalls
      PROVE  exc' = "error" \/ \E i \in DOMAIN events' : events'[i].status = "over_budget"
  <2>1. CASE CallsUsed' # CallsUsed
    BY <1>1, <1>2, <2>1, Kept
  <2>2. CASE CallsUsed' = CallsUsed
    <3>1. exc = "error" \/ \E i \in DOMAIN events : events[i].status = "over_budget"
      BY <1>2, <2>2 DEF BudgetInv
    <3>2. exc = "error" => exc' = "error"
      BY ExcStays DEF None
    <3> QED
      BY <1>1, <3>1, <3>2, Kept
  <2> QED
    BY <2>1, <2>2
<1>3. ASSUME exc' = "tool_calls" PROVE CallsUsed' > MaxToolCalls
  <2>1. CASE exc = "tool_calls"
    BY <1>1, <2>1 DEF BudgetInv
  <2>2. CASE AgentIsRefused /\ exc # "tool_calls"
    <3>1. OverCalls
      BY <1>3, <2>2 DEF AgentIsRefused, Raise
    <3>2. CallsUsed' = CallsUsed + 1
      BY <2>2, AgentCallEffect DEF AgentCalled
    <3> QED
      BY <1>1, <3>1, <3>2 DEF OverCalls
  <2>3. CASE Respond
    <3>1. PICK calls \in Calls, u \in Usages, planRaises \in BOOLEAN, raises \in Raises : Outcome(calls, u, planRaises, raises)
      BY <2>3, RespondEffect
    <3>2. exc = None
      BY <2>3 DEF Respond, PhaseInv, Closed
    <3> QED
      BY <1>3, <3>1, <3>2 DEF Outcome, Raises, Raise, Goto, None
  <2>4. CASE Request /\ exc # "tool_calls"
    BY <1>3, <2>4, RequestCounts
  <2> QED
    BY <1>3, <2>1, <2>2, <2>3, <2>4, RaisesWhat
<1> QED
  BY <1>2, <1>3

Tracked ==
  /\ exc \notin {"model_turns", "wall_time"} =>
       Cardinality(EventsOf("model_request")) = spent.turns
  /\ exc \notin {"error", "wall_time", "tokens"} => Sum("tokens") = spent.tokens
  /\ exc = "tokens" => Sum("tokens") > TokenLimit
  /\ adapter = "openai" /\ exc \notin {"error", "wall_time", "tokens", "cost_usd"} =>
       Sum("cost") = spent.cost
  /\ exc = "cost_usd" => Sum("cost") > CostLimit

LEMMA ExtendsTracked ==
  ASSUME TypeOK, PhaseInv, Tracked, [Next]_vars, Extends
  PROVE  Tracked'
<1>1. /\ Sum("tokens")' = Sum("tokens") /\ Sum("cost")' = Sum("cost") /\ Keeps
      /\ responses' = responses /\ adapter' = adapter
  <2>1. responses' = responses /\ Keeps
    BY DEF Extends
  <2>2. Sum("tokens")' = Sum("tokens") /\ Sum("cost")' = Sum("cost")
    BY <2>1, SumIsTotal
  <2> QED
    BY <2>1, <2>2, FixedStays
<1>2. ~Respond
  BY <1>1, RespondAdds
<1>3. exc # None => exc' = exc
  BY ExcStays
<1>4. exc' \in {exc, "cancelled", "max_turns_exceeded", "provider", "model_behavior", "error",
                "wall_time", "model_turns", "tool_calls", "retries"}
  BY <1>2, RaisesWhat, RequestCounts DEF AgentIsRefused, Raise
<1>5. CASE Request
  BY <1>1, <1>3, <1>4, <1>5, RequestCounts DEF Tracked, None
<1>6. CASE ~Request
  <2>1. spent' = spent /\ \A i \in New : events'[i].type # "model_request"
    BY <1>2, <1>6, Spends
  <2>2. EventsOf("model_request")' = EventsOf("model_request")
    BY <1>1, <2>1, KeptOf
  <2>3. Cardinality(EventsOf("model_request"))' = Cardinality(EventsOf("model_request"))
    BY <2>2
  <2> QED
    BY <1>1, <1>3, <1>4, <2>1, <2>3 DEF Tracked, None
<1> QED
  BY <1>5, <1>6

LEMMA RespondTracked ==
  ASSUME TypeOK, PhaseInv, Tracked, Respond
  PROVE  Tracked'
<1>1. PICK calls \in Calls, u \in Usages, planRaises \in BOOLEAN, raises \in Raises :
        Responded(calls, u) /\ Outcome(calls, u, planRaises, raises)
  BY RespondEffect
<1>2. exc = None /\ adapter' = adapter /\ expired' = expired
  BY DEF Respond, PhaseInv, Closed, Fixed
<1>3. /\ Sum("tokens") \in Nat /\ Amount(u, "tokens") \in Nat
      /\ Sum("tokens")' = Sum("tokens") + Amount(u, "tokens")
      /\ Sum("cost") \in Nat /\ Amount(u, "cost") \in Nat
      /\ Sum("cost")' = Sum("cost") + Amount(u, "cost")
  BY <1>1, SumGrows
<1>4. /\ Cardinality(EventsOf("model_request")) = spent.turns
      /\ Sum("tokens") = spent.tokens
      /\ adapter = "openai" => Sum("cost") = spent.cost
  BY <1>2 DEF Tracked, None
<1>5. Cardinality(EventsOf("model_request"))' = Cardinality(EventsOf("model_request"))
  <2>1. EventsOf("model_request")' = EventsOf("model_request")
    <3>1. Keeps /\ \A i \in New : events'[i].type # "model_request"
      BY <1>1 DEF Responded
    <3> QED
      BY <3>1, KeptOf
  <2> QED
    BY <2>1
<1>6. /\ spent \in [turns : 0..MaxTurns, tokens : 0..TokenLimit, cost : 0..CostLimit]
      /\ TokenLimit \in Nat /\ CostLimit \in Nat
  BY AdapterAssumption DEF TypeOK
<1>7. /\ SpentAfter(u, raises).turns = spent.turns
      /\ raises \in {None, "cost_usd"} =>
           SpentAfter(u, raises).tokens = spent.tokens + Amount(u, "tokens")
      /\ raises = None /\ adapter = "openai" =>
           SpentAfter(u, raises).cost = spent.cost + Amount(u, "cost")
  <2> DEFINE t == IF u = Unknown \/ raises \in {"wall_time", "tokens"}
                  THEN spent.tokens ELSE spent.tokens + u.tokens
             k == IF u = Unknown \/ raises # None \/ adapter # "openai"
                  THEN spent.cost ELSE spent.cost + u.cost
  <2>1. SpentAfter(u, raises) = [spent EXCEPT !.tokens = t, !.cost = k]
    BY DEF SpentAfter
  <2>2. raises \in {None, "cost_usd"} => t = spent.tokens + Amount(u, "tokens")
    BY <1>6 DEF Amount, None
  <2>3. raises = None /\ adapter = "openai" => k = spent.cost + Amount(u, "cost")
    BY <1>6 DEF Amount
  <2> HIDE DEF t, k
  <2> QED
    BY <1>6, <2>1, <2>2, <2>3
<1>8. /\ raises \in {None, "wall_time", "tokens", "cost_usd"}
      /\ raises = "tokens" => spent.tokens + Amount(u, "tokens") > TokenLimit
      /\ raises = "cost_usd" =>
           adapter = "openai" /\ spent.cost + Amount(u, "cost") > CostLimit
  BY <1>1 DEF Outcome, UsageRaises, Raises, Amount, None
<1>9. \/ exc' = "error" /\ spent' \in {spent, SpentAfter(u, raises)}
      \/ exc' = raises /\ spent' = SpentAfter(u, raises)
      \/ exc' = "model_behavior" /\ raises = None /\ spent' = SpentAfter(u, raises)
  BY <1>1, <1>2 DEF Outcome, Raise, Goto
<1>10. spent'.turns = spent.turns
  BY <1>7, <1>9
<1>11. CASE exc' = "error"
  BY <1>4, <1>5, <1>10, <1>11 DEF Tracked
<1>12. CASE exc' # "error"
  <2>1. /\ spent' = SpentAfter(u, raises) /\ exc' \in {raises, "model_behavior"}
        /\ exc' = "model_behavior" => raises = None
    BY <1>8, <1>9, <1>12 DEF None
  <2>2. Cardinality(EventsOf("model_request"))' = spent'.turns
    BY <1>4, <1>5, <1>10
  <2>3. exc' \notin {"error", "wall_time", "tokens"} => Sum("tokens")' = spent'.tokens
    BY <1>3, <1>4, <1>7, <1>8, <2>1
  <2>4. exc' = "tokens" => Sum("tokens")' > TokenLimit
    BY <1>3, <1>4, <1>8, <2>1
  <2>5. adapter = "openai" /\ exc' \notin {"error", "wall_time", "tokens", "cost_usd"} =>
          Sum("cost")' = spent'.cost
    BY <1>3, <1>4, <1>7, <1>8, <2>1
  <2>6. exc' = "cost_usd" => Sum("cost")' > CostLimit
    BY <1>3, <1>4, <1>8, <2>1
  <2> QED
    BY <1>2, <2>2, <2>3, <2>4, <2>5, <2>6 DEF Tracked
<1> QED
  BY <1>11, <1>12

LEMMA BudgetStep ==
  ASSUME TypeOK, PhaseInv, BudgetInv, [Next]_vars
  PROVE  BudgetInv'
<1>1. Tracked
  BY DEF BudgetInv, Tracked
<1>2. Tracked'
  BY <1>1, ExtendsTracked, RespondTracked, Extending
<1> QED
  BY <1>2, CallsBudgetStep DEF BudgetInv, Tracked

-----------------------------------------------------------------------------
(* What a run is given after its time.                                     *)

LEMMA ClockMoves ==
  ASSUME [Next]_vars
  PROVE  /\ Tick \/ expired' = expired
         /\ latency' = latency \/ (Close /\ (latency' > WallClock => Late))
<1> DEFINE G == expired' = expired /\ latency' = latency
<1>1. ASSUME Waits \/ UNCHANGED vars PROVE latency' = latency /\ (Tick \/ expired' = expired)
  BY <1>1, WaitsEffect
     DEF Waits, Escapes, BeginStage, RetryPrompt, NextTurn, CalledAfterwards, vars, control
<1>2. ASSUME Stops PROVE G
  BY <1>2, StopsEffect DEF Settled
<1>3. ASSUME Start \/ Request \/ AgentReturns PROVE G
  BY <1>3 DEF Start, Request, AgentReturns, result
<1>4. ASSUME Complete \/ OutOfTurns \/ Deliver PROVE G
  BY <1>4 DEF Complete, OutOfTurns, Deliver, result
<1>5. ASSUME Respond \/ Answer \/ AnswerRaises \/ Handoff PROVE G
  BY <1>5 DEF Respond, Answer, AnswerRaises, Handoff, result
<1>6. ASSUME AgentCalled PROVE G
  BY <1>6 DEF AgentCalled, AgentIsAnswered, AgentIsRefused, AgentCallRaises, result
<1>7. ASSUME StageReturns \/ Handle PROVE G
  BY <1>7 DEF StageReturns, Handle, result
<1>8. ASSUME Close PROVE expired' = expired /\ (latency' > WallClock => Late)
  BY <1>8 DEF Close
<1> QED
  BY <1>1, <1>2, <1>3, <1>4, <1>5, <1>6, <1>7, <1>8, StepsAre DEF Steps

(* The record does not hold a later moment.                                *)
LEMMA ClockTicks ==
  ASSUME TypeOK, ResponseInv, ClockInv, Tick
  PROVE  ClockInv'
<1>1. /\ events' = events /\ responses' = responses /\ exc' = exc /\ latency' = latency
      /\ expired' = Len(events) + 1
  BY DEF Tick, stage, result
<1>2. Len(events) \in Nat /\ DOMAIN events = 1..Len(events)
  BY RecordLength DEF TypeOK
<1>3. \A type : EventsOf(type)' = EventsOf(type) /\ EventsOf(type) \subseteq 1..Len(events)
  BY <1>1, <1>2 DEF EventsOf
<1>4. Late'
  BY <1>1, <1>2 DEF Late
<1>5. \A type : \A i \in EventsOf(type)' : i < expired' /\ ~(expired' <= i)
  BY <1>1, <1>2, <1>3
<1>6. \A r \in DOMAIN responses' : responses'[r].event < expired'
  BY <1>1, <1>3, <1>5 DEF ResponseInv
<1> QED
  BY <1>4, <1>5, <1>6 DEF ClockInv

(* No step but a request asks the model, and no answer is given late but   *)
(* to a call that was planned in time.                                     *)
LEMMA GivenInTime ==
  ASSUME TypeOK, PhaseInv, [Next]_vars, Late
  PROVE  \A i \in New : events'[i].type = "tool_result" =>
           events'[i].status = "over_budget" \/ events'[i].made \in Planned
<1> DEFINE G == \A i \in New : events'[i].type = "tool_result" =>
                  events'[i].status = "over_budget" \/ events'[i].made \in Planned
<1>0. Mute \/ RefusesLate => G
  BY DEF Mute, RefusesLate
<1>1. ASSUME Waits \/ UNCHANGED vars PROVE G
  BY <1>1, WaitsEffect, QuietStep
<1>2. ASSUME Stops PROVE G
  BY <1>2, StopsEffect, QuietStep DEF Settled
<1>3. ASSUME Start \/ Request \/ AgentReturns \/ Complete \/ OutOfTurns \/ Deliver PROVE G
  BY <1>0, <1>3, SpeaksEffect DEF Start, Request, AgentReturns, Complete, OutOfTurns, Deliver
<1>4. ASSUME Respond PROVE G
  <2>1. PICK calls \in Calls, u \in Usages : Responded(calls, u)
    BY <1>4, RespondEffect
  <2> QED
    BY <2>1 DEF Responded
<1>5. ASSUME Answer PROVE G
  <2>1. PICK i \in todo :
          \/ RefusesLate
          \/ /\ Kind(i) = "declared" /\ ~TooLate(Len(responses))
             /\ \A j \in New : events'[j].type = "tool_result" => events'[j].made = This(i)
    BY <1>5, AnswerEffect
  <2>2. CASE Kind(i) = "declared" /\ ~TooLate(Len(responses))
    <3>1. This(i) \in AllCalls /\ This(i)[1] = Len(responses) /\ Kind(i) = KindOf(This(i))
          /\ Len(responses) \in DOMAIN responses
      BY TodoCalls
    <3>2. responses[Len(responses)].event \in Nat /\ expired \in Nat
      <4>1. responses \in Seq(ResponseType) /\ expired \in Nat
        BY DEF TypeOK
      <4>2. responses[Len(responses)] \in ResponseType
        BY <3>1, <4>1
      <4> QED
        BY <4>1, <4>2 DEF ResponseType
    <3>3. responses[Len(responses)].event < expired
      BY <2>2, <3>2 DEF TooLate
    <3>4. Observed
      BY <3>1 DEF Observed, PhaseInv, TypeOK
    <3>5. This(i) \in Planned
      BY <2>2, <3>1, <3>3, <3>4 DEF Planned
    <3> QED
      BY <1>0, <2>1, <2>2, <3>5
  <2> QED
    BY <1>0, <2>1, <2>2
<1>6. ASSUME AnswerRaises PROVE G
  BY <1>6, AnswerRaisesEffect DEF Answers
<1>7. ASSUME Handoff PROVE G
  BY <1>0, <1>7, HandoffEffect
<1>8. ASSUME AgentCalled PROVE G
  BY <1>0, <1>8, AgentCallEffect
<1>9. ASSUME StageReturns \/ Handle PROVE G
  BY <1>0, <1>9, StageReturnsEffect, HandleEffect
<1>10. ASSUME Close PROVE G
  BY <1>0, <1>10, CloseEffect
<1> QED
  BY <1>1, <1>2, <1>3, <1>4, <1>5, <1>6, <1>7, <1>8, <1>9, <1>10, StepsAre DEF Steps

(* A response that tells its usage late raises.                            *)
LEMMA UsageInTime ==
  ASSUME TypeOK, PhaseInv, Respond, Late
  PROVE  \/ exc' \in {"wall_time", "error"}
         \/ /\ responses'[Len(responses) + 1].usage = Unknown
            /\ DOMAIN responses' = 1..(Len(responses) + 1)
<1>1. PICK calls \in Calls, u \in Usages, planRaises \in BOOLEAN, raises \in Raises :
        Responded(calls, u) /\ Outcome(calls, u, planRaises, raises)
  BY RespondEffect
<1>2. CASE u = Unknown
  BY <1>1, <1>2 DEF Responded
<1>3. CASE u # Unknown
  <2>1. raises = "wall_time"
    BY <1>1, <1>3 DEF Outcome, UsageRaises
  <2> QED
    BY <1>1, <2>1 DEF Outcome, Raise, None
<1> QED
  BY <1>2, <1>3

LEMMA ClockStep ==
  ASSUME TypeOK, PhaseInv, ResponseInv, ClockInv, [Next]_vars
  PROVE  ClockInv'
<1>1. CASE Tick
  BY <1>1, ClockTicks
<1>2. CASE ~Tick
  <2>1. expired' = expired /\ (Late' <=> Late)
    BY <1>2, ClockMoves DEF Late
  <2>2. latency' > WallClock => Late'
    BY <2>1, ClockMoves DEF ClockInv
  <2>3. adapter' = adapter /\ (Observed' <=> Observed)
    BY FixedStays DEF Observed
  <2> SUFFICES ASSUME Late, exc' \notin {"wall_time", "error"}
               PROVE  /\ \A i \in EventsOf("model_request")' : i < expired
                      /\ \A r \in DOMAIN responses' :
                           responses'[r].usage # Unknown => responses'[r].event < expired
                      /\ \A i \in EventsOf("tool_result")' :
                           expired <= i /\ events'[i].status # "over_budget" =>
                             events'[i].made \in Planned'
    BY <2>1, <2>2 DEF ClockInv
  <2>4. exc \notin {"wall_time", "error"}
    BY ExcStays DEF None
  <2>5. Keeps
    <3>1. Respond => Keeps
      BY RespondEffect DEF Responded
    <3> QED
      BY <3>1, Extending DEF Extends
  <2>6. Planned \subseteq Planned'
    <3>1. CASE Respond
      <4>1. PICK calls \in Calls, u \in Usages : Responded(calls, u)
        BY <3>1, RespondEffect
      <4>2. ASSUME NEW c \in Planned PROVE c \in Planned'
        <5>1. c \in AllCalls /\ KindOf(c) = "declared" /\ responses[c[1]].event < expired
          BY <4>2 DEF Planned
        <5>2. c[1] \in DOMAIN responses
          BY <5>1, CallsOfRun
        <5>3. c \in AllCalls' /\ KindOf(c)' = KindOf(c) /\ responses'[c[1]] = responses[c[1]]
          BY <4>1, <5>1, <5>2, RespondedCalls
        <5> QED
          BY <2>1, <2>3, <4>2, <5>1, <5>3 DEF Planned
      <4> QED
        BY <4>2
    <3>2. CASE Extends
      <4>1. responses' = responses
        BY <3>2 DEF Extends
      <4> QED
        BY <2>1, <2>3, <4>1, SameCalls DEF Planned
    <3> QED
      BY <3>1, <3>2, Extending
  <2>7. \A i \in EventsOf("model_request")' : i < expired
    <3>1. ~Request
      BY DEF Request, Raise
    <3>2. \A i \in New : events'[i].type # "model_request"
      <4>1. Respond => \A i \in New : events'[i].type # "model_request"
        BY RespondEffect DEF Responded
      <4> QED
        BY <3>1, <4>1, Spends
    <3>3. EventsOf("model_request")' = EventsOf("model_request")
      BY <2>5, <3>2, KeptOf
    <3> QED
      BY <2>4, <3>3 DEF ClockInv
  <2>8. \A r \in DOMAIN responses' :
          responses'[r].usage # Unknown => responses'[r].event < expired
    <3>1. CASE Respond
      <4>1. PICK calls \in Calls, u \in Usages : Responded(calls, u)
        BY <3>1, RespondEffect
      <4>2. /\ responses'[Len(responses) + 1].usage = Unknown
            /\ DOMAIN responses' = 1..(Len(responses) + 1)
        BY <3>1, UsageInTime
      <4>3. /\ DOMAIN responses = 1..Len(responses) /\ Len(responses) \in Nat
            /\ \A r \in DOMAIN responses : responses'[r] = responses[r]
        BY <4>1, RecordLength DEF Responded, TypeOK
      <4> QED
        BY <2>4, <4>2, <4>3 DEF ClockInv
    <3>2. CASE Extends
      BY <2>4, <3>2 DEF Extends, ClockInv
    <3> QED
      BY <3>1, <3>2, Extending
  <2>9. ASSUME NEW i \in EventsOf("tool_result")', expired <= i, events'[i].status # "over_budget"
        PROVE  events'[i].made \in Planned'
    <3>1. CASE i \in EventsOf("tool_result")
      <4>1. events'[i] = events[i]
        BY <2>5, <3>1 DEF Keeps, EventsOf
      <4> QED
        BY <2>4, <2>6, <2>9, <3>1, <4>1 DEF ClockInv
    <3>2. CASE i \in New /\ events'[i].type = "tool_result"
      BY <2>6, <2>9, <3>2, GivenInTime
    <3> QED
      BY <2>5, <2>9, <3>1, <3>2, KeptOf
  <2> QED
    BY <2>7, <2>8, <2>9
<1> QED
  BY <1>1, <1>2

-----------------------------------------------------------------------------
(* The invariant holds of every run.                                       *)

LEMMA InitRun ==
  ASSUME Init PROVE RunInv
<1>1. DOMAIN events = {} /\ DOMAIN responses = {} /\ responses = <<>>
  BY DEF Init
<1>2. AllCalls = {} /\ \A type : EventsOf(type) = {}
  BY <1>1 DEF AllCalls, EventsOf
<1>3. Attempts(events) = {}
  BY <1>1 DEF Attempts
<1>4. EndInv
  BY DEF Init, EndInv, Closed
<1>5. PairInv /\ ResponseInv /\ AttemptInv /\ HandoffInv /\ IgnoredInv /\ WitnessInv
  BY <1>1, <1>2, <1>3 DEF PairInv, ResponseInv, AttemptInv, HandoffInv, IgnoredInv, WitnessInv
<1>6. KindInv
  BY <1>2 DEF Init, KindInv
<1>7. BudgetInv
  <2>1. CallsUsed = 0 /\ Cardinality(EventsOf("model_request")) = 0
    BY <1>2, <1>3, FS_EmptySet DEF CallsUsed
  <2>2. Sum("tokens") = 0 /\ Sum("cost") = 0
    BY <1>1, SumStarts
  <2> QED
    BY <2>1, <2>2, AdapterAssumption DEF Init, BudgetInv, None
<1>8. ClockInv
  BY AdapterAssumption DEF Init, ClockInv, Late
<1> QED
  BY <1>4, <1>5, <1>6, <1>7, <1>8, InitType, InitPhase, InitStage DEF RunInv

LEMMA StepRun ==
  ASSUME RunInv, [Next]_vars PROVE RunInv'
BY TypeStep, PhaseStep, StageStep, EndStep, PairStepInv, ResponseStep, AttemptStep, HandoffStep,
   IgnoredStep, WitnessStep, KindStep, BudgetStep, ClockStep DEF RunInv

LEMMA RunInvariant == AdapterRunSpec => []RunInv
BY InitRun, StepRun, PTL DEF AdapterRunSpec

(* Every variable stays in its type: no counter leaves its budget, no      *)
(* cursor the record or the responses it points into.                      *)
THEOREM RunTypeCorrect == AdapterRunSpec => []TypeOK
BY RunInvariant, PTL DEF RunInv

-----------------------------------------------------------------------------
(* A completed run, and the budgets of any run.                            *)

LEMMA Whole ==
  ASSUME RunInv PROVE CompletedRunsAreWhole
<1> SUFFICES ASSUME phase = "ended", termination = "completed"
             PROVE  LET undeclared == {c \in Of(Len(responses)) : KindOf(c) = "undeclared"} IN
                    IF output
                    THEN /\ delivered = followups /\ stages = followups + 1
                         /\ Cardinality(EventsOf("user_turn")) = stages
                         /\ \A c \in AllCalls :
                              Cardinality(Witness(c)) = IF Silent(c) THEN 0 ELSE 1
                    ELSE undeclared # {} /\ \A c \in undeclared : Cardinality(Witness(c)) = 1
  BY DEF CompletedRunsAreWhole
<1> USE DEF RunInv
<1>1. ASSUME NEW c \in AllCalls, exc # "error"
      PROVE  Cardinality(Witness(c)) = IF Due(c) THEN 1 ELSE 0
  <2>1. Evidenced(c)
    BY <1>1 DEF WitnessInv
  <2>2. CASE Due(c)
    BY <2>1, <2>2, FS_Singleton DEF Evidenced
  <2>3. CASE ~Due(c)
    BY <2>1, <2>3, FS_EmptySet DEF Evidenced
  <2> QED
    BY <2>2, <2>3
<1>2. CASE output
  <2>1. exc = None /\ delivered = followups
    BY <1>2 DEF EndInv, Closed
  <2>2. stages = followups + 1 /\ Cardinality(EventsOf("user_turn")) = stages
    BY <2>1 DEF StageInv, Turns
  <2>3. todo = {}
    BY <2>1 DEF PhaseInv
  <2>4. ASSUME NEW c \in AllCalls
        PROVE  Cardinality(Witness(c)) = IF Silent(c) THEN 0 ELSE 1
    <3>1. adapter \in {"openai", "pydantic"} /\ KindOf(c) \in CallKinds
      BY CallFacts
    <3>2. ~Open(c)
      BY <2>3 DEF Open
    <3>3. KindOf(c) = "undeclared" => Searched /\ adapter = "pydantic"
      BY <2>1, <3>1 DEF KindInv, Searched, Closed
    <3>4. Due(c) <=> ~Silent(c)
      BY <3>1, <3>2, <3>3 DEF Due, Silent, CallKinds
    <3> QED
      BY <1>1, <2>1, <3>4 DEF None
  <2> QED
    BY <1>2, <2>1, <2>2, <2>4
<1>3. CASE ~output
  <2> DEFINE undeclared == {c \in Of(Len(responses)) : KindOf(c) = "undeclared"}
  <2>1. adapter = "openai" /\ exc = "model_behavior" /\ Undeclared(stageStart) # {}
    BY <1>3 DEF EndInv, Closed
  <2>2. PICK c \in AllCalls : KindOf(c) = "undeclared"
    BY <2>1 DEF Undeclared
  <2>3. c[1] = Len(responses) /\ c \in Of(c[1]) /\ c[1] \in DOMAIN responses
    <3>1. c[1] = Len(responses)
      BY <2>1, <2>2 DEF KindInv
    <3>2. c \in Pairs /\ c[1] \in DOMAIN responses /\ c[2] \in DOMAIN responses[c[1]].calls
      BY CallsOfRun
    <3> QED
      BY <3>1, <3>2, CallFacts DEF Of
  <2>4. c \in undeclared
    BY <2>2, <2>3
  <2>5. ASSUME NEW d \in undeclared
        PROVE  Cardinality(Witness(d)) = 1
    <3>1. d \in AllCalls /\ KindOf(d) = "undeclared"
      BY <2>3 DEF AllCalls
    <3>2. Due(d)
      BY <1>3, <2>1, <3>1 DEF Due, Searched
    <3> QED
      BY <1>1, <2>1, <3>1, <3>2
  <2> QED
    BY <1>3, <2>4, <2>5
<1> QED
  BY <1>2, <1>3

LEMMA BudgetsAgree ==
  ASSUME RunInv PROVE BudgetVerdictsAgree
<1> SUFFICES ASSUME phase = "ended", termination \notin InfraEnds
             PROVE  LET over == Exceeded(Amounts, Limits)
                        refused == \E i \in DOMAIN events : events[i].status = "over_budget"
                    IN  /\ "model_turns" \in over => termination = "max_model_turns"
                        /\ "tool_calls" \in over => refused
                        /\ "tokens" \in over => termination = "token_budget"
                        /\ "cost_usd" \in over => termination \in {"token_budget", "cost_budget"} \/ adapter = "pydantic"
                        /\ "wall_clock_seconds" \in over => NothingGivenLate
                        /\ termination = "token_budget" => "tokens" \in over \/ Amounts.tokens = {}
                        /\ termination = "cost_budget" => "cost_usd" \in over \/ Amounts.cost_usd = {}
                        /\ termination = "max_tool_calls" => "tool_calls" \in over
  BY DEF BudgetVerdictsAgree, Evaluated
<1> DEFINE over == Exceeded(Amounts, Limits)
           requests == Cardinality(EventsOf("model_request"))
<1>1. /\ exc \notin {"error", "wall_time"}
      /\ exc = "model_turns" => termination = "max_model_turns"
      /\ exc = "tokens" <=> termination = "token_budget"
      /\ exc = "cost_usd" <=> termination = "cost_budget"
      /\ exc = "tool_calls" <=> termination = "max_tool_calls"
  BY DEF RunInv, EndInv, Closed
<1>2. /\ \A n : n \in Amounts["model_turns"] => n = IF Observed THEN requests ELSE 0
      /\ Amounts["tool_calls"] = {CallsUsed}
      /\ Amounts["tokens"] = Total("tokens") /\ Amounts["cost_usd"] = Total("cost")
      /\ Amounts.tokens = Total("tokens") /\ Amounts.cost_usd = Total("cost")
      /\ Amounts["wall_clock_seconds"] = {latency}
  <2>1. EventsOf("tool_attempt") = Attempts(events)
    BY DEF EventsOf, Attempts
  <2> QED
    BY <2>1 DEF Amounts, CallsUsed
<1>3. /\ Limits["model_turns"] = MaxTurns /\ Limits["tool_calls"] = MaxToolCalls
      /\ Limits["tokens"] = TokenLimit /\ Limits["cost_usd"] = CostLimit
      /\ Limits["wall_clock_seconds"] = WallClock
      /\ DOMAIN Limits = {"model_turns", "tool_calls", "tokens", "cost_usd", "wall_clock_seconds"}
  BY DEF Limits
<1>4. \A r : r \in over <=> r \in DOMAIN Limits /\ \E n \in Amounts[r] : n > Limits[r]
  BY DEF Exceeded
<1> HIDE DEF over
<1>5. /\ spent.turns \in 0..MaxTurns /\ spent.tokens \in 0..TokenLimit /\ spent.cost \in 0..CostLimit
      /\ MaxTurns \in Nat /\ TokenLimit \in Nat /\ CostLimit \in Nat /\ MaxToolCalls \in Nat
  BY AdapterAssumption DEF RunInv, TypeOK
<1>6. /\ Total("tokens") \subseteq {Sum("tokens")} /\ Total("cost") \subseteq {Sum("cost")}
      /\ adapter = "custom" => Total("cost") = {}
      /\ Total("tokens") = {} \/ Sum("tokens") \in Total("tokens")
      /\ Total("cost") = {} \/ Sum("cost") \in Total("cost")
  BY DEF Total, Observed
<1>7. "model_turns" \in over => termination = "max_model_turns"
  <2> SUFFICES ASSUME "model_turns" \in over, exc # "model_turns" PROVE FALSE
    BY <1>1
  <2>1. requests = spent.turns
    BY <1>1 DEF RunInv, BudgetInv
  <2>2. PICK n \in Amounts["model_turns"] : n > MaxTurns
    BY <1>3, <1>4
  <2>3. n = spent.turns \/ n = 0
    BY <1>2, <2>1
  <2> QED
    BY <1>5, <2>2, <2>3
<1>8. "tool_calls" \in over <=> CallsUsed > MaxToolCalls
  BY <1>2, <1>3, <1>4
<1>9. "tool_calls" \in over => \E i \in DOMAIN events : events[i].status = "over_budget"
  BY <1>1, <1>8 DEF RunInv, BudgetInv
<1>10. termination = "max_tool_calls" => "tool_calls" \in over
  BY <1>1, <1>8 DEF RunInv, BudgetInv
<1>11. "tokens" \in over => termination = "token_budget"
  <2> SUFFICES ASSUME "tokens" \in over, exc # "tokens" PROVE FALSE
    BY <1>1
  <2>1. Sum("tokens") = spent.tokens
    BY <1>1 DEF RunInv, BudgetInv
  <2> QED
    BY <1>2, <1>3, <1>4, <1>5, <1>6, <2>1
<1>12. "cost_usd" \in over => termination \in {"token_budget", "cost_budget"} \/ adapter = "pydantic"
  <2> SUFFICES ASSUME "cost_usd" \in over, exc \notin {"tokens", "cost_usd"}, adapter # "pydantic"
               PROVE  FALSE
    BY <1>1
  <2>1. Total("cost") # {}
    BY <1>2, <1>4
  <2>2. adapter = "openai"
    BY <1>6, <2>1, AdapterAssumption DEF RunInv, TypeOK, AdapterNames
  <2>3. Sum("cost") = spent.cost
    BY <1>1, <2>2 DEF RunInv, BudgetInv
  <2> QED
    BY <1>2, <1>3, <1>4, <1>5, <1>6, <2>3
<1>13. termination = "token_budget" => "tokens" \in over \/ Amounts.tokens = {}
  <2> SUFFICES ASSUME exc = "tokens", Total("tokens") # {} PROVE "tokens" \in over
    BY <1>1, <1>2
  <2>1. Sum("tokens") > TokenLimit
    BY DEF RunInv, BudgetInv
  <2> QED
    BY <1>2, <1>3, <1>4, <1>6, <2>1
<1>14. termination = "cost_budget" => "cost_usd" \in over \/ Amounts.cost_usd = {}
  <2> SUFFICES ASSUME exc = "cost_usd", Total("cost") # {} PROVE "cost_usd" \in over
    BY <1>1, <1>2
  <2>1. Sum("cost") > CostLimit
    BY DEF RunInv, BudgetInv
  <2> QED
    BY <1>2, <1>3, <1>4, <1>6, <2>1
<1>15. "wall_clock_seconds" \in over => NothingGivenLate
  <2> SUFFICES ASSUME latency > WallClock PROVE NothingGivenLate
    BY <1>2, <1>3, <1>4
  <2>1. Late
    BY DEF RunInv, ClockInv
  <2>2. /\ \A i \in EventsOf("model_request") : i < expired
        /\ \A r \in DOMAIN responses :
             responses[r].usage # Unknown => responses[r].event < expired
        /\ \A i \in EventsOf("tool_result") :
             expired <= i /\ events[i].status # "over_budget" => events[i].made \in Planned
    BY <1>1, <2>1 DEF RunInv, ClockInv
  <2> QED
    BY <2>2 DEF NothingGivenLate, Planned
<1> QED
  BY <1>7, <1>9, <1>10, <1>11, <1>12, <1>13, <1>14, <1>15 DEF over

-----------------------------------------------------------------------------
(* What the evaluator reads off the record of an observed run.             *)

Judgeable == RunInv /\ Evaluated
Source(c) == responses[c[1]].event

LEMMA JudgedRuns ==
  ASSUME Judgeable
  PROVE  exc # "error" /\ phase = "ended" /\ TypeOK /\ PhaseInv
BY DEF Judgeable, Evaluated, RunInv, EndInv, Closed

(* The responses of a record come in their order.                          *)
LEMMA Responses ==
  ASSUME Judgeable, NEW r \in DOMAIN responses
  PROVE  /\ r \in Nat /\ r > 0 /\ responses[r].event \in Nat /\ responses[r].event > 0
         /\ responses[r].event \in DOMAIN events
         /\ events[responses[r].event].type = "model_response"
         /\ \A s \in DOMAIN responses : /\ r < s => responses[r].event < responses[s].event
                                        /\ r <= s => responses[r].event <= responses[s].event
                                        /\ responses[r].event = responses[s].event <=> r = s
         /\ \A s \in DOMAIN responses : r < s => r + 1 \in DOMAIN responses /\ r + 1 <= s
<1>1. ASSUME NEW s \in DOMAIN responses
      PROVE  /\ s \in Nat /\ s > 0 /\ responses[s].event \in DOMAIN events
             /\ responses[s].event \in Nat /\ responses[s].event > 0
             /\ events[responses[s].event].type = "model_response"
  BY RecordLength DEF Judgeable, RunInv, ResponseInv, EventsOf
<1>2. ASSUME NEW s \in DOMAIN responses
      PROVE  /\ r < s => responses[r].event < responses[s].event
             /\ s < r => responses[s].event < responses[r].event
  BY DEF Judgeable, RunInv, ResponseInv
<1>3. \A s \in DOMAIN responses : r < s => r + 1 \in DOMAIN responses /\ r + 1 <= s
  BY RecordLength DEF Judgeable, RunInv
<1> QED
  BY <1>1, <1>2, <1>3

(* An attempt of a declared tool: the call it records, the response that   *)
(* decided it and the answer it got.                                       *)
LEMMA AttemptFacts ==
  ASSUME Judgeable, Observed, NEW t \in Tools, NEW i \in AttemptsOf(events, t),
         NEW c, c = events[i].made
  PROVE  /\ i \in Nat /\ i \in DOMAIN events /\ events[i].type = "tool_attempt" /\ events[i].tool = t
         /\ c \in Made(t) /\ c \in AllCalls /\ c[1] \in DOMAIN responses
         /\ events[i].args = CallAt(c).args /\ CallAt(c).tool = t
         /\ KindOf(c) # "handoff"
         /\ Within(i, c[1]) /\ Staged(i, c[1]) /\ Witness(c) = {i}
         /\ Launch(events, i) = Source(c) /\ Launch(events, i) # Unplaced
         /\ Results(events, i) = {i + 1}
<1>1. /\ i \in DOMAIN events /\ i \in Nat /\ events[i].type = "tool_attempt" /\ events[i].tool = t
      /\ i \in Attempts(events)
  BY JudgedRuns, RecordLength DEF AttemptsOf, Attempts
<1>2. Tried(i)
  BY <1>1 DEF Judgeable, RunInv, AttemptInv, Observed
<1>3. /\ c \in AllCalls /\ CallAt(c).tool = t /\ events[i].args = CallAt(c).args
      /\ KindOf(c) # "handoff"
      /\ Placed(c) => events[i].of = Source(c) /\ Within(i, c[1]) /\ Staged(i, c[1])
  BY <1>1, <1>2 DEF Tried, Told, Source
<1>4. \A d \in AllCalls : /\ d[1] \in DOMAIN responses /\ responses[d[1]].calls \in Calls
                          /\ d[2] \in DOMAIN responses[d[1]].calls
  BY JudgedRuns, CallsOfRun, RecordLength, SMTT(60) DEF ResponseType
<1>5. Placed(c)
  <2>1. PICK d \in AllCalls : KindOf(d) = "declared" /\ CallAt(d).tool = t
    BY DEF Tools
  <2>2. adapter = "pydantic" => KindOf(c) # "undeclared"
    BY <1>3, <2>1 DEF Judgeable, RunInv, KindInv
  <2> QED
    BY <2>2, JudgedRuns, AdapterAssumption DEF Placed, Observed, TypeOK, AdapterNames
<1>6. i \in Witness(c)
  BY <1>1 DEF Witness
<1>7. Witness(c) = {i}
  <2>1. Evidenced(c)
    BY <1>3, JudgedRuns DEF Judgeable, RunInv, WitnessInv
  <2> QED
    BY <1>6, <2>1 DEF Evidenced
<1>8. c \in Made(t)
  BY <1>1, <1>3, <1>6 DEF Made
<1>9. Launch(events, i) = Source(c) /\ Launch(events, i) # Unplaced
  <2>1. /\ Source(c) \in DOMAIN events /\ events[Source(c)].type = "model_response"
        /\ Source(c) # 0
    BY <1>3, <1>4, Responses DEF Source
  <2> QED
    BY <1>3, <1>5, <2>1 DEF Launch, Unplaced
<1>10. Results(events, i) = {i + 1}
  <2>1. /\ i + 1 \in DOMAIN events /\ events[i + 1].type \in {"tool_result", "error"}
        /\ events[i + 1].type = "error" => exc = "error"
        /\ events[i + 1].of = i
    BY <1>1 DEF Judgeable, RunInv, PairInv
  <2>2. i + 1 \in Results(events, i)
    BY <2>1, JudgedRuns DEF Results
  <2>3. ASSUME NEW j \in Results(events, i) PROVE j = i + 1
    <3>1. j \in EventsOf("tool_result") /\ j \in Nat /\ events[j].of = i
      BY JudgedRuns, RecordLength DEF Results, EventsOf
    <3>2. events[j].of = j - 1
      BY <3>1 DEF Judgeable, RunInv, PairInv
    <3> QED
      BY <3>1, <3>2
  <2> QED
    BY <2>2, <2>3
<1> QED
  BY <1>1, <1>3, <1>4, <1>5, <1>7, <1>8, <1>9, <1>10

(* Every call made of a tool is one of its attempts.                       *)
LEMMA MadeAttempts ==
  ASSUME Judgeable, Observed, NEW t \in Tools, NEW c \in Made(t)
  PROVE  \E i \in AttemptsOf(events, t) : events[i].made = c
<1>1. PICK i \in Witness(c) : events[i].type = "tool_attempt"
  BY DEF Made
<1>2. i \in Attempts(events) /\ events[i].made = c
  BY <1>1 DEF Witness, Attempts
<1>3. Tried(i)
  BY <1>2 DEF Judgeable, RunInv, AttemptInv, Observed
<1>4. events[i].tool = t
  BY <1>2, <1>3 DEF Tried, Told, Made
<1> QED
  BY <1>2, <1>4 DEF AttemptsOf

(* What was known when a call was decided is what was recorded before its  *)
(* response.                                                               *)
LEMMA AttemptOrder ==
  ASSUME Judgeable, Observed, NEW t \in Tools, NEW b \in Tools,
         NEW j \in AttemptsOf(events, t), NEW i \in AttemptsOf(events, b),
         NEW c, c = events[j].made, NEW d, d = events[i].made
  PROVE  /\ i = j <=> c = d
         /\ d[1] < c[1] <=> i + 1 < Launch(events, j)
         /\ d[1] < c[1] => i < j
         /\ d[1] = c[1] <=> Launch(events, i) = Launch(events, j)
         /\ d[1] \in Nat /\ c[1] \in Nat /\ i \in Nat /\ j \in Nat
<1>1. /\ j \in Nat /\ c[1] \in DOMAIN responses /\ Within(j, c[1]) /\ Witness(c) = {j}
      /\ Launch(events, j) = Source(c)
  BY AttemptFacts
<1>2. /\ i \in Nat /\ d[1] \in DOMAIN responses /\ Within(i, d[1]) /\ Witness(d) = {i}
      /\ Launch(events, i) = Source(d) /\ Results(events, i) = {i + 1}
  BY AttemptFacts
<1>3. /\ c[1] \in Nat /\ Source(c) \in Nat /\ events[Source(c)].type = "model_response"
      /\ d[1] \in Nat /\ Source(d) \in Nat
      /\ d[1] = c[1] <=> Source(d) = Source(c)
      /\ c[1] <= d[1] => Source(c) <= Source(d)
      /\ d[1] < c[1] => /\ d[1] + 1 \in DOMAIN responses
                        /\ responses[d[1] + 1].event <= Source(c)
                        /\ responses[d[1] + 1].event \in Nat
  <2>1. d[1] < c[1] => /\ d[1] + 1 \in DOMAIN responses /\ d[1] + 1 <= c[1]
    BY <1>1, <1>2, Responses
  <2>2. d[1] < c[1] => /\ responses[d[1] + 1].event <= Source(c)
                       /\ responses[d[1] + 1].event \in Nat
    BY <1>1, <2>1, Responses DEF Source
  <2> QED
    BY <1>1, <1>2, <2>1, <2>2, Responses DEF Source
<1>4. i + 1 # Source(c)
  BY <1>2, <1>3 DEF Results
<1>5. d[1] < c[1] => i < Source(c)
  BY <1>2, <1>3 DEF Within
<1>6. Source(c) < j /\ Source(d) < i
  BY <1>1, <1>2 DEF Within, Source
<1>7. i = j <=> c = d
  BY <1>1, <1>2
<1>8. d[1] < c[1] <=> i + 1 < Source(c)
  <2>1. ~(d[1] < c[1]) => Source(c) <= Source(d)
    BY <1>3
  <2> QED
    BY <1>2, <1>3, <1>4, <1>5, <1>6, <2>1, SMTT(60)
<1>9. d[1] < c[1] => i < j
  BY <1>1, <1>2, <1>3, <1>5, <1>6, SMTT(60)
<1> QED
  BY <1>1, <1>2, <1>3, <1>7, <1>8, <1>9

(* A call repeats one that was attempted before it.                        *)
LEMMA Earlier ==
  ASSUME Judgeable, Observed, NEW t \in Tools, NEW j \in AttemptsOf(events, t),
         NEW c, c = events[j].made
  PROVE  \A i : i \in EarlierSame(events, j) <=>
           /\ i \in AttemptsOf(events, t) /\ i < j
           /\ \A d : d = events[i].made => Alike(c, d)
<1> SUFFICES ASSUME NEW i
             PROVE  i \in EarlierSame(events, j) <=>
                      /\ i \in AttemptsOf(events, t) /\ i < j
                      /\ \A d : d = events[i].made => Alike(c, d)
  OBVIOUS
<1>1. events[j].tool = t /\ events[j].args = CallAt(c).args /\ CallAt(c).tool = t
  BY AttemptFacts
<1>2. i \in EarlierSame(events, j) <=>
        i \in AttemptsOf(events, t) /\ i < j /\ events[i].args = events[j].args
  BY <1>1 DEF EarlierSame, SameCall, AttemptsOf
<1>3. ASSUME i \in AttemptsOf(events, t), NEW d, d = events[i].made
      PROVE  Alike(c, d) <=> events[i].args = events[j].args
  BY <1>1, <1>3, AttemptFacts DEF Alike
<1> QED
  BY <1>2, <1>3

(* A retry is found, and nothing else is taken for one.                    *)
LEMMA Retried ==
  ASSUME RunInv PROVE RetriesAreFound
<1> SUFFICES ASSUME Evaluated, Observed, NEW t \in Tools
             PROVE  LET unknown(c) == \E i \in Witness(c) : Ambiguous(events, i)
                        failed == NoRetryAfterAmbiguousTimeout(events, t) = "FAIL"
                    IN  /\ (\E c, d \in Made(t) : Alike(c, d) /\ unknown(c) /\ c[1] < d[1]) => failed
                        /\ failed => \E c, d \in Made(t) :
                             c # d /\ Alike(c, d) /\ unknown(c) /\ c[1] <= d[1]
                        /\ NoRetryAfterAmbiguousTimeout(events, t) # "INCONCLUSIVE"
  BY DEF RetriesAreFound
<1> DEFINE A == AttemptsOf(events, t)
           unknown(c) == \E i \in Witness(c) : Ambiguous(events, i)
           failed == NoRetryAfterAmbiguousTimeout(events, t) = "FAIL"
           none == {j \in A : \E i \in EarlierSame(events, j) : Results(events, i) = {}}
<1>1. Judgeable
  BY DEF Judgeable
<1>2. none = {}
  <2> SUFFICES ASSUME NEW j \in A, NEW i \in EarlierSame(events, j) PROVE Results(events, i) # {}
    OBVIOUS
  <2>1. i \in A
    BY <1>1, Earlier
  <2> QED
    BY <1>1, <2>1, AttemptFacts
<1>3. NoRetryAfterAmbiguousTimeout(events, t) = IF Retries(events, t) # {} THEN "FAIL" ELSE "PASS"
  BY <1>2 DEF NoRetryAfterAmbiguousTimeout, Judged
<1>4. ASSUME NEW c \in Made(t), NEW d \in Made(t), Alike(c, d), unknown(c), c[1] < d[1]
      PROVE  failed
  <2>1. PICK i \in A : events[i].made = c
    BY <1>1, MadeAttempts
  <2>2. PICK j \in A : events[j].made = d
    BY <1>1, MadeAttempts
  <2>3. i < j
    BY <1>1, <1>4, <2>1, <2>2, AttemptOrder
  <2>4. i \in EarlierSame(events, j)
    <3>1. Alike(d, c)
      BY <1>4 DEF Alike
    <3> QED
      BY <1>1, <2>1, <2>2, <2>3, <3>1, Earlier
  <2>5. Ambiguous(events, i)
    BY <1>1, <1>4, <2>1, AttemptFacts
  <2> QED
    BY <1>3, <2>4, <2>5 DEF Retries
<1>5. ASSUME failed
      PROVE  \E c, d \in Made(t) : c # d /\ Alike(c, d) /\ unknown(c) /\ c[1] <= d[1]
  <2>1. PICK j \in A : \E i \in EarlierSame(events, j) : Ambiguous(events, i)
    BY <1>3, <1>5 DEF Retries
  <2>2. PICK i \in EarlierSame(events, j) : Ambiguous(events, i)
    BY <2>1
  <2>3. PICK c, d : c = events[i].made /\ d = events[j].made
    OBVIOUS
  <2>4. i \in A /\ i < j /\ Alike(d, c)
    BY <1>1, <2>2, <2>3, Earlier
  <2>5. c \in Made(t) /\ d \in Made(t) /\ Witness(c) = {i}
    BY <1>1, <2>3, <2>4, AttemptFacts
  <2>6. c # d /\ c[1] <= d[1]
    <3>1. /\ i = j <=> c = d
          /\ c[1] \in Nat /\ d[1] \in Nat /\ i \in Nat /\ j \in Nat
      BY <1>1, <2>3, <2>4, AttemptOrder
    <3>2. d[1] < c[1] => j < i
      BY <1>1, <2>3, <2>4, AttemptOrder
    <3> QED
      BY <2>4, <3>1, <3>2
  <2>7. Alike(c, d) /\ unknown(c)
    BY <2>2, <2>4, <2>5 DEF Alike
  <2> QED
    BY <2>5, <2>6, <2>7
<1> QED
  BY <1>3, <1>4, <1>5

LEMMA SameStageTrue ==
  ASSUME Judgeable, Observed, NEW t \in Tools
  PROVE  NoSameStageDuplicateAction(events, t) =
           IF \E c, d \in Made(t) : c # d /\ c[1] = d[1] /\ Alike(c, d) THEN "FAIL" ELSE "PASS"
<1> DEFINE A == AttemptsOf(events, t)
           relations(j) == {SameLaunchGroup(events, i, j) : i \in EarlierSame(events, j)}
           same == {j \in A : "yes" \in relations(j)}
           unknown == {j \in A : "unknown" \in relations(j)}
<1>1. ASSUME NEW j \in A, NEW i \in EarlierSame(events, j), NEW c, c = events[j].made,
             NEW d, d = events[i].made
      PROVE  SameLaunchGroup(events, i, j) = IF d[1] = c[1] THEN "yes" ELSE "no"
  <2>1. i \in A
    BY Earlier
  <2>2. Launch(events, i) # Unplaced /\ Launch(events, j) # Unplaced
    BY <2>1, AttemptFacts
  <2>3. d[1] = c[1] <=> Launch(events, i) = Launch(events, j)
    BY <1>1, <2>1, AttemptOrder
  <2> QED
    BY <2>2, <2>3 DEF SameLaunchGroup, YesNo
<1>2. unknown = {}
  BY <1>1
<1>3. NoSameStageDuplicateAction(events, t) = IF same # {} THEN "FAIL" ELSE "PASS"
  BY <1>2 DEF NoSameStageDuplicateAction, Judged
<1>4. ASSUME NEW j \in same
      PROVE  \E c, d \in Made(t) : c # d /\ c[1] = d[1] /\ Alike(c, d)
  <2>1. PICK i \in EarlierSame(events, j) : SameLaunchGroup(events, i, j) = "yes"
    OBVIOUS
  <2>2. PICK c, d : c = events[j].made /\ d = events[i].made
    OBVIOUS
  <2>3. j \in A /\ i \in A /\ i < j /\ Alike(c, d)
    BY <2>2, Earlier
  <2>4. c[1] = d[1]
    BY <1>1, <2>1, <2>2, <2>3
  <2>5. c \in Made(t) /\ d \in Made(t)
    BY <2>2, <2>3, AttemptFacts
  <2>6. c # d
    <3>1. (i = j <=> c = d) /\ i \in Nat
      BY <2>2, <2>3, AttemptOrder
    <3> QED
      BY <2>3, <3>1
  <2> QED
    BY <2>3, <2>4, <2>5, <2>6
<1>5. ASSUME NEW c \in Made(t), NEW d \in Made(t), c # d, c[1] = d[1], Alike(c, d)
      PROVE  same # {}
  <2>1. PICK i \in A : events[i].made = d
    BY MadeAttempts
  <2>2. PICK j \in A : events[j].made = c
    BY MadeAttempts
  <2>3. i # j /\ i \in Nat /\ j \in Nat
    BY <1>5, <2>1, <2>2, AttemptOrder
  <2>4. CASE i < j
    <3>1. i \in EarlierSame(events, j)
      BY <1>5, <2>1, <2>2, <2>4, Earlier
    <3>2. SameLaunchGroup(events, i, j) = "yes"
      BY <1>1, <1>5, <2>1, <2>2, <3>1
    <3> QED
      BY <3>1, <3>2
  <2>5. CASE j < i
    <3>1. Alike(d, c)
      BY <1>5 DEF Alike
    <3>2. j \in EarlierSame(events, i)
      BY <2>1, <2>2, <2>5, <3>1, Earlier
    <3>3. SameLaunchGroup(events, j, i) = "yes"
      BY <1>1, <1>5, <2>1, <2>2, <3>2
    <3> QED
      BY <3>2, <3>3
  <2> QED
    BY <2>3, <2>4, <2>5
<1> HIDE DEF same
<1> QED
  BY <1>3, <1>4, <1>5

LEMMA OrderingTrue ==
  ASSUME Judgeable, Observed, NEW t \in Tools, NEW b \in Tools
  PROVE  Ordering(events, t, b) =
           IF \A c \in Made(t) : \/ \E d \in Made(b) : d[1] < c[1]
                                 \/ b = t /\ Made(t) = {c}
           THEN "PASS" ELSE "FAIL"
<1> DEFINE A == AttemptsOf(events, t)
           others(j) == AttemptsOf(events, b) \ {j}
           relations(j) == {ObservedBefore(events, i, j) : i \in others(j)}
           open == {j \in A : others(j) # {} /\ "yes" \notin relations(j)}
           lone == {j \in A : others(j) = {} /\ b # t}
           good(c) == \/ \E d \in Made(b) : d[1] < c[1]
                      \/ b = t /\ Made(t) = {c}
<1>1. ASSUME NEW j \in A, NEW i \in AttemptsOf(events, b), NEW c, c = events[j].made,
             NEW d, d = events[i].made
      PROVE  ObservedBefore(events, i, j) = IF d[1] < c[1] THEN "yes" ELSE "no"
  <2>1. Results(events, i) = {i + 1} /\ Launch(events, j) # Unplaced
    BY <1>1, AttemptFacts
  <2>2. d[1] < c[1] <=> i + 1 < Launch(events, j)
    BY <1>1, AttemptOrder
  <2> QED
    BY <2>1, <2>2 DEF ObservedBefore, YesNo
<1>2. {j \in open : "unknown" \notin relations(j)} = open
  BY <1>1
<1>3. Ordering(events, t, b) = IF open \cup lone # {} THEN "FAIL" ELSE "PASS"
  <2>1. Ordering(events, t, b) =
          Judged({j \in open : "unknown" \notin relations(j)} \cup lone, open)
    BY DEF Ordering
  <2>2. Ordering(events, t, b) = Judged(open \cup lone, open)
    BY <1>2, <2>1
  <2> HIDE DEF open, lone
  <2> QED
    BY <2>2 DEF Judged
<1>4. ASSUME NEW j \in A, NEW c, c = events[j].made
      PROVE  j \notin open \cup lone <=> good(c)
  <2>1. c \in Made(t)
    BY <1>4, AttemptFacts
  <2>2. ASSUME NEW d \in Made(b), d[1] < c[1] PROVE j \notin open \cup lone
    <3>1. PICK i \in AttemptsOf(events, b) : events[i].made = d
      BY MadeAttempts
    <3>2. ObservedBefore(events, i, j) = "yes"
      BY <1>1, <1>4, <2>2, <3>1
    <3>3. i < j /\ i \in Nat
      BY <1>4, <2>2, <3>1, AttemptOrder
    <3>4. i \in others(j)
      BY <3>1, <3>3
    <3> QED
      BY <3>2, <3>4
  <2>3. ASSUME b = t, Made(t) = {c} PROVE j \notin open \cup lone
    <3>1. \A i \in A : i = j
      BY <1>4, <2>3, AttemptFacts, AttemptOrder
    <3> QED
      BY <2>3, <3>1
  <2>4. ASSUME j \notin open \cup lone PROVE good(c)
    <3>1. CASE others(j) = {}
      <4>1. b = t
        BY <2>4, <3>1
      <4>2. ASSUME NEW d \in Made(t) PROVE d = c
        <5>1. PICK i \in A : events[i].made = d
          BY MadeAttempts
        <5>2. i = j
          BY <3>1, <4>1, <5>1
        <5> QED
          BY <1>4, <5>1, <5>2
      <4> QED
        BY <2>1, <4>1, <4>2
    <3>2. CASE others(j) # {}
      <4>1. PICK i \in others(j) : ObservedBefore(events, i, j) = "yes"
        BY <2>4, <3>2
      <4>2. PICK d : d = events[i].made
        OBVIOUS
      <4>3. d[1] < c[1]
        BY <1>1, <1>4, <4>1, <4>2
      <4>4. d \in Made(b)
        BY <4>1, <4>2, AttemptFacts
      <4> QED
        BY <4>3, <4>4
    <3> QED
      BY <3>1, <3>2
  <2> QED
    BY <2>2, <2>3, <2>4
<1>5. open \cup lone = {} <=> \A c \in Made(t) : good(c)
  <2>1. open \cup lone \subseteq A
    OBVIOUS
  <2> HIDE DEF open, lone, good
  <2>2. ASSUME open \cup lone = {}, NEW c \in Made(t) PROVE good(c)
    <3>1. PICK j \in A : events[j].made = c
      BY MadeAttempts
    <3> QED
      BY <1>4, <2>2, <3>1
  <2>3. ASSUME \A c \in Made(t) : good(c), NEW j \in open \cup lone PROVE FALSE
    <3>1. j \in A
      BY <2>1
    <3>2. PICK c : c = events[j].made
      OBVIOUS
    <3>3. c \in Made(t)
      BY <3>1, <3>2, AttemptFacts
    <3> QED
      BY <1>4, <2>3, <3>1, <3>2, <3>3
  <2> QED
    BY <2>2, <2>3
<1> HIDE DEF open, lone
<1> QED
  BY <1>3, <1>5

(* A response with a handoff before the last one had its handoff followed. *)
LEMMA HandoffFollowed ==
  ASSUME Judgeable, Observed, NEW r \in DOMAIN responses, r < Len(responses), Handoffs(r) # {}
  PROVE  \E i \in EventsOf("handoff") : events[i].made[1] = r /\ Within(i, r)
<1> DEFINE Is == {n \in Nat : <<r, n>> \in Handoffs(r)}
<1>1. \A c \in Handoffs(r) : /\ c \in AllCalls /\ c = <<r, c[2]>> /\ c[2] \in Nat /\ c[1] = r
                             /\ KindOf(c) = "handoff"
  <2> SUFFICES ASSUME NEW c \in Handoffs(r)
               PROVE  /\ c \in AllCalls /\ c = <<r, c[2]>> /\ c[2] \in Nat /\ c[1] = r
                      /\ KindOf(c) = "handoff"
    OBVIOUS
  <2>1. c \in Of(r) /\ KindOf(c) = "handoff"
    BY DEF Handoffs
  <2>2. c \in AllCalls
    BY <2>1 DEF AllCalls
  <2>3. c = <<r, c[2]>> /\ c[1] = r
    BY <2>1 DEF Of
  <2> QED
    BY <2>1, <2>2, <2>3, JudgedRuns, CallFacts
<1>2. PICK n \in Is : \A m \in Is : n <= m
  <2>1. Is \in SUBSET Nat /\ Is # {}
    BY <1>1
  <2> HIDE DEF Is
  <2> QED
    BY <2>1, LeastNumber
<1>3. PICK c \in Handoffs(r) : c = <<r, n>>
  BY <1>2
<1>4. First(c)
  BY <1>1, <1>2, <1>3 DEF First
<1>5. Due(c)
  <2>1. r # Len(responses)
    BY JudgedRuns, RecordLength
  <2> QED
    BY <1>1, <1>4, <2>1 DEF Due, Open
<1>6. Evidenced(c)
  BY <1>1, JudgedRuns DEF Judgeable, RunInv, WitnessInv
<1>7. PICK i \in DOMAIN events : i \in Witness(c)
  BY <1>5, <1>6 DEF Evidenced
<1>8. /\ events[i].made = c
      /\ \/ events[i].type = "tool_attempt" \/ events[i].type = "handoff"
         \/ events[i].type = "ignored_handoff"
  BY <1>7 DEF Witness
<1>9. events[i].type # "tool_attempt"
  <2> SUFFICES ASSUME events[i].type = "tool_attempt" PROVE FALSE
    OBVIOUS
  <2>1. Tried(i)
    BY DEF Attempts, Judgeable, RunInv, AttemptInv, Observed
  <2> QED
    BY <1>1, <1>8, <2>1 DEF Tried
<1>10. events[i].type # "ignored_handoff"
  BY <1>4, <1>8 DEF EventsOf, Judgeable, RunInv, IgnoredInv
<1>11. i \in EventsOf("handoff")
  BY <1>8, <1>9, <1>10 DEF EventsOf
<1>12. Within(i, c[1])
  BY <1>8, <1>11 DEF Judgeable, RunInv, HandoffInv
<1> QED
  BY <1>1, <1>8, <1>11, <1>12

LEMMA HandoffTrue ==
  ASSUME Judgeable, Observed, NEW t \in Tools
  PROVE  HandoffBeforeTool(events, t) = "PASS" <=>
           \A c \in Made(t) : \E r \in 1..(c[1] - 1) : Handoffs(r) # {}
<1> DEFINE A == AttemptsOf(events, t)
           bad == {j \in A : \A i \in DOMAIN events : events[i].type = "handoff" => j < i}
<1>1. HandoffBeforeTool(events, t) = "PASS" <=> bad = {}
  BY DEF HandoffBeforeTool, Judged
<1>2. ASSUME NEW j \in A, NEW c, c = events[j].made
      PROVE  j \notin bad <=> \E r \in 1..(c[1] - 1) : Handoffs(r) # {}
  <2>1. /\ j \in Nat /\ j \in Attempts(events) /\ c[1] \in DOMAIN responses /\ Within(j, c[1])
        /\ events[j].type = "tool_attempt"
    BY <1>2, AttemptFacts DEF AttemptsOf
  <2>2. c[1] \in Nat /\ c[1] <= Len(responses) /\ Len(responses) \in Nat
    BY <2>1, JudgedRuns, RecordLength
  <2>3. ASSUME NEW r \in 1..(c[1] - 1), Handoffs(r) # {}
        PROVE  j \notin bad
    <3>1. r \in DOMAIN responses /\ r < Len(responses) /\ r < c[1]
      BY <2>2, <2>3, JudgedRuns, RecordLength
    <3>2. PICK i \in EventsOf("handoff") : Within(i, r)
      BY <2>3, <3>1, HandoffFollowed
    <3>3. i \in Nat /\ i \in DOMAIN events /\ events[i].type = "handoff"
      BY JudgedRuns, RecordLength DEF EventsOf
    <3>4. /\ r + 1 \in DOMAIN responses /\ responses[r + 1].event <= responses[c[1]].event
          /\ responses[r + 1].event \in Nat /\ responses[c[1]].event \in Nat
      <4>1. r + 1 \in DOMAIN responses /\ r + 1 <= c[1]
        BY <2>1, <3>1, Responses
      <4> QED
        BY <2>1, <4>1, Responses
    <3>5. i < responses[r + 1].event /\ responses[c[1]].event < j
      BY <2>1, <3>2, <3>4 DEF Within
    <3>6. ~(j < i)
      BY <2>1, <3>3, <3>4, <3>5
    <3> QED
      BY <3>3, <3>6
  <2>4. ASSUME j \notin bad
        PROVE  \E r \in 1..(c[1] - 1) : Handoffs(r) # {}
    <3>1. PICK i \in EventsOf("handoff") : ~(j < i)
      BY <2>4 DEF EventsOf
    <3>2. PICK h : h = events[i].made
      OBVIOUS
    <3>3. i \in Nat /\ i \in DOMAIN events
      BY JudgedRuns, RecordLength DEF EventsOf
    <3>4. /\ h \in AllCalls /\ KindOf(h) = "handoff" /\ Within(i, h[1])
          /\ \A k \in Attempts(events) : events[k].made[1] = h[1] => k < i
      BY <3>2 DEF Judgeable, RunInv, HandoffInv, Told
    <3>5. /\ h[1] \in DOMAIN responses /\ h \in Of(h[1])
      BY <3>4, JudgedRuns, CallsOfRun, CallFacts DEF Of
    <3>6. h[1] # c[1]
      BY <1>2, <2>1, <3>1, <3>4
    <3>7. h[1] < c[1]
      <4> SUFFICES ASSUME c[1] < h[1] PROVE FALSE
        BY <2>2, <3>5, <3>6, Responses
      <4>1. c[1] + 1 \in DOMAIN responses /\ c[1] + 1 <= h[1]
        BY <2>1, <3>5, Responses
      <4>2. /\ responses[c[1] + 1].event <= responses[h[1]].event
            /\ responses[c[1] + 1].event \in Nat /\ responses[h[1]].event \in Nat
        BY <3>5, <4>1, Responses
      <4>3. j < responses[c[1] + 1].event /\ responses[h[1]].event < i
        BY <2>1, <3>4, <4>1 DEF Within
      <4> QED
        BY <2>1, <3>1, <3>3, <4>2, <4>3
    <3>8. h[1] \in 1..(c[1] - 1)
      BY <2>2, <3>5, <3>7, JudgedRuns, RecordLength
    <3>9. h \in Handoffs(h[1])
      BY <3>4, <3>5 DEF Handoffs
    <3> QED
      BY <3>8, <3>9
  <2> QED
    BY <2>3, <2>4
<1> HIDE DEF bad
<1>3. ASSUME bad = {}, NEW c \in Made(t)
      PROVE  \E r \in 1..(c[1] - 1) : Handoffs(r) # {}
  <2>1. PICK j \in A : events[j].made = c
    BY MadeAttempts
  <2> QED
    BY <1>2, <1>3, <2>1
<1>4. ASSUME \A c \in Made(t) : \E r \in 1..(c[1] - 1) : Handoffs(r) # {}, NEW j \in bad
      PROVE  FALSE
  <2>1. j \in A
    BY DEF bad
  <2>2. PICK c : c = events[j].made
    OBVIOUS
  <2>3. c \in Made(t)
    BY <2>1, <2>2, AttemptFacts
  <2> QED
    BY <1>2, <1>4, <2>1, <2>2, <2>3
<1> QED
  BY <1>1, <1>3, <1>4

LEMMA ConfirmationTrue ==
  ASSUME Judgeable, Observed, NEW t \in Tools, NEW n \in 1..(followups + 1)
  PROVE  ConfirmationBeforeTool(events, termination, t, "established", n) = "FAIL" <=>
           \E c \in Made(t) : responses[c[1]].stage < n
<1> DEFINE A == AttemptsOf(events, t)
<1>1. ConfirmationBeforeTool(events, termination, t, "established", n) = "FAIL" <=>
        \E j \in A : \A i \in Delivery(events, n) : ~(i < j)
  BY DEF ConfirmationBeforeTool, Confirmed
<1>2. ASSUME NEW j \in A, NEW c, c = events[j].made
      PROVE  (\A i \in Delivery(events, n) : ~(i < j)) <=> responses[c[1]].stage < n
  <2>1. c[1] \in DOMAIN responses /\ Staged(j, c[1])
    BY <1>2, AttemptFacts
  <2>2. /\ responses[c[1]].stage \in Nat /\ responses[c[1]].stage <= stages
        /\ stages = Turns /\ stages \in Nat /\ n \in Nat
    <3>1. responses[c[1]].stage \in Nat
      BY <2>1, JudgedRuns, RecordLength DEF ResponseType
    <3>2. delivered \in Nat /\ n \in Nat
      BY JudgedRuns, AdapterAssumption DEF TypeOK
    <3>3. stages = delivered + 1 /\ Turns = delivered + 1
      BY JudgedRuns DEF Judgeable, RunInv, StageInv, Turns
    <3>4. responses[c[1]].stage <= stages
      BY <2>1 DEF Judgeable, RunInv, StageInv
    <3> QED
      BY <3>1, <3>2, <3>3, <3>4
  <2>3. \A i \in Delivery(events, n) : i < j <=> n <= responses[c[1]].stage
    BY <2>1 DEF Staged, Delivery
  <2>4. Delivery(events, n) = {} => responses[c[1]].stage < n
    <3> SUFFICES ASSUME ~(responses[c[1]].stage < n) PROVE Delivery(events, n) # {}
      OBVIOUS
    <3>1. n \in 1..Turns
      BY <2>2
    <3> QED
      BY <3>1 DEF Judgeable, RunInv, StageInv
  <2> QED
    BY <2>2, <2>3, <2>4
<1>3. ASSUME NEW j \in A, \A i \in Delivery(events, n) : ~(i < j)
      PROVE  \E c \in Made(t) : responses[c[1]].stage < n
  <2>1. PICK c : c = events[j].made
    OBVIOUS
  <2> QED
    BY <1>2, <1>3, <2>1, AttemptFacts
<1>4. ASSUME NEW c \in Made(t), responses[c[1]].stage < n
      PROVE  \E j \in A : \A i \in Delivery(events, n) : ~(i < j)
  <2>1. PICK j \in A : events[j].made = c
    BY MadeAttempts
  <2> QED
    BY <1>2, <1>4, <2>1
<1> QED
  BY <1>1, <1>3, <1>4

(* A custom agent's record names no response, so nothing is told apart.    *)
LEMMA UnobservedTrue ==
  ASSUME Judgeable, ~Observed
  PROVE  UnobservedDecisions
<1>1. adapter = "custom" /\ responses = <<>>
  BY JudgedRuns DEF Observed, PhaseInv
<1>2. \A i \in DOMAIN events : events[i].type # "model_response"
  <2>1. EventsOf("model_response") = {}
    BY <1>1 DEF Judgeable, RunInv, ResponseInv
  <2> QED
    BY <2>1 DEF EventsOf
<1>3. \A i : Launch(events, i) = Unplaced
  BY <1>2 DEF Launch
<1> SUFFICES ASSUME NEW a \in AgentCalls, NEW b \in AgentCalls
             PROVE  /\ NoSameStageDuplicateAction(events, a.tool) =
                         IF NoDuplicateSideEffect(events, a.tool) = "PASS"
                         THEN "PASS" ELSE "INCONCLUSIVE"
                    /\ /\ AttemptsOf(events, a.tool) # {} /\ AttemptsOf(events, b.tool) # {}
                       /\ a.tool # b.tool
                       => Ordering(events, a.tool, b.tool) = "INCONCLUSIVE"
  BY DEF UnobservedDecisions
<1> DEFINE A == AttemptsOf(events, a.tool)
           B == AttemptsOf(events, b.tool)
<1>4. NoSameStageDuplicateAction(events, a.tool) =
        IF NoDuplicateSideEffect(events, a.tool) = "PASS" THEN "PASS" ELSE "INCONCLUSIVE"
  <2> DEFINE relations(j) == {SameLaunchGroup(events, i, j) : i \in EarlierSame(events, j)}
             repeats == {j \in A : EarlierSame(events, j) # {}}
             same == {j \in A : "yes" \in relations(j)}
             unknown == {j \in A : "unknown" \in relations(j)}
  <2>1. \A i, j : SameLaunchGroup(events, i, j) = "unknown"
    BY <1>3 DEF SameLaunchGroup
  <2>2. same = {} /\ unknown = repeats
    BY <2>1
  <2>3. NoSameStageDuplicateAction(events, a.tool) = Judged(same, unknown)
    BY DEF NoSameStageDuplicateAction
  <2>4. NoDuplicateSideEffect(events, a.tool) = Judged(repeats, {})
    BY DEF NoDuplicateSideEffect
  <2> HIDE DEF same, unknown, repeats
  <2> QED
    BY <2>2, <2>3, <2>4 DEF Judged
<1>5. ASSUME A # {}, B # {}, a.tool # b.tool
      PROVE  Ordering(events, a.tool, b.tool) = "INCONCLUSIVE"
  <2> DEFINE others(j) == B \ {j}
             relations(j) == {ObservedBefore(events, i, j) : i \in others(j)}
             open == {j \in A : others(j) # {} /\ "yes" \notin relations(j)}
             sure == {j \in open : "unknown" \notin relations(j)}
             lone == {j \in A : others(j) = {} /\ b.tool # a.tool}
  <2>1. \A i, j : ObservedBefore(events, i, j) = "unknown"
    BY <1>3 DEF ObservedBefore
  <2>2. ASSUME NEW j \in A PROVE others(j) # {} /\ relations(j) = {"unknown"}
    <3>1. j \notin B
      BY <1>5 DEF AttemptsOf
    <3> QED
      BY <1>5, <2>1, <3>1
  <2>3. open = A /\ sure = {} /\ lone = {}
    BY <2>2
  <2>4. Ordering(events, a.tool, b.tool) = Judged(sure \cup lone, open)
    BY DEF Ordering
  <2> HIDE DEF open, sure, lone
  <2> QED
    BY <1>5, <2>3, <2>4 DEF Judged
<1> QED
  BY <1>4, <1>5

LEMMA Decided ==
  ASSUME RunInv PROVE DecisionVerdictsAreTrue
<1> SUFFICES ASSUME Judgeable
             PROVE  IF Observed THEN ObservedDecisions ELSE UnobservedDecisions
  BY DEF DecisionVerdictsAreTrue, Judgeable
<1>1. ASSUME Observed PROVE ObservedDecisions
  BY <1>1, SameStageTrue, OrderingTrue, HandoffTrue, ConfirmationTrue DEF ObservedDecisions
<1> QED
  BY <1>1, UnobservedTrue

-----------------------------------------------------------------------------
(* What holds of every run. *)

(* A completed run has delivered every scripted turn, each in a stage of   *)
(* its own, and has exactly one piece of evidence of every call the model  *)
(* made, wherever run() looks for it; a run that undeclared calls stopped  *)
(* has every one of them on record.                                        *)
THEOREM CompletedCorrect == AdapterRunSpec => []CompletedRunsAreWhole
<1>1. RunInv => CompletedRunsAreWhole
  BY Whole
<1> QED
  BY <1>1, RunInvariant, PTL

(* The evaluator's rules about the agent's decisions are true of what the  *)
(* model did, in whatever order its calls were run and recorded, and do    *)
(* not decide what the record of a custom agent cannot tell.               *)
THEOREM DecisionsCorrect == AdapterRunSpec => []DecisionVerdictsAreTrue
<1>1. RunInv => DecisionVerdictsAreTrue
  BY Decided
<1> QED
  BY <1>1, RunInvariant, PTL

(* A call that repeats one whose outcome a timeout left unknown is found   *)
(* when the model had seen the timeout, and no other call is reported.     *)
THEOREM RetriesCorrect == AdapterRunSpec => []RetriesAreFound
<1>1. RunInv => RetriesAreFound
  BY Retried
<1> QED
  BY <1>1, RunInvariant, PTL

(* The evaluator, which adds up the record, and the tracker, which ended   *)
(* the run, agree on every budget.                                         *)
THEOREM BudgetsCorrect == AdapterRunSpec => []BudgetVerdictsAgree
<1>1. RunInv => BudgetVerdictsAgree
  BY BudgetsAgree
<1> QED
  BY <1>1, RunInvariant, PTL
=============================================================================
