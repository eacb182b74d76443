---------------------- MODULE ConcurrentDispatch_proofs ----------------------
(* Proofs about ConcurrentDispatch, for any responses, fixtures, budgets and *)
(* number of concurrent tasks.                                               *)
EXTENDS ConcurrentDispatch, TLAPS, FiniteSetTheorems

-----------------------------------------------------------------------------
(* What planning and committing one call preserve, for any fixtures.          *)

(* A fixture that is assigned is one of the scenario's.                     *)
LEMMA ChosenType ==
  ASSUME NEW p, NEW c, NEW now, TakesFixture(p, c, now), ~Ambiguous(p, c, now)
  PROVE  Chosen(p, c) \in Candidates(p, c) /\ Chosen(p, c) \in Fixtures
<1>1. PICK f \in Fixtures : Best(p, c) = {f}
  BY DEF Ambiguous
<1>2. Chosen(p, c) = f
  BY <1>1 DEF Chosen
<1> QED
  BY <1>1, <1>2 DEF Best

(* Charging the budgets keeps a planning state a planning state.            *)
LEMMA ChargedType ==
  ASSUME NEW p \in PlanType, NEW c \in Calls, NEW now \in Nat
  PROVE  Charged(p, c, now) \in PlanType
<1> DEFINE retry == IsRetry(p, c) /\ Verdict(p, c, now) # "retry_budget_exceeded"
           q == [p EXCEPT !.calls = @ + 1,
                          !.index[ToolOf[c]] = @ + 1,
                          !.retries = IF retry THEN @ + 1 ELSE @]
<1>1. ToolOf[c] \in ToolNames
  BY GatewayAssumption
<1>2. q \in PlanType
  <2> HIDE DEF retry
  <2>1. (IF retry THEN p.retries + 1 ELSE p.retries) \in Nat
    BY DEF PlanType
  <2>2. [p.index EXCEPT ![ToolOf[c]] = @ + 1] \in [ToolNames -> Nat]
    BY <1>1 DEF PlanType
  <2>3. p.calls + 1 \in Nat
    BY DEF PlanType
  <2>4. q = [p EXCEPT !.calls = p.calls + 1,
                      !.index = [p.index EXCEPT ![ToolOf[c]] = @ + 1],
                      !.retries = IF retry THEN p.retries + 1 ELSE p.retries]
    BY DEF PlanType
  <2> QED
    BY <2>1, <2>2, <2>3, <2>4 DEF PlanType
<1>3. CASE Verdict(p, c, now) \in OverBudgetCodes
  BY <1>3 DEF Charged
<1>4. CASE Verdict(p, c, now) \notin OverBudgetCodes
  BY <1>2, <1>4 DEF Charged
<1> QED
  BY <1>3, <1>4

LEMMA AdapterChargedType ==
  ASSUME NEW p \in PlanType, NEW now \in Nat
  PROVE  AdapterCharged(p, now) \in PlanType
BY DEF AdapterCharged, PlanType

(* Planning a call keeps a planning state a planning state.                 *)
LEMMA PlannedType ==
  ASSUME NEW p \in PlanType, NEW c \in Calls, NEW now \in Nat,
         ~Ambiguous(p, c, now)
  PROVE  Planned(p, c, now) \in PlanType
<1> DEFINE q == Charged(p, c, now)
           f == Chosen(p, c)
           granted == Verdict(p, c, now) = "granted"
<1>1. q \in PlanType
  BY ChargedType
<1>2. TakesFixture(p, c, now) => f \in Fixtures /\ f \in FixtureType
  BY ChosenType, GatewayAssumption
<1>3. granted => TakesFixture(p, c, now)
  BY DEF TakesFixture
<1>4. TakesFixture(p, c, now) => f.latency \in Nat /\ f.status \in CallStatuses
  BY <1>2 DEF FixtureType, CallStatuses
<1>5. (IF TakesFixture(p, c, now) /\ ~f.repeat THEN q.used \cup {f} ELSE q.used)
        \in SUBSET Fixtures
  BY <1>1, <1>2 DEF PlanType
<1>6. (IF granted THEN q.simulated + f.latency ELSE q.simulated) \in Nat
  BY <1>1, <1>3, <1>4 DEF PlanType
<1>7. (IF granted THEN f.status ELSE "blocked") \in CallStatuses
  BY <1>3, <1>4 DEF CallStatuses
<1> HIDE DEF q, f, granted
<1>8. [q EXCEPT
         !.used = IF TakesFixture(p, c, now) /\ ~f.repeat THEN @ \cup {f} ELSE @,
         !.simulated = IF granted THEN @ + f.latency ELSE @,
         !.status[c] = IF granted THEN f.status ELSE "blocked"] \in PlanType
  BY <1>1, <1>5, <1>6, <1>7 DEF PlanType
<1> QED
  BY <1>8 DEF Planned, q, f, granted

(* A reservation is well formed: granted exactly when it holds a fixture.   *)
LEMMA ReserveType ==
  ASSUME NEW p \in PlanType, NEW c \in Calls, NEW now \in Nat,
         ~Ambiguous(p, c, now)
  PROVE  Reserve(p, c, now) \in ReservationType
<1>1. Verdict(p, c, now) \in Verdicts
  BY DEF Verdict, Verdicts, OverBudgetCodes
<1>2. Verdict(p, c, now) = "granted" => Chosen(p, c) \in Fixtures
  BY ChosenType DEF TakesFixture
<1>3. p.index[ToolOf[c]] \in Nat
  BY GatewayAssumption DEF PlanType
<1> QED
  BY <1>1, <1>2, <1>3, GatewayAssumption DEF Reserve, ReservationType

(* Committing moves a world to a world.                                     *)
LEMMA WorldAfterType ==
  ASSUME NEW r \in ReservationType, NEW w \in WorldType
  PROVE  WorldAfter(r, w) \in WorldType
<1> SUFFICES ASSUME NEW x \in Paths, Commits(r, w), x \in Touched(r.fixture)
             PROVE  r.fixture.effects[x].after \in Values
  BY DEF WorldAfter, WorldType
<1>1. r.fixture \in FixtureType
  BY GatewayAssumption DEF Commits, ReservationType
<1>2. r.fixture.effects[x] \in EffectType
  BY <1>1 DEF Touched, FixtureType
<1> QED
  BY <1>2 DEF EffectType

(* Committing records an outcome.                                           *)
LEMMA OutcomeTyped ==
  ASSUME NEW r \in ReservationType, NEW w
  PROVE  Outcome(r, w) \in OutcomeType
<1>1. r.verdict = "granted" => r.fixture \in FixtureType
  BY GatewayAssumption DEF ReservationType
<1>2. r.verdict = "granted" => r.fixture.status \in FixtureStatuses
  BY <1>1 DEF FixtureType
<1> QED
  BY <1>2 DEF Outcome, OutcomeType, ReservationType

LEMMA AdapterOutcomeTyped ==
  ASSUME NEW p, NEW c \in Calls, NEW code \in Verdicts, NEW now
  PROVE  AdapterOutcome(p, c, code, now) \in OutcomeType
BY DEF AdapterOutcome, AdapterVerdict, OutcomeType, Verdicts, OverBudgetCodes,
       FixtureStatuses

(* A single-use fixture that planning assigns was unused and becomes used.   *)
LEMMA FreshFixture ==
  ASSUME NEW p \in PlanType, NEW c \in Calls, NEW now \in Nat,
         ~Ambiguous(p, c, now)
  PROVE  /\ p.used \subseteq Planned(p, c, now).used
         /\ Reserve(p, c, now).fixture \in SingleUse =>
              /\ Reserve(p, c, now).fixture \notin p.used
              /\ Reserve(p, c, now).fixture \in Planned(p, c, now).used
<1> DEFINE q == Charged(p, c, now)
           f == Chosen(p, c)
           takes == TakesFixture(p, c, now) /\ ~f.repeat
<1>1. q \in PlanType /\ q.used = p.used
  BY ChargedType DEF Charged, PlanType
<1>2. Planned(p, c, now).used = IF takes THEN q.used \cup {f} ELSE q.used
  BY <1>1 DEF Planned, PlanType
<1>3. ASSUME Reserve(p, c, now).fixture \in SingleUse
      PROVE  Reserve(p, c, now).fixture = f /\ takes /\ f \notin p.used
  <2>1. Verdict(p, c, now) = "granted" /\ Reserve(p, c, now).fixture = f
    BY <1>3, GatewayAssumption DEF Reserve, SingleUse
  <2>2. TakesFixture(p, c, now)
    BY <2>1 DEF TakesFixture
  <2>3. f \in Candidates(p, c)
    BY <2>2, ChosenType
  <2> QED
    BY <1>3, <2>1, <2>2, <2>3 DEF Candidates, SingleUse
<1> QED
  BY <1>1, <1>2, <1>3

(* Charging a call that gets no fixture leaves the fixtures as they were.    *)
LEMMA ChargedUses ==
  ASSUME NEW p \in PlanType, NEW c \in Calls, NEW now \in Nat
  PROVE  Charged(p, c, now).used = p.used /\ AdapterCharged(p, now).used = p.used
BY DEF Charged, AdapterCharged, PlanType

-----------------------------------------------------------------------------
(* Types.                                                                    *)

LEMMA InitialPlanType == InitialPlan \in PlanType
BY DEF InitialPlan, PlanType, CallStatuses

LEMMA TypeInit == Init => TypeOK
<1> SUFFICES ASSUME Init PROVE TypeOK
  OBVIOUS
<1>1. plan \in PlanType /\ base \in [plan : PlanType, at : Nat, logged : Nat]
  BY InitialPlanType DEF Init
<1>2. world \in WorldType
  BY DispatchAssumption DEF Init
<1>3. /\ pc \in [Positions -> TaskStates]
      /\ held \in [Positions -> Nat]
      /\ answer \in [Positions -> OutcomeType \cup {NoAnswer}]
  BY DEF Init, Positions
<1> QED
  BY <1>1, <1>2, <1>3 DEF Init, TypeOK, Phases

(* An item of the response in hand is well typed.                            *)
LEMMA ItemTyped ==
  ASSUME TypeOK, NEW i \in Positions
  PROVE  response[i] \in ItemType /\ response[i].call \in Calls
<1>1. response \in Seq(ItemType)
  BY DEF TypeOK
<1>2. response[i] \in ItemType
  BY <1>1 DEF Positions
<1> QED
  BY <1>2 DEF ItemType

LEMMA TypeRespond ==
  ASSUME TypeOK, CommitsInDecisionOrder, NEW items \in Responses, Respond(items)
  PROVE  TypeOK'
<1>1. items \in Seq(ItemType)
  BY DispatchAssumption
<1>2. response' = items
  BY DEF Respond
<1>3. SerialClock \in Nat
  <2>1. base.at \in Nat
    BY DEF TypeOK
  <2>2. ASSUME commits # <<>>
        PROVE  Len(commits) \in 1..Len(resv)
    BY <2>2 DEF TypeOK, CommitsInDecisionOrder
  <2>3. ASSUME commits # <<>>
        PROVE  resv[Len(commits)] \in RankType
    BY <2>2, <2>3 DEF TypeOK
  <2> QED
    BY <2>1, <2>3 DEF SerialClock, RankType
<1>4. base' \in [plan : PlanType, at : Nat, logged : Nat]
  BY <1>3 DEF Respond, TypeOK
<1>5. /\ pc' \in [Positions' -> TaskStates]
      /\ held' \in [Positions' -> Nat]
      /\ answer' \in [Positions' -> OutcomeType \cup {NoAnswer}]
  BY <1>2 DEF Respond, Positions, TaskStates
<1> QED
  BY <1>1, <1>2, <1>4, <1>5
     DEF Respond, TypeOK, Phases, budgetVars, barrierVars

LEMMA TypePlanCall ==
  ASSUME TypeOK, PlanCall
  PROVE  TypeOK'
<1> DEFINE c == response[cursor].call
<1>1. cursor \in Positions /\ c \in Calls /\ ~Ambiguous(plan, c, clock)
  BY ItemTyped DEF PlanCall, Planning
<1>2. plan' = Planned(plan, c, clock) /\ plan' \in PlanType
  BY <1>1, PlannedType DEF PlanCall, TypeOK
<1>3. Reserve(plan, c, clock) \in ReservationType
  BY <1>1, ReserveType DEF TypeOK
<1>4. resv' \in Seq(RankType)
  BY <1>2, <1>3 DEF PlanCall, TypeOK, RankType, Planning
<1>5. cursor' \in Nat /\ phase' = phase
  BY DEF PlanCall, TypeOK
<1> QED
  BY <1>2, <1>4, <1>5
     DEF PlanCall, Planning, TypeOK, responseVars, taskVars, barrierVars,
         Positions

LEMMA TypePlanRaises ==
  ASSUME TypeOK, PlanRaises
  PROVE  TypeOK'
<1>1. plan' \in PlanType
  BY ItemTyped, ChargedType DEF PlanRaises, Planning, TypeOK
<1> QED
  BY <1>1 DEF PlanRaises, Planning, TypeOK, Phases, responseVars, taskVars,
              barrierVars, Positions

LEMMA TypeLeaveUnplanned ==
  ASSUME TypeOK, LeaveUnplanned
  PROVE  TypeOK'
BY DEF LeaveUnplanned, Planning, TypeOK, responseVars, taskVars, barrierVars,
       Positions

(* The table built from the batch is a table of ranks.                       *)
LEMMA TableType ==
  ASSUME TypeOK, PlanInv
  PROVE  LET t == ReservationTable(resv) IN
         \A d \in DOMAIN t :
           /\ d \in CallIds
           /\ t[d] \in 1..Len(resv)
           /\ IdOfRank(t[d]) = d
           /\ LastOfId(t[d])
<1> DEFINE t == ReservationTable(resv)
           Last(d, k) == /\ response[resv[k].pos].id = d
                         /\ \A j \in 1..Len(resv) :
                              response[resv[j].pos].id = d => j <= k
<1> SUFFICES ASSUME NEW d \in DOMAIN t
             PROVE  /\ d \in CallIds
                    /\ t[d] \in 1..Len(resv)
                    /\ IdOfRank(t[d]) = d
                    /\ LastOfId(t[d])
  OBVIOUS
<1>1. PICK k \in 1..Len(resv) : response[resv[k].pos].id = d
  BY DEF ReservationTable, IdsOf
<1>2. PICK n \in 1..Len(resv) : IdOfRank(n) = IdOfRank(k) /\ LastOfId(n)
  BY DEF PlanInv
<1>3. Last(d, n)
  <2> SUFFICES ASSUME NEW j \in 1..Len(resv), response[resv[j].pos].id = d, j > n
               PROVE  FALSE
    BY <1>1, <1>2 DEF IdOfRank, TypeOK
  <2> QED
    BY <1>1, <1>2, SMTT(60) DEF LastOfId, IdOfRank, TypeOK
<1>4. t[d] = CHOOSE m \in 1..Len(resv) : Last(d, m)
  BY DEF ReservationTable
<1>5. t[d] \in 1..Len(resv) /\ Last(d, t[d])
  <2> HIDE DEF Last
  <2> QED
    BY <1>3, <1>4
<1>6. IdOfRank(t[d]) = d
  BY <1>5 DEF IdOfRank
<1>7. LastOfId(t[d])
  BY <1>5, <1>6, SMTT(60) DEF LastOfId, IdOfRank, TypeOK
<1>8. d \in CallIds
  <2>1. resv[k].pos \in 1..(cursor - 1) /\ cursor \in 1..(Len(response) + 1)
    BY DEF PlanInv
  <2>2. resv[k].pos \in Positions
    BY <2>1 DEF Positions, TypeOK
  <2> QED
    BY <1>1, <2>2, ItemTyped DEF ItemType
<1> QED
  BY <1>5, <1>6, <1>7, <1>8

LEMMA TypeTable ==
  ASSUME TypeOK, PlanInv,
         pending' = IF resv = <<>> THEN pending ELSE ReservationTable(resv),
         opened' = IF resv = <<>> THEN opened ELSE {1}
  PROVE  /\ DOMAIN pending' \subseteq CallIds
         /\ \A d \in DOMAIN pending' : pending'[d] \in Nat
         /\ opened' \subseteq Nat
<1> DEFINE t == ReservationTable(resv)
<1>1. \A d \in DOMAIN t : d \in CallIds /\ t[d] \in Nat
  BY TableType
<1> HIDE DEF t
<1> QED
  BY <1>1 DEF TypeOK, t

LEMMA TypeFinishPlanning ==
  ASSUME TypeOK, PlanInv, FinishPlanning \/ UsageEndsRun
  PROVE  TypeOK'
<1>1. /\ DOMAIN pending' \subseteq CallIds
      /\ \A d \in DOMAIN pending' : pending'[d] \in Nat
      /\ opened' \subseteq Nat
  BY TypeTable DEF FinishPlanning, UsageEndsRun
<1>2. phase' \in Phases
  BY DEF FinishPlanning, UsageEndsRun, Phases
<1> QED
  BY <1>1, <1>2 DEF FinishPlanning, UsageEndsRun, TypeOK, budgetVars,
                    responseVars, taskVars, Positions

(* Steps that only move the phase or time along.                             *)
LEMMA TypeControl ==
  ASSUME TypeOK, Tick \/ Finish \/ EndRejecting \/ FinishResponse \/ Abort
  PROVE  TypeOK'
<1>1. clock' \in Nat /\ phase' \in Phases
  BY DEF Tick, Finish, EndRejecting, FinishResponse, Abort, TypeOK, Phases,
         budgetVars
<1>2. UNCHANGED <<plan, world, log, turns, response, cursor, resv, pending,
                  opened, pc, held, answer, commits, base>>
  BY DEF Tick, Finish, EndRejecting, FinishResponse, Abort, budgetVars,
         responseVars, taskVars, barrierVars
<1> QED
  BY <1>1, <1>2 DEF TypeOK, Positions

LEMMA TypeRefuse ==
  ASSUME TypeOK, NEW i \in Positions, RejectUnknown(i) \/ AnswerMalformed(i)
  PROVE  TypeOK'
<1>1. PICK code \in Verdicts : Refuse(i, code)
  BY DEF RejectUnknown, AnswerMalformed, Verdicts
<1>2. plan' \in PlanType
  BY <1>1, AdapterChargedType DEF Refuse, TypeOK
<1>3. AdapterOutcome(plan, response[i].call, code, clock) \in OutcomeType
  BY AdapterOutcomeTyped, ItemTyped
<1>4. /\ pc' \in [Positions -> TaskStates]
      /\ answer' \in [Positions -> OutcomeType \cup {NoAnswer}]
  BY <1>1, <1>3 DEF Refuse, TypeOK, TaskStates
<1> QED
  BY <1>1, <1>2, <1>4 DEF Refuse, TypeOK, Positions, responseVars, barrierVars

LEMMA TypeStart ==
  ASSUME TypeOK, NEW i \in Positions, Start(i)
  PROVE  TypeOK'
<1>1. pc' \in [Positions -> TaskStates]
  BY DEF Start, TypeOK, TaskStates
<1> QED
  BY <1>1 DEF Start, TypeOK, Positions, budgetVars, responseVars, barrierVars

LEMMA TypeClaim ==
  ASSUME TypeOK, NEW i \in Positions, Claim(i)
  PROVE  TypeOK'
<1>1. pc' \in [Positions -> TaskStates] /\ held' \in [Positions -> Nat]
  BY DEF Claim, TypeOK, TaskStates
<1>2. /\ DOMAIN pending' \subseteq DOMAIN pending
      /\ \A d \in DOMAIN pending' : pending'[d] = pending[d]
  BY DEF Claim
<1>3. DOMAIN pending' \subseteq CallIds /\ \A d \in DOMAIN pending' : pending'[d] \in Nat
  BY <1>2 DEF TypeOK
<1> QED
  BY <1>1, <1>3 DEF Claim, TypeOK, Positions, budgetVars, responseVars

(* A task's answer keeps the log, the answers and the counters typed.        *)
LEMMA TypeAnswered ==
  ASSUME TypeOK, NEW i \in Positions, NEW outcome \in OutcomeType,
         Answered(i, outcome)
  PROVE  /\ log' \in Seq(OutcomeType)
         /\ pc' \in [Positions -> TaskStates]
         /\ answer' \in [Positions -> OutcomeType \cup {NoAnswer}]
BY DEF Answered, TypeOK, TaskStates

LEMMA TypeCommit ==
  ASSUME TypeOK, ClaimInv, NEW i \in Positions, Commit(i)
  PROVE  TypeOK'
<1> DEFINE r == held[i]
<1>1. r \in 1..Len(resv) /\ r \in Nat
  BY DEF Commit, ClaimInv, TypeOK
<1>2. resv[r].res \in ReservationType
  <2>1. resv[r] \in RankType
    BY <1>1 DEF TypeOK
  <2> QED
    BY <2>1 DEF RankType
<1>3. world' \in WorldType
  BY <1>2, WorldAfterType DEF Commit, TypeOK
<1>4. Outcome(resv[r].res, world) \in OutcomeType
  BY <1>2, OutcomeTyped
<1>5. /\ log' \in Seq(OutcomeType)
      /\ pc' \in [Positions -> TaskStates]
      /\ answer' \in [Positions -> OutcomeType \cup {NoAnswer}]
  BY <1>4, TypeAnswered DEF Commit
<1>6. commits' \in Seq(Nat) /\ opened' \subseteq Nat
  <2>1. commits' = Append(commits, r) /\ commits \in Seq(Nat)
    BY DEF Commit, TypeOK
  <2>2. opened' = opened \cup ({r + 1} \cap (1..Len(resv))) /\ opened \subseteq Nat
    BY DEF Commit, TypeOK
  <2>3. commits' \in Seq(Nat)
    BY <1>1, <2>1
  <2>4. {r + 1} \subseteq Nat
    BY <1>1
  <2>5. opened' \subseteq Nat
    BY <2>2, <2>4
  <2> QED
    BY <2>3, <2>5
<1> QED
  BY <1>3, <1>5, <1>6 DEF Commit, TypeOK, Positions, budgetVars, responseVars

LEMMA TypeInvokeDirectly ==
  ASSUME TypeOK, NEW i \in Positions, InvokeDirectly(i)
  PROVE  TypeOK'
<1> DEFINE c == response[i].call
           r == Reserve(plan, c, clock)
<1>1. c \in Calls /\ ~Ambiguous(plan, c, clock)
  BY ItemTyped DEF InvokeDirectly
<1>2. plan' \in PlanType
  BY <1>1, PlannedType DEF InvokeDirectly, TypeOK
<1>3. r \in ReservationType
  BY <1>1, ReserveType DEF TypeOK
<1>4. world' \in WorldType /\ Outcome(r, world) \in OutcomeType
  BY <1>3, WorldAfterType, OutcomeTyped DEF InvokeDirectly, TypeOK
<1>5. Answered(i, Outcome(r, world))
  BY DEF InvokeDirectly
<1>6. /\ log' \in Seq(OutcomeType)
      /\ pc' \in [Positions -> TaskStates]
      /\ answer' \in [Positions -> OutcomeType \cup {NoAnswer}]
  BY <1>4, <1>5, TypeAnswered
<1> QED
  BY <1>2, <1>4, <1>6
     DEF InvokeDirectly, TypeOK, Positions, responseVars, barrierVars

LEMMA TypeDirectRaises ==
  ASSUME TypeOK, NEW i \in Positions, DirectRaises(i)
  PROVE  TypeOK'
<1>1. plan' \in PlanType
  BY ItemTyped, ChargedType DEF DirectRaises, TypeOK
<1>2. pc' \in [Positions -> TaskStates]
  BY DEF DirectRaises, TypeOK, TaskStates
<1> QED
  BY <1>1, <1>2 DEF DirectRaises, TypeOK, Positions, responseVars, barrierVars

LEMMA TypeNext ==
  ASSUME TypeOK, PlanInv, ClaimInv, CommitsInDecisionOrder, Next
  PROVE  TypeOK'
BY TypeRespond, TypePlanCall, TypePlanRaises, TypeLeaveUnplanned,
   TypeFinishPlanning, TypeControl, TypeRefuse, TypeStart, TypeClaim,
   TypeCommit, TypeInvokeDirectly, TypeDirectRaises
   DEF Next, Control, Task

-----------------------------------------------------------------------------
(* Planning: the reservations are the plannable calls, in order.             *)

LEMMA RanksStable ==
  ASSUME response' = response, resv' = resv
  PROVE  \A k : IdOfRank(k)' = IdOfRank(k) /\ (LastOfId(k)' <=> LastOfId(k))
BY DEF IdOfRank, LastOfId

LEMMA PlanInvRespond ==
  ASSUME NEW items \in Responses, Respond(items)
  PROVE  PlanInv'
<1>1. response' = items /\ cursor' = 1 /\ resv' = <<>> /\ Len(items) \in Nat
  BY DispatchAssumption DEF Respond
<1> QED
  BY <1>1 DEF PlanInv

LEMMA PlanInvPlanCall ==
  ASSUME TypeOK, PlanInv, PlanCall
  PROVE  PlanInv'
<1> DEFINE new == [pos |-> cursor, res |-> Reserve(plan, response[cursor].call, clock),
                   plan |-> plan', at |-> clock]
<1>0. PICK n \in Nat : n = Len(resv) + 1
  BY DEF TypeOK
<1>1. /\ cursor \in 1..Len(response) /\ response[cursor].kind = "known"
      /\ response' = response /\ cursor' = cursor + 1
      /\ resv' = Append(resv, new)
      /\ Len(response) \in Nat
  BY DEF PlanCall, Planning, responseVars, Positions, TypeOK
<1>2. /\ Len(resv) \in Nat /\ Len(resv') = n
      /\ \A k \in 1..Len(resv) : resv'[k] = resv[k]
      /\ resv'[n] = new
  BY <1>0, <1>1 DEF TypeOK
<1>3. cursor' \in 1..(Len(response') + 1)
  BY <1>1
<1>4. \A k \in 1..Len(resv') :
        /\ resv'[k].pos \in 1..(cursor' - 1)
        /\ response'[resv'[k].pos].kind = "known"
        /\ resv'[k].res.call = response'[resv'[k].pos].call
  <2> SUFFICES ASSUME NEW k \in 1..Len(resv')
               PROVE  /\ resv'[k].pos \in 1..(cursor' - 1)
                      /\ response'[resv'[k].pos].kind = "known"
                      /\ resv'[k].res.call = response'[resv'[k].pos].call
    OBVIOUS
  <2>1. CASE k \in 1..Len(resv)
    <3>1. /\ resv[k].pos \in 1..(cursor - 1)
          /\ response[resv[k].pos].kind = "known"
          /\ resv[k].res.call = response[resv[k].pos].call
      BY <2>1 DEF PlanInv
    <3>2. resv'[k] = resv[k] /\ response' = response
      BY <1>1, <1>2, <2>1
    <3>3. resv'[k].pos \in 1..(cursor' - 1)
      BY <1>1, <3>1, <3>2
    <3> QED
      BY <3>1, <3>2, <3>3
  <2>2. CASE k = n
    BY <1>1, <1>0, <1>2, <2>2 DEF Reserve
  <2> QED
    BY <1>0, <1>2, <2>1, <2>2
<1>5. \A i \in 1..(cursor' - 1) :
        response'[i].kind = "known" => \E k \in 1..Len(resv') : resv'[k].pos = i
  <2> SUFFICES ASSUME NEW i \in 1..(cursor' - 1), response'[i].kind = "known"
               PROVE  \E k \in 1..Len(resv') : resv'[k].pos = i
    OBVIOUS
  <2>1. CASE i \in 1..(cursor - 1)
    <3>1. PICK k \in 1..Len(resv) : resv[k].pos = i
      BY <1>1, <2>1 DEF PlanInv
    <3> QED
      BY <1>0, <1>2, <3>1
  <2>2. CASE i = cursor
    BY <1>0, <1>2, <2>2
  <2> QED
    BY <1>1, <2>1, <2>2
<1>6. \A k \in 1..Len(resv') :
        \E m \in 1..Len(resv') : IdOfRank(m)' = IdOfRank(k)' /\ LastOfId(m)'
  <2> SUFFICES ASSUME NEW k \in 1..Len(resv')
               PROVE  \E m \in 1..Len(resv') : IdOfRank(m)' = IdOfRank(k)' /\ LastOfId(m)'
    OBVIOUS
  <2>1. LastOfId(n)'
    BY <1>0, <1>2 DEF LastOfId
  <2>2. CASE IdOfRank(k)' = IdOfRank(n)'
    BY <1>0, <1>2, <2>1, <2>2
  <2>3. CASE IdOfRank(k)' # IdOfRank(n)'
    <3>1. k \in 1..Len(resv)
      BY <1>0, <1>2, <2>3
    <3>2. PICK m \in 1..Len(resv) : IdOfRank(m) = IdOfRank(k) /\ LastOfId(m)
      BY <3>1 DEF PlanInv
    <3>3. \A j \in 1..Len(resv) : IdOfRank(j)' = IdOfRank(j)
      BY <1>1, <1>0, <1>2 DEF IdOfRank
    <3>4. IdOfRank(m)' = IdOfRank(k)' /\ m \in 1..Len(resv')
      BY <1>0, <1>2, <3>1, <3>2, <3>3
    <3>5. LastOfId(m)'
      <4> SUFFICES ASSUME NEW j \in (m + 1)..Len(resv')
                   PROVE  IdOfRank(j)' # IdOfRank(m)'
        BY DEF LastOfId
      <4>1. CASE j = n
        BY <2>3, <3>4, <4>1
      <4>2. CASE j \in (m + 1)..Len(resv)
        BY <1>0, <1>2, <3>2, <3>3, <4>2 DEF LastOfId
      <4> QED
        BY <1>0, <1>2, <4>1, <4>2
    <3> QED
      BY <3>4, <3>5
  <2> QED
    BY <2>2, <2>3
<1> QED
  BY <1>3, <1>4, <1>5, <1>6 DEF PlanInv

LEMMA PlanInvLeaveUnplanned ==
  ASSUME TypeOK, PlanInv, LeaveUnplanned
  PROVE  PlanInv'
<1>1. /\ cursor \in 1..Len(response) /\ response[cursor].kind # "known"
      /\ response' = response /\ resv' = resv /\ cursor' = cursor + 1
      /\ Len(response) \in Nat
  BY DEF LeaveUnplanned, Planning, responseVars, Positions, TypeOK
<1>2. cursor' \in 1..(Len(response') + 1)
  BY <1>1
<1>3. \A k \in 1..Len(resv) : resv[k].pos \in 1..(cursor' - 1)
  <2>1. \A k \in 1..Len(resv) : resv[k].pos \in 1..(cursor - 1)
    BY DEF PlanInv
  <2> QED
    BY <1>1, <2>1
<1>4. \A i \in 1..(cursor' - 1) :
        response[i].kind = "known" => \E k \in 1..Len(resv) : resv[k].pos = i
  <2>1. \A i \in 1..(cursor - 1) :
          response[i].kind = "known" => \E k \in 1..Len(resv) : resv[k].pos = i
    BY DEF PlanInv
  <2> QED
    BY <1>1, <2>1
<1>5. \A k \in 1..Len(resv) :
        \E n \in 1..Len(resv) : IdOfRank(n)' = IdOfRank(k)' /\ LastOfId(n)'
  BY <1>1, RanksStable DEF PlanInv
<1> QED
  BY <1>1, <1>2, <1>3, <1>4, <1>5 DEF PlanInv

LEMMA PlanInvStable ==
  ASSUME PlanInv, UNCHANGED <<response, resv, cursor>>
  PROVE  PlanInv'
<1>1. response' = response /\ resv' = resv /\ cursor' = cursor
  OBVIOUS
<1>2. \A k : IdOfRank(k)' = IdOfRank(k) /\ (LastOfId(k)' <=> LastOfId(k))
  BY <1>1, RanksStable
<1> QED
  BY <1>1, <1>2 DEF PlanInv

LEMMA PlanInvNext ==
  ASSUME TypeOK, PlanInv, Next
  PROVE  PlanInv'
<1>1. CASE \E items \in Responses : Respond(items)
  BY <1>1, PlanInvRespond
<1>2. CASE PlanCall
  BY <1>2, PlanInvPlanCall
<1>3. CASE LeaveUnplanned
  BY <1>3, PlanInvLeaveUnplanned
<1>4. ASSUME ~PlanCall, ~LeaveUnplanned, Control
      PROVE  UNCHANGED <<response, resv, cursor>>
  BY <1>4 DEF Control, PlanRaises, Planning, FinishPlanning, UsageEndsRun,
              EndRejecting, FinishResponse, Abort, responseVars
<1>5. ASSUME NEW i \in Positions, Task(i)
      PROVE  UNCHANGED <<response, resv, cursor>>
  BY <1>5 DEF Task, Start, AnswerMalformed, Refuse, Claim, Commit,
              InvokeDirectly, DirectRaises, RejectUnknown, responseVars
<1>6. ASSUME Tick \/ Finish
      PROVE  UNCHANGED <<response, resv, cursor>>
  BY <1>6 DEF Tick, Finish, responseVars
<1> QED
  BY <1>1, <1>2, <1>3, <1>4, <1>5, <1>6, PlanInvStable DEF Next

-----------------------------------------------------------------------------
(* Phases.                                                                   *)

LEMMA DispatchStarts ==
  ASSUME TypeOK, PlanInv, phase = "planning", cursor > Len(response)
  PROVE  cursor = Len(response) + 1
BY DEF TypeOK, PlanInv

(* A finished batch has no reservation left for a later one to claim.        *)
LEMMA TableDrained ==
  ASSUME OwnerInv, FinishResponse
  PROVE  DOMAIN pending = {}
BY DEF OwnerInv, FinishResponse

LEMMA PhaseInvNext ==
  ASSUME TypeOK, PlanInv, PhaseInv, OwnerInv, Next
  PROVE  PhaseInv'
<1>1. CASE Tick \/ Finish \/ EndRejecting \/ Abort
  <2>1. /\ UNCHANGED <<pending, commits, pc, cursor, response>>
        /\ phase' = phase \/ phase' = "ended"
    BY <1>1 DEF Tick, Finish, EndRejecting, Abort, responseVars, taskVars,
                barrierVars
  <2> QED
    BY <2>1 DEF PhaseInv, Positions
<1>2. ASSUME NEW items \in Responses, Respond(items)
      PROVE  PhaseInv'
  BY <1>2 DEF Respond, PhaseInv, Positions, barrierVars
<1>3. CASE PlanCall \/ LeaveUnplanned \/ PlanRaises
  <2>1. /\ UNCHANGED <<pending, commits, pc, response>>
        /\ phase = "planning" /\ phase' \in {"planning", "ended"}
    BY <1>3 DEF PlanCall, LeaveUnplanned, PlanRaises, Planning, responseVars,
                taskVars, barrierVars
  <2> QED
    BY <2>1 DEF PhaseInv, Positions
<1>4. CASE FinishPlanning \/ UsageEndsRun
  <2>1. /\ UNCHANGED <<pc, response, cursor>>
        /\ phase = "planning" /\ phase' \in {"rejecting", "dispatching", "ended"}
        /\ cursor = Len(response) + 1
    BY <1>4, DispatchStarts
       DEF FinishPlanning, UsageEndsRun, responseVars, taskVars
  <2> QED
    BY <2>1 DEF PhaseInv, Positions
<1>5. CASE FinishResponse
  BY <1>5, TableDrained
     DEF FinishResponse, PhaseInv, Positions, responseVars, taskVars, barrierVars
<1>6. ASSUME NEW i \in Positions, RejectUnknown(i)
      PROVE  PhaseInv'
  <2>1. /\ UNCHANGED <<phase, pending, response, cursor, commits>>
        /\ pc' = [pc EXCEPT ![i] = "done"] /\ phase = "rejecting"
    BY <1>6 DEF RejectUnknown, Refuse, responseVars, barrierVars
  <2> QED
    BY <2>1 DEF PhaseInv, Positions, TypeOK
<1>7. ASSUME NEW i \in Positions, Task(i), ~RejectUnknown(i)
      PROVE  PhaseInv'
  <2>1. phase = "dispatching" /\ UNCHANGED <<phase, response, cursor>>
    BY <1>7 DEF Task, Start, AnswerMalformed, Refuse, Claim, Commit,
                InvokeDirectly, DirectRaises, responseVars
  <2> QED
    BY <2>1 DEF PhaseInv
<1> QED
  BY <1>1, <1>2, <1>3, <1>4, <1>5, <1>6, <1>7 DEF Next, Control

-----------------------------------------------------------------------------
(* Claims.                                                                   *)

(* The steps that leave the batch, its table and its commits alone, and do   *)
(* not make a task wait.                                                     *)
LEMMA ClaimInvStable ==
  ASSUME ClaimInv, UNCHANGED <<response, resv, commits, pending, held>>,
         \A i \in Positions : pc'[i] = "waiting" => pc[i] = "waiting"
  PROVE  ClaimInv'
<1>1. /\ response' = response /\ resv' = resv /\ commits' = commits
      /\ pending' = pending /\ held' = held /\ Positions' = Positions
  BY DEF Positions
<1>2. \A k : IdOfRank(k)' = IdOfRank(k) /\ (LastOfId(k)' <=> LastOfId(k))
  BY <1>1, RanksStable
<1> QED
  BY <1>1, <1>2 DEF ClaimInv

(* While a response is planned nothing is claimed.                           *)
LEMMA ClaimInvPlanning ==
  ASSUME DOMAIN pending' = {}, commits' = <<>>,
         \A i \in Positions' : pc'[i] = "queued"
  PROVE  ClaimInv'
<1>1. Len(commits') = 0
  OBVIOUS
<1> QED
  BY <1>1 DEF ClaimInv

LEMMA ClaimInvTable ==
  ASSUME TypeOK, PlanInv, PhaseInv, FinishPlanning \/ UsageEndsRun
  PROVE  ClaimInv'
<1>1. /\ UNCHANGED <<response, resv, commits, pc, held>> /\ phase = "planning"
      /\ pending' = IF resv = <<>> THEN pending ELSE ReservationTable(resv)
  BY DEF FinishPlanning, UsageEndsRun, responseVars, taskVars
<1>2. commits = <<>> /\ DOMAIN pending = {} /\ \A i \in Positions : pc[i] = "queued"
  BY <1>1 DEF PhaseInv
<1>3. \A k : IdOfRank(k)' = IdOfRank(k) /\ (LastOfId(k)' <=> LastOfId(k))
  BY <1>1, RanksStable
<1>4. ASSUME NEW d \in DOMAIN pending'
      PROVE  /\ pending'[d] \in 1..Len(resv)
             /\ IdOfRank(pending'[d]) = d
             /\ LastOfId(pending'[d])
  <2>1. pending' = ReservationTable(resv)
    BY <1>1, <1>2, <1>4
  <2> QED
    BY <1>4, <2>1, TableType
<1>5. Len(commits') = 0 /\ Positions' = Positions
  BY <1>1, <1>2 DEF Positions
<1> QED
  BY <1>1, <1>2, <1>3, <1>4, <1>5 DEF ClaimInv

LEMMA ClaimInvClaim ==
  ASSUME TypeOK, ClaimInv, NEW i \in Positions, Claim(i)
  PROVE  ClaimInv'
<1> DEFINE id == response[i].id
<1>1. /\ response' = response /\ resv' = resv /\ commits' = commits
      /\ Positions' = Positions
  BY DEF Claim, responseVars, Positions
<1>2. \A k : IdOfRank(k)' = IdOfRank(k) /\ (LastOfId(k)' <=> LastOfId(k))
  BY <1>1, RanksStable
<1>3. /\ id \in DOMAIN pending /\ response[i].kind = "known"
      /\ DOMAIN pending' = DOMAIN pending \ {id}
      /\ \A d \in DOMAIN pending' : pending'[d] = pending[d]
  BY DEF Claim
<1>4. /\ held'[i] = pending[id]
      /\ \A j \in Positions : j # i => held'[j] = held[j] /\ pc'[j] = pc[j]
  BY DEF Claim, TypeOK
<1>5. \A j \in Positions : j # i /\ pc[j] = "waiting" => response[j].id # id
  BY <1>3 DEF ClaimInv
<1>6. ASSUME NEW j \in Positions, pc'[j] = "waiting"
      PROVE  /\ held'[j] \in (Len(commits) + 1)..Len(resv)
             /\ IdOfRank(held'[j]) = response[j].id
             /\ LastOfId(held'[j])
             /\ response[j].id \notin DOMAIN pending'
             /\ response[j].kind = "known"
  <2>1. CASE j = i
    BY <1>3, <1>4, <2>1 DEF ClaimInv
  <2>2. CASE j # i
    BY <1>3, <1>4, <1>6, <2>2 DEF ClaimInv
  <2> QED
    BY <2>1, <2>2
<1>7. \A j, k \in Positions :
        pc'[j] = "waiting" /\ pc'[k] = "waiting" /\ response[j].id = response[k].id
          => j = k
  BY <1>4, <1>5 DEF ClaimInv
<1> QED
  BY <1>1, <1>2, <1>3, <1>6, <1>7 DEF ClaimInv

(* The task whose turn it is holds the next rank, and no other task does.    *)
LEMMA CommitsNext ==
  ASSUME TypeOK, ClaimInv, BarrierInv, NEW i \in Positions, Commit(i)
  PROVE  /\ held[i] = Len(commits) + 1
         /\ held[i] \in 1..Len(resv)
<1>1. held[i] \in (Len(commits) + 1)..Len(resv)
  BY DEF Commit, ClaimInv
<1>2. Len(commits) \in Nat /\ Len(resv) \in Nat /\ resv # <<>>
  BY <1>1 DEF TypeOK
<1>3. held[i] \in 1..(Len(commits) + 1)
  BY <1>2 DEF Commit, BarrierInv
<1> QED
  BY <1>1, <1>2, <1>3

LEMMA ClaimInvCommit ==
  ASSUME TypeOK, ClaimInv, BarrierInv, NEW i \in Positions, Commit(i)
  PROVE  ClaimInv'
<1>0. PICK r \in Nat : r = held[i] /\ r = Len(commits) + 1 /\ r \in 1..Len(resv)
  BY CommitsNext DEF TypeOK
<1>1. /\ response' = response /\ resv' = resv /\ pending' = pending
      /\ held' = held /\ Positions' = Positions
      /\ pc[i] = "waiting"
  BY DEF Commit, responseVars, Positions
<1>2. \A k : IdOfRank(k)' = IdOfRank(k) /\ (LastOfId(k)' <=> LastOfId(k))
  BY <1>1, RanksStable
<1>3. Len(commits') = r /\ Len(commits) \in Nat /\ Len(resv) \in Nat
  BY <1>0 DEF Commit, TypeOK
<1>4. \A j \in Positions : pc'[j] = "waiting" => j # i /\ pc[j] = "waiting"
  BY DEF Commit, Answered, TypeOK
<1>5. IdOfRank(r) = response[i].id /\ LastOfId(r) /\ response[i].id \notin DOMAIN pending
  BY <1>0, <1>1 DEF ClaimInv
<1>6. ASSUME NEW d \in DOMAIN pending
      PROVE  pending[d] \in (r + 1)..Len(resv)
  <2>1. pending[d] # r
    BY <1>5 DEF ClaimInv
  <2>2. pending[d] \in (Len(commits) + 1)..Len(resv)
    BY DEF ClaimInv
  <2> QED
    BY <1>0, <1>3, <2>1, <2>2
<1>7. ASSUME NEW j \in Positions, pc'[j] = "waiting"
      PROVE  held[j] \in (r + 1)..Len(resv)
  <2>1. held[j] # r
    BY <1>1, <1>4, <1>5, <1>7 DEF ClaimInv
  <2>2. held[j] \in (Len(commits) + 1)..Len(resv)
    BY <1>4, <1>7 DEF ClaimInv
  <2> QED
    BY <1>0, <1>3, <2>1, <2>2
<1>8. \A k \in 1..r : LastOfId(k)
  BY <1>0, <1>3, <1>5 DEF ClaimInv
<1> QED
  BY <1>1, <1>2, <1>3, <1>4, <1>6, <1>7, <1>8 DEF ClaimInv

LEMMA ClaimInvNext ==
  ASSUME TypeOK, PlanInv, PhaseInv, ClaimInv, OwnerInv, BarrierInv, Next
  PROVE  ClaimInv'
<1>1. CASE Tick \/ Finish \/ EndRejecting \/ Abort \/ FinishResponse
  <2>1. UNCHANGED <<response, resv, commits, pending, held, pc>>
    BY <1>1 DEF Tick, Finish, EndRejecting, Abort, FinishResponse,
                responseVars, taskVars, barrierVars
  <2> QED
    BY <2>1, ClaimInvStable
<1>2. ASSUME NEW items \in Responses, Respond(items)
      PROVE  ClaimInv'
  <2>1. DOMAIN pending' = {} /\ commits' = <<>> /\ \A i \in Positions' : pc'[i] = "queued"
    BY <1>2 DEF Respond, PhaseInv, Positions, barrierVars
  <2> QED
    BY <2>1, ClaimInvPlanning
<1>3. CASE PlanCall \/ LeaveUnplanned \/ PlanRaises
  <2>1. DOMAIN pending' = {} /\ commits' = <<>> /\ \A i \in Positions' : pc'[i] = "queued"
    BY <1>3 DEF PlanCall, LeaveUnplanned, PlanRaises, Planning, PhaseInv,
                Positions, responseVars, taskVars, barrierVars
  <2> QED
    BY <2>1, ClaimInvPlanning
<1>4. CASE FinishPlanning \/ UsageEndsRun
  BY <1>4, ClaimInvTable
<1>5. ASSUME NEW i \in Positions, Claim(i) \/ Commit(i)
      PROVE  ClaimInv'
  BY <1>5, ClaimInvClaim, ClaimInvCommit
<1>6. ASSUME NEW i \in Positions, Task(i), ~Claim(i), ~Commit(i)
      PROVE  ClaimInv'
  <2>1. UNCHANGED <<response, resv, commits, pending, held>>
    BY <1>6 DEF Task, Start, AnswerMalformed, RejectUnknown, Refuse,
                InvokeDirectly, DirectRaises, responseVars, barrierVars
  <2>2. \E s \in {"attempted", "done", "raised"} : pc' = [pc EXCEPT ![i] = s]
    BY <1>6 DEF Task, Start, AnswerMalformed, RejectUnknown, Refuse,
                InvokeDirectly, Answered, DirectRaises
  <2>3. \A j \in Positions : pc'[j] = "waiting" => pc[j] = "waiting"
    BY <2>2 DEF TypeOK
  <2> QED
    BY <2>1, <2>3, ClaimInvStable
<1> QED
  BY <1>1, <1>2, <1>3, <1>4, <1>5, <1>6 DEF Next, Control

-----------------------------------------------------------------------------
(* Owners.                                                                   *)

(* When dispatch starts every task is queued and every table entry is the    *)
(* reservation of a call of the response.                                    *)
LEMMA OwnerInvTable ==
  ASSUME TypeOK, PlanInv, PhaseInv, FinishPlanning
  PROVE  OwnerInv'
<1>1. /\ response' = response /\ pc' = pc /\ phase = "planning"
      /\ Positions' = Positions
      /\ pending' = IF resv = <<>> THEN pending ELSE ReservationTable(resv)
  BY DEF FinishPlanning, responseVars, taskVars, Positions
<1>2. ASSUME NEW d \in DOMAIN pending'
      PROVE  \E i \in Positions : /\ response[i].id = d
                                   /\ response[i].kind = "known"
                                   /\ pc[i] \in {"queued", "attempted"}
  <2>1. pending' = ReservationTable(resv)
    BY <1>1, <1>2 DEF PhaseInv
  <2>2. PICK k \in 1..Len(resv) : IdOfRank(k) = d
    BY <1>2, <2>1, TableType
  <2>3. resv[k].pos \in Positions /\ response[resv[k].pos].kind = "known"
    <3>1. resv[k].pos \in 1..(cursor - 1) /\ cursor \in 1..(Len(response) + 1)
      BY DEF PlanInv
    <3>2. resv[k].pos \in Positions
      BY <3>1 DEF Positions, TypeOK
    <3> QED
      BY <3>2 DEF PlanInv
  <2>4. pc[resv[k].pos] = "queued"
    BY <1>1, <2>3 DEF PhaseInv
  <2> QED
    BY <2>2, <2>3, <2>4 DEF IdOfRank
<1> QED
  BY <1>1, <1>2 DEF OwnerInv

(* A task that moves on keeps its id's reservation owned: either it claims   *)
(* the reservation or there was none.                                        *)
LEMMA OwnerInvTask ==
  ASSUME TypeOK, OwnerInv, NEW i \in Positions, Task(i)
  PROVE  OwnerInv'
<1> SUFFICES ASSUME phase' = "dispatching", NEW d \in DOMAIN pending'
             PROVE  \E j \in Positions' : /\ response'[j].id = d
                                           /\ response'[j].kind = "known"
                                           /\ pc'[j] \in {"queued", "attempted"}
  BY DEF OwnerInv
<1>1. response' = response /\ Positions' = Positions /\ phase = "dispatching"
  BY DEF Task, Start, AnswerMalformed, RejectUnknown, Refuse, Claim, Commit,
         InvokeDirectly, DirectRaises, responseVars, Positions
<1>2. d \in DOMAIN pending
  BY DEF Task, Start, AnswerMalformed, RejectUnknown, Refuse, Claim, Commit,
         InvokeDirectly, DirectRaises, barrierVars
<1>3. PICK j \in Positions : /\ response[j].id = d
                             /\ response[j].kind = "known"
                             /\ pc[j] \in {"queued", "attempted"}
  BY <1>1, <1>2 DEF OwnerInv
<1>4. pc'[j] \in {"queued", "attempted"}
  <2>1. CASE j # i
    BY <1>3, <2>1 DEF Task, Start, AnswerMalformed, RejectUnknown, Refuse, Claim,
                      Commit, InvokeDirectly, Answered, DirectRaises, TypeOK
  <2>2. CASE j = i
    <3>1. ~Claim(i) /\ ~InvokeDirectly(i) /\ ~DirectRaises(i)
      BY <1>2, <1>3, <2>2 DEF Claim, InvokeDirectly, DirectRaises
    <3>2. ~AnswerMalformed(i) /\ ~Commit(i) /\ ~RejectUnknown(i)
      BY <1>1, <1>3, <2>2 DEF AnswerMalformed, Commit, RejectUnknown
    <3>3. Start(i)
      BY <3>1, <3>2 DEF Task
    <3> QED
      BY <2>2, <3>3 DEF Start, TypeOK
  <2> QED
    BY <2>1, <2>2
<1> QED
  BY <1>1, <1>3, <1>4

LEMMA OwnerInvNext ==
  ASSUME TypeOK, PlanInv, PhaseInv, OwnerInv, Next
  PROVE  OwnerInv'
<1>1. CASE Tick
  BY <1>1 DEF Tick, OwnerInv, Positions, responseVars, taskVars, barrierVars
<1>2. CASE FinishPlanning
  BY <1>2, OwnerInvTable
<1>3. ASSUME NEW i \in Positions, Task(i)
      PROVE  OwnerInv'
  BY <1>3, OwnerInvTask
<1>4. ASSUME ~Tick, ~FinishPlanning, Control \/ Finish \/ \E items \in Responses : Respond(items)
      PROVE  phase' # "dispatching"
  BY <1>4 DEF Control, PlanCall, PlanRaises, LeaveUnplanned, Planning,
              UsageEndsRun, EndRejecting, FinishResponse, Abort, Finish, Respond
<1> QED
  BY <1>1, <1>2, <1>3, <1>4 DEF Next, OwnerInv

-----------------------------------------------------------------------------
(* The barrier and the order of commits.                                     *)

LEMMA BarrierInvNext ==
  ASSUME TypeOK, PhaseInv, ClaimInv, BarrierInv, Next
  PROVE  BarrierInv'
<1>1. CASE FinishPlanning
  <2>1. commits' = <<>> /\ resv' = resv /\ Len(resv) \in Nat
    BY <1>1 DEF FinishPlanning, PhaseInv, TypeOK
  <2>2. resv # <<>> => opened' = {1} /\ Len(resv) >= 1
    BY <1>1 DEF FinishPlanning, TypeOK
  <2>3. Len(commits') = 0
    BY <2>1
  <2>4. resv # <<>> => (1..(0 + 1)) \cap (1..Len(resv)) = {1}
    BY <2>1, <2>2
  <2> QED
    BY <2>1, <2>2, <2>3, <2>4 DEF BarrierInv
<1>2. ASSUME NEW i \in Positions, Commit(i)
      PROVE  BarrierInv'
  <2>0. PICK r \in Nat : r = held[i] /\ r = Len(commits) + 1 /\ r \in 1..Len(resv)
    BY <1>2, CommitsNext DEF TypeOK
  <2>1. /\ Len(commits') = r /\ resv' = resv /\ Len(resv) \in Nat
        /\ phase = "dispatching"
        /\ opened' = opened \cup ({r + 1} \cap (1..Len(resv)))
    BY <1>2, <2>0 DEF Commit, TypeOK
  <2>2. opened = (1..r) \cap (1..Len(resv))
    BY <2>0, <2>1 DEF BarrierInv, TypeOK
  <2>3. opened' = (1..(r + 1)) \cap (1..Len(resv))
    BY <2>0, <2>1, <2>2
  <2> QED
    BY <2>1, <2>3 DEF BarrierInv
<1>3. ASSUME NEW i \in Positions, Task(i), ~Commit(i)
      PROVE  UNCHANGED <<phase, resv, commits, opened>>
  BY <1>3 DEF Task, Start, AnswerMalformed, RejectUnknown, Refuse, Claim,
              InvokeDirectly, DirectRaises, barrierVars
<1>4. CASE Tick
  BY <1>4 DEF Tick, BarrierInv, barrierVars
<1>5. ASSUME ~Tick, ~FinishPlanning, Control \/ Finish \/ \E items \in Responses : Respond(items)
      PROVE  phase' # "dispatching"
  BY <1>5 DEF Control, PlanCall, PlanRaises, LeaveUnplanned, Planning,
              UsageEndsRun, EndRejecting, FinishResponse, Abort, Finish, Respond
<1> QED
  BY <1>1, <1>2, <1>3, <1>4, <1>5 DEF Next, BarrierInv

LEMMA OrderNext ==
  ASSUME TypeOK, PhaseInv, ClaimInv, BarrierInv, CommitsInDecisionOrder, Next
  PROVE  CommitsInDecisionOrder'
<1>1. ASSUME NEW i \in Positions, Commit(i)
      PROVE  CommitsInDecisionOrder'
  <2>1. held[i] = Len(commits) + 1 /\ held[i] \in 1..Len(resv)
    BY <1>1, CommitsNext
  <2>2. commits' = Append(commits, Len(commits) + 1) /\ resv' = resv
    BY <1>1, <2>1 DEF Commit
  <2> QED
    BY <2>1, <2>2 DEF CommitsInDecisionOrder, TypeOK
<1>2. ASSUME NEW i \in Positions, Task(i), ~Commit(i)
      PROVE  UNCHANGED <<resv, commits>>
  BY <1>2 DEF Task, Start, AnswerMalformed, RejectUnknown, Refuse, Claim,
              InvokeDirectly, DirectRaises
<1>3. CASE PlanCall
  <2>1. /\ commits' = <<>>
        /\ \E x : resv' = Append(resv, x)
    BY <1>3 DEF PlanCall, Planning, PhaseInv
  <2> QED
    BY <2>1 DEF CommitsInDecisionOrder, TypeOK
<1>4. CASE \E items \in Responses : Respond(items)
  BY <1>4 DEF Respond, CommitsInDecisionOrder
<1>5. ASSUME ~PlanCall, Control \/ Tick \/ Finish
      PROVE  UNCHANGED <<resv, commits>>
  BY <1>5 DEF Control, PlanRaises, LeaveUnplanned, Planning, FinishPlanning,
              UsageEndsRun, EndRejecting, FinishResponse, Abort, Finish, Tick
<1> QED
  BY <1>1, <1>2, <1>3, <1>4, <1>5 DEF Next, CommitsInDecisionOrder

-----------------------------------------------------------------------------
(* Answers.                                                                  *)

(* The reservation a task commits is the one planned for its own call: no    *)
(* lower rank can share its id, since the lower ranks are committed and only *)
(* the last rank of an id ever is.                                           *)
LEMMA CommitsOwnCall ==
  ASSUME IndInv, NEW i \in Positions, Commit(i)
  PROVE  resv[held[i]].res.call = response[i].call
<1>0. PICK r \in Nat : r = held[i] /\ r = Len(commits) + 1 /\ r \in 1..Len(resv)
  BY CommitsNext DEF IndInv, TypeOK
<1>1. /\ IdOfRank(r) = response[i].id /\ LastOfId(r)
      /\ response[i].kind = "known"
  BY <1>0 DEF Commit, IndInv, ClaimInv
<1>2. i \in 1..(cursor - 1)
  BY DEF Commit, IndInv, PhaseInv, Positions, TypeOK
<1>3. PICK k \in 1..Len(resv) : resv[k].pos = i
  BY <1>1, <1>2 DEF IndInv, PlanInv
<1>4. IdOfRank(k) = IdOfRank(r)
  BY <1>1, <1>3 DEF IdOfRank
<1>5. k = r
  <2>1. ~(k > r)
    BY <1>0, <1>1, <1>4 DEF LastOfId, IndInv, TypeOK
  <2>2. ~(k < r)
    <3> SUFFICES ASSUME k < r PROVE FALSE
      OBVIOUS
    <3>1. k \in 1..Len(commits)
      BY <1>0 DEF IndInv, TypeOK
    <3>2. LastOfId(k)
      BY <3>1 DEF IndInv, ClaimInv
    <3> QED
      BY <1>0, <1>4, <3>2 DEF LastOfId, IndInv, TypeOK
  <2> QED
    BY <1>0, <2>1, <2>2
<1> QED
  BY <1>0, <1>3, <1>5 DEF IndInv, PlanInv

LEMMA AnswersNext ==
  ASSUME IndInv, Next
  PROVE  AnswersMatchCalls'
<1>1. ASSUME NEW items \in Responses, Respond(items)
      PROVE  AnswersMatchCalls'
  BY <1>1 DEF Respond, AnswersMatchCalls, Positions
<1>2. ASSUME Control \/ Tick \/ Finish
      PROVE  AnswersMatchCalls'
  <2>1. UNCHANGED <<response, answer>>
    BY <1>2 DEF Control, PlanCall, PlanRaises, LeaveUnplanned, Planning,
                FinishPlanning, UsageEndsRun, EndRejecting, FinishResponse,
                Abort, Finish, Tick, responseVars, taskVars
  <2> QED
    BY <2>1 DEF IndInv, AnswersMatchCalls, Positions
<1>3. ASSUME NEW i \in Positions, Task(i)
      PROVE  AnswersMatchCalls'
  <2>1. response' = response /\ Positions' = Positions
    BY <1>3 DEF Task, Start, AnswerMalformed, RejectUnknown, Refuse, Claim, Commit,
                InvokeDirectly, DirectRaises, responseVars, Positions
  <2>2. \/ answer' = answer
        \/ \E o : o.call = response[i].call /\ answer' = [answer EXCEPT ![i] = o]
    <3>1. CASE AnswerMalformed(i) \/ RejectUnknown(i)
      BY <3>1, SMTT(60) DEF AnswerMalformed, RejectUnknown, Refuse, AdapterOutcome
    <3>2. CASE Commit(i)
      BY <3>2, CommitsOwnCall DEF Commit, Answered, Outcome
    <3>3. CASE InvokeDirectly(i)
      BY <3>3 DEF InvokeDirectly, Answered, Outcome, Reserve
    <3>4. CASE Start(i) \/ Claim(i) \/ DirectRaises(i)
      BY <3>4 DEF Start, Claim, DirectRaises
    <3> QED
      BY <1>3, <3>1, <3>2, <3>3, <3>4 DEF Task
  <2> QED
    BY <2>1, <2>2 DEF IndInv, AnswersMatchCalls, TypeOK
<1> QED
  BY <1>1, <1>2, <1>3 DEF Next

(* The steps that change no answer and make no task unanswered.              *)
LEMMA AnswerInvNext ==
  ASSUME TypeOK, AnswerInv, Next
  PROVE  AnswerInv'
<1>1. ASSUME NEW items \in Responses, Respond(items)
      PROVE  AnswerInv'
  BY <1>1 DEF Respond, AnswerInv, Positions
<1>2. ASSUME Control \/ Tick \/ Finish
      PROVE  AnswerInv'
  <2>1. UNCHANGED <<response, answer, pc>>
    BY <1>2 DEF Control, PlanCall, PlanRaises, LeaveUnplanned, Planning,
                FinishPlanning, UsageEndsRun, EndRejecting, FinishResponse,
                Abort, Finish, Tick, responseVars, taskVars
  <2> QED
    BY <2>1 DEF AnswerInv, Positions
<1>3. ASSUME NEW i \in Positions, Task(i)
      PROVE  AnswerInv'
  <2>1. Positions' = Positions
    BY <1>3 DEF Task, Start, AnswerMalformed, RejectUnknown, Refuse, Claim, Commit,
                InvokeDirectly, DirectRaises, responseVars, Positions
  <2>2. CASE Start(i) \/ Claim(i) \/ DirectRaises(i)
    BY <2>1, <2>2 DEF Start, Claim, DirectRaises, AnswerInv, TypeOK
  <2>3. CASE AnswerMalformed(i) \/ RejectUnknown(i) \/ Commit(i) \/ InvokeDirectly(i)
    <3>1. /\ \E s \in {"done", "raised"} : pc' = [pc EXCEPT ![i] = s]
          /\ \E o : answer' = [answer EXCEPT ![i] = o]
      BY <2>3 DEF AnswerMalformed, RejectUnknown, Refuse, Commit, InvokeDirectly,
                  Answered
    <3> QED
      BY <2>1, <3>1 DEF AnswerInv, TypeOK
  <2> QED
    BY <1>3, <2>2, <2>3 DEF Task
<1> QED
  BY <1>1, <1>2, <1>3 DEF Next

-----------------------------------------------------------------------------
(* Nothing of a batch is left over.                                          *)

LEMMA HolderInvTask ==
  ASSUME TypeOK, ClaimInv, HolderInv, BarrierInv, NEW i \in Positions, Task(i)
  PROVE  HolderInv'
<1> SUFFICES ASSUME phase' = "dispatching",
                    NEW k \in (Len(commits') + 1)..Len(resv'), LastOfId(k)'
             PROVE  \/ \E d \in DOMAIN pending' : pending'[d] = k
                    \/ \E j \in Positions' : pc'[j] = "waiting" /\ held'[j] = k
  BY DEF HolderInv
<1>1. /\ response' = response /\ resv' = resv /\ Positions' = Positions
      /\ phase = "dispatching"
  BY DEF Task, Start, AnswerMalformed, RejectUnknown, Refuse, Claim, Commit,
         InvokeDirectly, DirectRaises, responseVars, Positions
<1>2. LastOfId(k)
  BY <1>1, RanksStable
<1>3. CASE Commit(i)
  <2>1. held[i] = Len(commits) + 1 /\ commits' = Append(commits, held[i])
    BY <1>3, CommitsNext DEF Commit
  <2>2. k \in (Len(commits) + 1)..Len(resv) /\ k # held[i]
    BY <1>1, <2>1 DEF TypeOK
  <2>3. \/ \E d \in DOMAIN pending : pending[d] = k
        \/ \E j \in Positions : pc[j] = "waiting" /\ held[j] = k
    BY <1>1, <1>2, <2>2 DEF HolderInv
  <2>4. \A j \in Positions : j # i => pc'[j] = pc[j]
    BY <1>3 DEF Commit, Answered, TypeOK
  <2> QED
    BY <1>1, <1>3, <2>2, <2>3, <2>4 DEF Commit
<1>4. CASE Claim(i)
  <2>1. k \in (Len(commits) + 1)..Len(resv)
    BY <1>1, <1>4 DEF Claim
  <2>2. \/ \E d \in DOMAIN pending : pending[d] = k
        \/ \E j \in Positions : pc[j] = "waiting" /\ held[j] = k
    BY <1>1, <1>2, <2>1 DEF HolderInv
  <2>3. /\ pc'[i] = "waiting" /\ held'[i] = pending[response[i].id]
        /\ \A j \in Positions : j # i => held'[j] = held[j] /\ pc'[j] = pc[j]
        /\ \A d \in DOMAIN pending : d # response[i].id =>
             d \in DOMAIN pending' /\ pending'[d] = pending[d]
    BY <1>4 DEF Claim, TypeOK
  <2>4. pc[i] # "waiting"
    BY <1>4 DEF Claim
  <2> QED
    BY <1>1, <2>2, <2>3, <2>4
<1>5. CASE ~Commit(i) /\ ~Claim(i)
  <2>1. UNCHANGED <<commits, pending, held>> /\ pc[i] # "waiting"
    BY <1>5 DEF Task, Start, AnswerMalformed, RejectUnknown, Refuse,
                InvokeDirectly, DirectRaises, barrierVars
  <2>2. \A j \in Positions : j # i => pc'[j] = pc[j]
    BY <1>5 DEF Task, Start, AnswerMalformed, RejectUnknown, Refuse,
                InvokeDirectly, Answered, DirectRaises, TypeOK
  <2>3. \/ \E d \in DOMAIN pending : pending[d] = k
        \/ \E j \in Positions : pc[j] = "waiting" /\ held[j] = k
    BY <1>1, <1>2, <2>1 DEF HolderInv
  <2> QED
    BY <1>1, <2>1, <2>2, <2>3
<1> QED
  BY <1>3, <1>4, <1>5

LEMMA HolderInvTable ==
  ASSUME TypeOK, PlanInv, PhaseInv, FinishPlanning
  PROVE  HolderInv'
<1>1. /\ response' = response /\ resv' = resv /\ commits' = commits
      /\ phase = "planning" /\ commits = <<>>
      /\ pending' = IF resv = <<>> THEN pending ELSE ReservationTable(resv)
  BY DEF FinishPlanning, responseVars, PhaseInv
<1> SUFFICES ASSUME NEW k \in 1..Len(resv), LastOfId(k)
             PROVE  \E d \in DOMAIN pending' : pending'[d] = k
  <2>1. \A k : LastOfId(k)' <=> LastOfId(k)
    BY <1>1, RanksStable
  <2>2. Len(commits') = 0
    BY <1>1
  <2> QED
    BY <1>1, <2>1, <2>2 DEF HolderInv
<1> DEFINE d == IdOfRank(k)
           t == ReservationTable(resv)
<1>2. pending' = t
  BY <1>1 DEF TypeOK
<1>3. d \in DOMAIN t
  BY DEF ReservationTable, IdsOf, IdOfRank
<1>4. t[d] \in 1..Len(resv) /\ IdOfRank(t[d]) = d /\ LastOfId(t[d])
  BY <1>3, TableType
<1>5. t[d] = k
  <2> HIDE DEF t
  <2>1. ~(k > t[d]) /\ ~(k < t[d])
    BY <1>4 DEF LastOfId, TypeOK
  <2> QED
    BY <1>4, <2>1
<1> QED
  BY <1>2, <1>3, <1>5

LEMMA HolderInvNext ==
  ASSUME TypeOK, PlanInv, PhaseInv, ClaimInv, BarrierInv, HolderInv, Next
  PROVE  HolderInv'
<1>1. CASE Tick
  <2>1. UNCHANGED <<phase, commits, resv, response, pending, pc, held>>
    BY <1>1 DEF Tick, responseVars, taskVars, barrierVars
  <2> QED
    BY <2>1, RanksStable DEF HolderInv, Positions
<1>2. CASE FinishPlanning
  BY <1>2, HolderInvTable
<1>3. ASSUME NEW i \in Positions, Task(i)
      PROVE  HolderInv'
  BY <1>3, HolderInvTask
<1>4. ASSUME ~Tick, ~FinishPlanning, Control \/ Finish \/ \E items \in Responses : Respond(items)
      PROVE  phase' # "dispatching"
  BY <1>4 DEF Control, PlanCall, PlanRaises, LeaveUnplanned, Planning,
              UsageEndsRun, EndRejecting, FinishResponse, Abort, Finish, Respond
<1> QED
  BY <1>1, <1>2, <1>3, <1>4 DEF Next, HolderInv

(* Commits in order: what is outstanding are the ranks after the last.       *)
LEMMA OutstandingRanks ==
  ASSUME TypeOK, CommitsInDecisionOrder
  PROVE  Outstanding = (Len(commits) + 1)..Len(resv)
BY DEF Outstanding, CommitsInDecisionOrder, TypeOK

(* The last rank of a batch is the last of its id, so when no task holds a   *)
(* rank and the table is empty all ranks are committed.                      *)
LEMMA BatchDone ==
  ASSUME TypeOK, OwnerInv, HolderInv, CommitsInDecisionOrder, FinishResponse
  PROVE  Outstanding = {}
<1>1. phase = "dispatching" /\ \A i \in Positions : pc[i] = "done"
  BY DEF FinishResponse
<1>2. DOMAIN pending = {}
  BY TableDrained
<1>3. ~(Len(commits) < Len(resv))
  <2> SUFFICES ASSUME Len(commits) < Len(resv) PROVE FALSE
    OBVIOUS
  <2>1. Len(resv) \in (Len(commits) + 1)..Len(resv) /\ LastOfId(Len(resv))
    BY DEF LastOfId, TypeOK
  <2> QED
    BY <1>1, <1>2, <2>1 DEF HolderInv
<1> QED
  BY <1>3, OutstandingRanks DEF TypeOK

LEMMA DrainedNext ==
  ASSUME TypeOK, OwnerInv, HolderInv, CommitsInDecisionOrder,
         ReservationsDrained, Next
  PROVE  ReservationsDrained'
<1>1. CASE FinishResponse
  <2>1. UNCHANGED <<resv, commits, pending>>
    BY <1>1 DEF FinishResponse, barrierVars
  <2> QED
    BY <1>1, <2>1, BatchDone, TableDrained DEF ReservationsDrained, Outstanding
<1>2. CASE Tick
  BY <1>2 DEF Tick, ReservationsDrained, Outstanding, barrierVars
<1>3. ASSUME NEW i \in Positions, Task(i)
      PROVE  phase' # "model"
  BY <1>3 DEF Task, Start, AnswerMalformed, RejectUnknown, Refuse, Claim, Commit,
              InvokeDirectly, DirectRaises
<1>4. ASSUME ~FinishResponse, Control \/ Finish \/ \E items \in Responses : Respond(items)
      PROVE  phase' # "model"
  BY <1>4 DEF Control, PlanCall, PlanRaises, LeaveUnplanned, Planning,
              FinishPlanning, UsageEndsRun, EndRejecting, Abort, Finish, Respond
<1> QED
  BY <1>1, <1>2, <1>3, <1>4 DEF Next, ReservationsDrained

-----------------------------------------------------------------------------
(* Single-use fixtures.                                                      *)

FixturesInv == UsedInv /\ SingleUseFixtures

(* Steps that hand out no fixture.                                           *)
LEMMA FixturesStable ==
  ASSUME FixturesInv, log' = log, plan'.used = plan.used,
         Outstanding' \subseteq Outstanding,
         \A k \in Outstanding' : resv'[k] = resv[k]
  PROVE  FixturesInv'
<1>1. UsedInv'
  BY DEF FixturesInv, UsedInv
<1>2. SingleUseFixtures'
  BY DEF FixturesInv, SingleUseFixtures
<1> QED
  BY <1>1, <1>2 DEF FixturesInv

(* A batch call is assigned a fixture nobody had.                            *)
LEMMA FixturesPlanCall ==
  ASSUME TypeOK, PhaseInv, FixturesInv, PlanCall
  PROVE  FixturesInv'
<1> DEFINE new == Reserve(plan, response[cursor].call, clock)
<1>1. /\ response[cursor].call \in Calls /\ clock \in Nat /\ plan \in PlanType
      /\ ~Ambiguous(plan, response[cursor].call, clock)
  BY ItemTyped DEF PlanCall, Planning, TypeOK
<1>2. PICK n \in Nat : n = Len(resv) + 1
  BY DEF TypeOK
<1>3. /\ plan.used \subseteq plan'.used
      /\ new.fixture \in SingleUse => new.fixture \notin plan.used /\ new.fixture \in plan'.used
  BY <1>1, FreshFixture DEF PlanCall
<1>4. /\ log' = log /\ commits' = commits /\ commits = <<>>
      /\ Len(resv') = n /\ resv'[n].res = new
      /\ \A k \in 1..Len(resv) : resv'[k] = resv[k]
  BY <1>2 DEF PlanCall, Planning, PhaseInv, TypeOK
<1>5. Outstanding = 1..Len(resv) /\ Outstanding' = 1..n
  BY <1>4 DEF Outstanding
<1>6. \A k \in Outstanding' : k \in Outstanding \/ k = n
  BY <1>2, <1>5 DEF TypeOK
<1>7. \A k \in Outstanding : resv'[k] = resv[k]
  BY <1>4, <1>5
<1>8. UsedInv'
  BY <1>3, <1>4, <1>6, <1>7 DEF FixturesInv, UsedInv
<1>9. SingleUseFixtures'
  BY <1>3, <1>4, <1>6, <1>7 DEF FixturesInv, UsedInv, SingleUseFixtures
<1> QED
  BY <1>8, <1>9 DEF FixturesInv

(* A commit moves a fixture from the batch to the log.                       *)
LEMMA FixturesCommit ==
  ASSUME TypeOK, ClaimInv, BarrierInv, CommitsInDecisionOrder, FixturesInv,
         NEW i \in Positions, Commit(i)
  PROVE  FixturesInv'
<1>0. PICK r \in Nat : r = held[i] /\ r = Len(commits) + 1 /\ r \in 1..Len(resv)
  BY CommitsNext DEF TypeOK
<1>1. PICK m \in Nat : m = Len(log) + 1
  BY DEF TypeOK
<1>2. /\ plan' = plan /\ resv' = resv
      /\ Len(log') = m /\ log'[m].fixture = resv[r].res.fixture
      /\ \A k \in 1..Len(log) : log'[k] = log[k]
  BY <1>0, <1>1 DEF Commit, Answered, Outcome, budgetVars, TypeOK
<1>3. r \in Outstanding
  BY <1>0, OutstandingRanks DEF TypeOK
<1>4. \A k \in Outstanding' : k \in Outstanding /\ k # r
  <2>1. Len(commits') = r /\ commits'[r] = r
        /\ \A n \in 1..Len(commits) : commits'[n] = commits[n]
    BY <1>0 DEF Commit, TypeOK
  <2> QED
    BY <1>0, <1>2, <2>1, SMTT(60) DEF Outstanding, TypeOK
<1>5. \A k \in 1..Len(log') : k \in 1..Len(log) \/ k = m
  <2>1. Len(log) \in Nat
    BY DEF TypeOK
  <2> QED
    BY <1>1, <1>2, <2>1
<1>6. UsedInv'
  BY <1>2, <1>3, <1>4, <1>5 DEF FixturesInv, UsedInv
<1>7. SingleUseFixtures'
  <2>1. \A k \in 1..Len(log) :
          log[k].fixture \in SingleUse => log'[m].fixture # log[k].fixture
    BY <1>2, <1>3 DEF FixturesInv, SingleUseFixtures
  <2>2. \A k \in Outstanding' :
          log'[m].fixture \in SingleUse => resv[k].res.fixture # log'[m].fixture
    BY <1>2, <1>3, <1>4, ZenonT(60) DEF FixturesInv, SingleUseFixtures
  <2>3. \A k, n \in 1..Len(log') :
          k # n /\ log'[k].fixture \in SingleUse => log'[n].fixture # log'[k].fixture
    BY <1>2, <1>5, <2>1 DEF FixturesInv, SingleUseFixtures
  <2>4. \A k \in 1..Len(log'), n \in Outstanding' :
          log'[k].fixture \in SingleUse => resv[n].res.fixture # log'[k].fixture
    BY <1>2, <1>4, <1>5, <2>2 DEF FixturesInv, SingleUseFixtures
  <2>5. \A k, n \in Outstanding' :
          k # n /\ resv[k].res.fixture \in SingleUse =>
            resv[n].res.fixture # resv[k].res.fixture
    BY <1>4 DEF FixturesInv, SingleUseFixtures
  <2> QED
    BY <1>2, <2>3, <2>4, <2>5 DEF SingleUseFixtures
<1> QED
  BY <1>6, <1>7 DEF FixturesInv

(* A direct invocation gets a fixture nobody had and logs it.                *)
LEMMA FixturesInvokeDirectly ==
  ASSUME TypeOK, FixturesInv, NEW i \in Positions, InvokeDirectly(i)
  PROVE  FixturesInv'
<1> DEFINE new == Reserve(plan, response[i].call, clock)
<1>1. /\ response[i].call \in Calls /\ clock \in Nat /\ plan \in PlanType
      /\ ~Ambiguous(plan, response[i].call, clock)
  BY ItemTyped DEF InvokeDirectly, TypeOK
<1>2. PICK m \in Nat : m = Len(log) + 1
  BY DEF TypeOK
<1>3. /\ plan.used \subseteq plan'.used
      /\ new.fixture \in SingleUse => new.fixture \notin plan.used /\ new.fixture \in plan'.used
  BY <1>1, FreshFixture DEF InvokeDirectly
<1>4. /\ resv' = resv /\ Outstanding' = Outstanding
      /\ Len(log') = m /\ log'[m].fixture = new.fixture
      /\ \A k \in 1..Len(log) : log'[k] = log[k]
  BY <1>2 DEF InvokeDirectly, Answered, Outcome, Outstanding, TypeOK
<1>5. \A k \in 1..Len(log') : k \in 1..Len(log) \/ k = m
  BY <1>2, <1>4 DEF TypeOK
<1>6. UsedInv'
  BY <1>3, <1>4, <1>5 DEF FixturesInv, UsedInv
<1>7. SingleUseFixtures'
  BY <1>3, <1>4, <1>5 DEF FixturesInv, UsedInv, SingleUseFixtures
<1> QED
  BY <1>6, <1>7 DEF FixturesInv

LEMMA FixturesNext ==
  ASSUME TypeOK, PhaseInv, ClaimInv, BarrierInv, CommitsInDecisionOrder,
         FixturesInv, Next
  PROVE  FixturesInv'
<1>1. ASSUME NEW items \in Responses, Respond(items)
      PROVE  FixturesInv'
  <2>1. log' = log /\ plan' = plan /\ Outstanding' = {}
    BY <1>1 DEF Respond, Outstanding, budgetVars
  <2> QED
    BY <2>1, FixturesStable
<1>2. CASE PlanCall
  BY <1>2, FixturesPlanCall
<1>3. CASE PlanRaises
  <2>1. log' = log /\ plan'.used = plan.used /\ resv' = resv /\ commits' = commits
    BY <1>3, ItemTyped, ChargedUses, SMTT(60) DEF PlanRaises, Planning, TypeOK
  <2> QED
    BY <2>1, FixturesStable DEF Outstanding
<1>4. ASSUME ~PlanCall, ~PlanRaises, Control \/ Tick \/ Finish
      PROVE  FixturesInv'
  <2>1. UNCHANGED <<log, plan, resv, commits>>
    BY <1>4 DEF Control, LeaveUnplanned, Planning, FinishPlanning, UsageEndsRun,
                EndRejecting, FinishResponse, Abort, Finish, Tick, budgetVars
  <2> QED
    BY <2>1, FixturesStable DEF Outstanding
<1>5. ASSUME NEW i \in Positions, Commit(i) \/ InvokeDirectly(i)
      PROVE  FixturesInv'
  BY <1>5, FixturesCommit, FixturesInvokeDirectly
<1>6. ASSUME NEW i \in Positions, Task(i), ~Commit(i), ~InvokeDirectly(i)
      PROVE  FixturesInv'
  <2>1. UNCHANGED <<log, resv, commits>>
    BY <1>6 DEF Task, Start, AnswerMalformed, RejectUnknown, Refuse, Claim,
                DirectRaises
  <2>2. plan'.used = plan.used
    <3>1. CASE Start(i) \/ Claim(i)
      BY <3>1 DEF Start, Claim, budgetVars
    <3>2. CASE AnswerMalformed(i) \/ RejectUnknown(i)
      BY <3>2, ItemTyped, ChargedUses DEF AnswerMalformed, RejectUnknown, Refuse, TypeOK
    <3>3. CASE DirectRaises(i)
      BY <3>3, ItemTyped, ChargedUses DEF DirectRaises, TypeOK
    <3> QED
      BY <1>6, <3>1, <3>2, <3>3 DEF Task
  <2> QED
    BY <2>1, <2>2, FixturesStable DEF Outstanding
<1> QED
  BY <1>1, <1>2, <1>3, <1>4, <1>5, <1>6 DEF Next

-----------------------------------------------------------------------------
(* Outcomes and answers.                                                     *)

AnsweredCalls ==
  {i \in Positions : response[i].kind = "known" /\ answer[i] # NoAnswer}

LEMMA OutcomeNotNoAnswer ==
  ASSUME NEW r, NEW w
  PROVE  Outcome(r, w) # NoAnswer
<1>1. "status" \in DOMAIN Outcome(r, w)
  BY DEF Outcome
<1>2. "status" \notin DOMAIN NoAnswer
  BY DEF NoAnswer
<1> QED
  BY <1>1, <1>2

(* Answering a call for the gateway adds one outcome and one answer.         *)
LEMMA OneMoreAnswer ==
  ASSUME TypeOK, AnswerInv, OneOutcomePerAnswer, NEW i \in Positions,
         NEW r, NEW w, Answered(i, Outcome(r, w)), response[i].kind = "known",
         pc[i] \in {"attempted", "waiting"}, response' = response, base' = base
  PROVE  OneOutcomePerAnswer'
<1>1. i \notin AnsweredCalls
  BY DEF AnsweredCalls, AnswerInv
<1>2. AnsweredCalls' = AnsweredCalls \cup {i}
  BY OutcomeNotNoAnswer DEF AnsweredCalls, Answered, TypeOK, Positions
<1>3. IsFiniteSet(AnsweredCalls)
  <2>1. IsFiniteSet(Positions)
    BY FS_Interval DEF Positions, TypeOK
  <2> QED
    BY <2>1, FS_Subset DEF AnsweredCalls
<1>4. Cardinality(AnsweredCalls') = Cardinality(AnsweredCalls) + 1
  BY <1>1, <1>2, <1>3, FS_AddElement
<1>5. Len(log') = Len(log) + 1 /\ Len(log) \in Nat /\ base.logged \in Nat
  BY DEF Answered, TypeOK
<1>6. Cardinality(AnsweredCalls) \in Nat
  BY <1>3, FS_CardinalityType
<1> QED
  BY <1>4, <1>5, <1>6 DEF OneOutcomePerAnswer, AnsweredCalls

LEMMA OneOutcomeNext ==
  ASSUME TypeOK, ClaimInv, AnswerInv, OneOutcomePerAnswer, Next
  PROVE  OneOutcomePerAnswer'
<1>1. ASSUME NEW items \in Responses, Respond(items)
      PROVE  OneOutcomePerAnswer'
  <2>1. log' = log /\ base'.logged = Len(log) /\ Len(log) \in Nat
    BY <1>1 DEF Respond, TypeOK
  <2>2. AnsweredCalls' = {}
    BY <1>1 DEF Respond, AnsweredCalls, Positions
  <2>3. Cardinality(AnsweredCalls') = 0
    BY <2>2, FS_EmptySet
  <2>4. OneOutcomePerAnswer' <=> Len(log') - base'.logged = Cardinality(AnsweredCalls')
    BY DEF OneOutcomePerAnswer, AnsweredCalls
  <2> QED
    BY <2>1, <2>3, <2>4
<1>2. ASSUME Control \/ Tick \/ Finish
      PROVE  OneOutcomePerAnswer'
  <2>1. UNCHANGED <<response, answer, log, base>>
    BY <1>2 DEF Control, PlanCall, PlanRaises, LeaveUnplanned, Planning,
                FinishPlanning, UsageEndsRun, EndRejecting, FinishResponse,
                Abort, Finish, Tick, responseVars, taskVars
  <2> QED
    BY <2>1 DEF OneOutcomePerAnswer, Positions
<1>3. ASSUME NEW i \in Positions, Start(i) \/ Claim(i) \/ DirectRaises(i)
      PROVE  OneOutcomePerAnswer'
  <2>1. UNCHANGED <<response, answer, log, base>>
    BY <1>3 DEF Start, Claim, DirectRaises, responseVars
  <2> QED
    BY <2>1 DEF OneOutcomePerAnswer, Positions
<1>4. ASSUME NEW i \in Positions, AnswerMalformed(i) \/ RejectUnknown(i)
      PROVE  OneOutcomePerAnswer'
  <2>1. /\ UNCHANGED <<response, log, base>> /\ response[i].kind # "known"
        /\ \A j \in Positions : j # i => answer'[j] = answer[j]
    BY <1>4 DEF AnswerMalformed, RejectUnknown, Refuse, responseVars, TypeOK
  <2>2. AnsweredCalls' = AnsweredCalls
    BY <2>1 DEF AnsweredCalls, Positions
  <2> QED
    BY <2>1, <2>2 DEF OneOutcomePerAnswer, AnsweredCalls
<1>5. ASSUME NEW i \in Positions, Commit(i)
      PROVE  OneOutcomePerAnswer'
  BY <1>5, OneMoreAnswer DEF Commit, ClaimInv, responseVars
<1>6. ASSUME NEW i \in Positions, InvokeDirectly(i)
      PROVE  OneOutcomePerAnswer'
  BY <1>6, OneMoreAnswer DEF InvokeDirectly, responseVars
<1> QED
  BY <1>1, <1>2, <1>3, <1>4, <1>5, <1>6 DEF Next, Task

-----------------------------------------------------------------------------
(* The invariant.                                                            *)

LEMMA IndInvInit == Init => IndInv
<1> SUFFICES ASSUME Init PROVE IndInv
  OBVIOUS
<1>1. TypeOK
  BY TypeInit
<1>2. /\ Len(response) = 0 /\ Len(resv) = 0 /\ Len(commits) = 0 /\ Len(log) = 0
      /\ Positions = {} /\ cursor = 1 /\ phase = "model"
      /\ DOMAIN pending = {} /\ base.logged = 0 /\ Outstanding = {}
  BY DEF Init, Positions, Outstanding
<1>3. OneOutcomePerAnswer
  <2>1. AnsweredCalls = {}
    BY <1>2 DEF AnsweredCalls
  <2> QED
    BY <1>2, <2>1, FS_EmptySet DEF OneOutcomePerAnswer, AnsweredCalls
<1> QED
  BY <1>1, <1>2, <1>3
     DEF IndInv, PlanInv, PhaseInv, ClaimInv, OwnerInv, BarrierInv,
         CommitsInDecisionOrder, AnswersMatchCalls, HolderInv, AnswerInv, UsedInv,
         ReservationsDrained, SingleUseFixtures

LEMMA IndInvStutter ==
  ASSUME IndInv, UNCHANGED vars
  PROVE  IndInv'
<1>1. (TypeOK /\ PlanInv /\ PhaseInv /\ ClaimInv)'
  BY DEF vars, IndInv, TypeOK, PlanInv, PhaseInv, ClaimInv, IdOfRank, LastOfId,
         Positions
<1>2. (OwnerInv /\ BarrierInv /\ CommitsInDecisionOrder /\ AnswersMatchCalls)'
  BY DEF vars, IndInv, OwnerInv, BarrierInv, CommitsInDecisionOrder,
         AnswersMatchCalls, Positions
<1>3. (HolderInv /\ AnswerInv)'
  BY DEF vars, IndInv, HolderInv, AnswerInv, IdOfRank, LastOfId, Positions
<1>4. (UsedInv /\ ReservationsDrained /\ SingleUseFixtures /\ OneOutcomePerAnswer)'
  BY DEF vars, IndInv, UsedInv, ReservationsDrained, SingleUseFixtures,
         OneOutcomePerAnswer, Outstanding, Positions
<1> QED
  BY <1>1, <1>2, <1>3, <1>4 DEF IndInv

LEMMA IndInvNext == IndInv /\ [Next]_vars => IndInv'
<1> SUFFICES ASSUME IndInv, [Next]_vars PROVE IndInv'
  OBVIOUS
<1>1. CASE Next
  <2>1. FixturesInv'
    BY <1>1, FixturesNext DEF IndInv, FixturesInv
  <2> QED
    BY <1>1, <2>1, TypeNext, PlanInvNext, PhaseInvNext, ClaimInvNext, OwnerInvNext,
       BarrierInvNext, OrderNext, AnswersNext, HolderInvNext, AnswerInvNext,
       DrainedNext, OneOutcomeNext DEF IndInv, FixturesInv
<1>2. CASE UNCHANGED vars
  BY <1>2, IndInvStutter
<1> QED
  BY <1>1, <1>2

LEMMA Invariance == Spec => []IndInv
<1> QED
  BY IndInvInit, IndInvNext, PTL DEF Spec

(* Every variable keeps its type, whatever the scenario and the model do.    *)
THEOREM TypeCorrect == Spec => []TypeOK
<1>1. IndInv => TypeOK
  BY DEF IndInv
<1> QED
  BY <1>1, Invariance, PTL

(* Reservations are committed in the order they were planned, each at most   *)
(* once, for any number of tasks and any repetition of call ids              *)
(* (LaunchBarrier.run_in_order, _invoke_reserved_or_direct).                 *)
THEOREM OrderCorrect == Spec => []CommitsInDecisionOrder
<1>1. IndInv => CommitsInDecisionOrder
  BY DEF IndInv
<1> QED
  BY <1>1, Invariance, PTL

(* The answer the model reads for a call is the outcome of that call, also   *)
(* when it gives several calls of a response the same id.                    *)
THEOREM AnswersCorrect == Spec => []AnswersMatchCalls
<1>1. IndInv => AnswersMatchCalls
  BY DEF IndInv
<1> QED
  BY <1>1, Invariance, PTL

(* A single-use fixture answers at most one call, among calls planned in a   *)
(* batch and calls invoked directly (_select_fixture, plan_batch, invoke).   *)
THEOREM FixturesCorrect == Spec => []SingleUseFixtures
<1>1. IndInv => SingleUseFixtures
  BY DEF IndInv
<1> QED
  BY <1>1, Invariance, PTL

(* Every answered call that was for the gateway left one outcome in it and   *)
(* nothing else did (a popped reservation is committable at most once).      *)
THEOREM OutcomesCorrect == Spec => []OneOutcomePerAnswer
<1>1. IndInv => OneOutcomePerAnswer
  BY DEF IndInv
<1> QED
  BY <1>1, Invariance, PTL

(* When a response is finished no reservation of its batch is left, neither  *)
(* claimable nor uncommitted (capture.pending_reservations).                 *)
THEOREM DrainCorrect == Spec => []ReservationsDrained
<1>1. IndInv => ReservationsDrained
  BY DEF IndInv
<1> QED
  BY <1>1, Invariance, PTL

-----------------------------------------------------------------------------
(* A regular response is dispatched as a serial gateway would have answered   *)
(* it.  Beside IndInv this needs to know how the reservations hang together.  *)

(* The planning state and the time after the first k reservations.           *)
PlanAfter(k) == IF k = 0 THEN base.plan ELSE resv[k].plan
TimeAfter(k) == IF k = 0 THEN base.at ELSE resv[k].at

(* Each reservation was planned in the state the one before it left.         *)
InChain(k) ==
  LET c == resv[k].res.call IN
  /\ ~Ambiguous(PlanAfter(k - 1), c, resv[k].at)
  /\ resv[k].res = Reserve(PlanAfter(k - 1), c, resv[k].at)
  /\ resv[k].plan = Planned(PlanAfter(k - 1), c, resv[k].at)
  /\ TimeAfter(k - 1) <= resv[k].at
  /\ resv[k].at <= clock

ChainInv ==
  /\ base.at <= clock
  /\ clock <= MaxClock
  /\ \A k \in 1..Len(resv) : InChain(k)

(* The responses SerialEquivalence speaks of.                                *)
Regular == DistinctIds /\ OnlyPlannable

(* Nothing but the reservations of a regular response moves the plan.        *)
CurrentInv ==
  phase = "planning" \/ (Regular /\ phase # "ended") => plan = PlanAfter(Len(resv))

(* No task of a regular response finds the table without its reservation.    *)
ClaimableInv ==
  Regular /\ phase = "dispatching" =>
    \A i \in Positions :
      pc[i] \in {"queued", "attempted"} => response[i].id \in DOMAIN pending

(* The responses so far fit the bound on the serial gateway's log.           *)
SizeInv ==
  /\ Len(response) <= MaxBatch
  /\ turns <= MaxResponses
  /\ turns = 0 => response = <<>> /\ log = <<>>
  /\ turns # 0 => base.logged + MaxBatch <= turns * MaxBatch

SerialInv == ChainInv /\ CurrentInv /\ ClaimableInv /\ SizeInv

-----------------------------------------------------------------------------
(* The serial gateway of the refinement plans by the same rules. *)

LEMMA SameOutranks ==
  \A f, g : Serial!Outranks(f, g) <=> Outranks(f, g)
BY DEF Outranks, Serial!Outranks

LEMMA SameCandidates ==
  \A p, c : Serial!Candidates(p, c) = Candidates(p, c)
BY DEF Candidates, Serial!Candidates

LEMMA SameBest ==
  \A p, c : Serial!Best(p, c) = Best(p, c)
BY SameOutranks, SameCandidates DEF Best, Serial!Best

LEMMA SameChosen ==
  \A p, c : Serial!Chosen(p, c) = Chosen(p, c)
<1> SUFFICES ASSUME NEW p, NEW c PROVE Serial!Chosen(p, c) = Chosen(p, c)
  OBVIOUS
<1>1. Serial!Best(p, c) = Best(p, c)
  BY SameBest
<1> QED
  BY <1>1 DEF Chosen, Serial!Chosen

LEMMA SameVerdict ==
  \A p, c, now : Serial!Verdict(p, c, now) = Verdict(p, c, now)
BY SameCandidates, SameChosen
   DEF Verdict, Serial!Verdict, OutOfTime, Serial!OutOfTime, Exceeds,
       Serial!Exceeds, OutOfCalls, Serial!OutOfCalls, OutOfRetries,
       Serial!OutOfRetries, IsRetry, Serial!IsRetry

LEMMA SameAmbiguous ==
  \A p, c, now : /\ Serial!TakesFixture(p, c, now) <=> TakesFixture(p, c, now)
                 /\ Serial!Ambiguous(p, c, now) <=> Ambiguous(p, c, now)
BY SameVerdict, SameBest
   DEF TakesFixture, Serial!TakesFixture, Ambiguous, Serial!Ambiguous

LEMMA SameReserve ==
  \A p, c, now : Serial!Reserve(p, c, now) = Reserve(p, c, now)
BY SameVerdict, SameChosen DEF Reserve, Serial!Reserve

LEMMA SameCharged ==
  \A p, c, now : Serial!Charged(p, c, now) = Charged(p, c, now)
<1> SUFFICES ASSUME NEW p, NEW c, NEW now
             PROVE  Serial!Charged(p, c, now) = Charged(p, c, now)
  OBVIOUS
<1> DEFINE ChargedFor(v, over, retry) ==
             IF v \in over THEN p
             ELSE [p EXCEPT
                     !.calls = @ + 1,
                     !.index[ToolOf[c]] = @ + 1,
                     !.retries = IF retry /\ v # "retry_budget_exceeded"
                                 THEN @ + 1 ELSE @]
<1>1. Charged(p, c, now) =
        ChargedFor(Verdict(p, c, now), OverBudgetCodes, IsRetry(p, c))
  BY Zenon DEF Charged
<1>2. Serial!Charged(p, c, now) =
        ChargedFor(Serial!Verdict(p, c, now), Serial!OverBudgetCodes,
                   Serial!IsRetry(p, c))
  BY Zenon DEF Serial!Charged
<1>3. /\ Serial!OverBudgetCodes = OverBudgetCodes
      /\ Serial!IsRetry(p, c) = IsRetry(p, c)
      /\ Serial!Verdict(p, c, now) = Verdict(p, c, now)
  BY SameVerdict
     DEF OverBudgetCodes, Serial!OverBudgetCodes, IsRetry, Serial!IsRetry
<1> HIDE DEF ChargedFor
<1> QED
  BY <1>1, <1>2, <1>3

LEMMA SamePlanned ==
  \A p, c, now : Serial!Planned(p, c, now) = Planned(p, c, now)
<1> SUFFICES ASSUME NEW p, NEW c, NEW now
             PROVE  Serial!Planned(p, c, now) = Planned(p, c, now)
  OBVIOUS
<1> DEFINE PlannedFor(q, f, v, taken) ==
             [q EXCEPT
                !.used = IF taken /\ ~f.repeat THEN @ \cup {f} ELSE @,
                !.simulated = IF v = "granted" THEN @ + f.latency ELSE @,
                !.status[c] = IF v = "granted" THEN f.status ELSE "blocked"]
<1>1. Planned(p, c, now) =
        PlannedFor(Charged(p, c, now), Chosen(p, c), Verdict(p, c, now),
                   TakesFixture(p, c, now))
  BY Zenon DEF Planned
<1>2. Serial!Planned(p, c, now) =
        PlannedFor(Serial!Charged(p, c, now), Serial!Chosen(p, c),
                   Serial!Verdict(p, c, now), Serial!TakesFixture(p, c, now))
  BY Zenon DEF Serial!Planned
<1>3. /\ Serial!Charged(p, c, now) = Charged(p, c, now)
      /\ Serial!Chosen(p, c) = Chosen(p, c)
      /\ Serial!Verdict(p, c, now) = Verdict(p, c, now)
  BY SameCharged, SameChosen, SameVerdict
<1>4. Serial!TakesFixture(p, c, now) = TakesFixture(p, c, now)
  BY <1>3 DEF TakesFixture, Serial!TakesFixture
<1> HIDE DEF PlannedFor
<1> QED
  BY <1>1, <1>2, <1>3, <1>4

LEMMA SameCommit ==
  \A r, w : /\ Serial!WorldAfter(r, w) = WorldAfter(r, w)
            /\ Serial!Outcome(r, w) = Outcome(r, w)
BY DEF WorldAfter, Serial!WorldAfter, Outcome, Serial!Outcome, EffectsApply,
       Serial!EffectsApply, Commits, Serial!Commits, Touched, Serial!Touched

-----------------------------------------------------------------------------
(* The chain of reservations.                                                *)

LEMMA SerialInvInit == Init => SerialInv
<1> SUFFICES ASSUME Init PROVE SerialInv
  OBVIOUS
<1>1. Len(resv) = 0 /\ base.at = 0 /\ clock = 0 /\ base.plan = plan
      /\ phase = "model" /\ Len(response) = 0 /\ turns = 0
  BY DEF Init
<1>2. /\ MaxClock \in Nat /\ MaxBatch \in Nat /\ MaxResponses \in Nat
  BY DispatchAssumption
<1>3. ChainInv
  BY <1>1, <1>2 DEF ChainInv
<1>4. CurrentInv /\ ClaimableInv
  BY <1>1 DEF CurrentInv, ClaimableInv, PlanAfter
<1>5. SizeInv
  BY <1>1, <1>2 DEF SizeInv, Init
<1> QED
  BY <1>3, <1>4, <1>5 DEF SerialInv

(* The serial view of the state is the chain up to the last commit.          *)
LEMMA SerialView ==
  ASSUME TypeOK, CommitsInDecisionOrder
  PROVE  /\ Len(commits) \in Nat /\ Len(resv) \in Nat
         /\ Len(commits) <= Len(resv)
         /\ SerialPlan = PlanAfter(Len(commits))
         /\ SerialClock = TimeAfter(Len(commits))
BY DEF TypeOK, CommitsInDecisionOrder, SerialPlan, SerialClock, PlanAfter,
       TimeAfter

LEMMA SerialClockPast ==
  ASSUME TypeOK, CommitsInDecisionOrder, ChainInv
  PROVE  SerialClock \in Nat /\ SerialClock <= clock
<1>1. CASE Len(commits) = 0
  BY <1>1, SerialView DEF TimeAfter, ChainInv, TypeOK
<1>2. CASE Len(commits) # 0
  <2>1. Len(commits) \in 1..Len(resv)
    BY <1>2, SerialView
  <2>2. resv[Len(commits)] \in RankType
    BY <2>1 DEF TypeOK
  <2>3. SerialClock = resv[Len(commits)].at
    BY <1>2, SerialView DEF TimeAfter
  <2> QED
    BY <2>1, <2>2, <2>3 DEF ChainInv, InChain, RankType
<1> QED
  BY <1>1, <1>2

LEMMA ChainInvStable ==
  ASSUME TypeOK, ChainInv, UNCHANGED <<resv, base>>,
         clock' \in Nat, clock <= clock', clock' <= MaxClock
  PROVE  ChainInv'
<1>1. \A k : PlanAfter(k)' = PlanAfter(k) /\ TimeAfter(k)' = TimeAfter(k)
  BY DEF PlanAfter, TimeAfter
<1>2. base.at \in Nat /\ clock \in Nat /\ base'.at <= clock'
  BY DEF TypeOK, ChainInv
<1>3. ASSUME NEW k \in 1..Len(resv)
      PROVE  InChain(k)'
  <2>1. resv[k].at \in Nat
    <3>1. resv[k] \in RankType
      BY DEF TypeOK
    <3> QED
      BY <3>1 DEF RankType
  <2>2. InChain(k)
    BY DEF ChainInv
  <2>3. resv[k].at <= clock'
    BY <1>2, <2>1, <2>2 DEF InChain
  <2> QED
    BY <1>1, <2>2, <2>3 DEF InChain
<1> QED
  BY <1>2, <1>3 DEF ChainInv

LEMMA ChainInvPlanCall ==
  ASSUME TypeOK, ChainInv, CurrentInv, PlanCall
  PROVE  ChainInv'
<1> DEFINE c == response[cursor].call
           new == [pos |-> cursor, res |-> Reserve(plan, c, clock),
                   plan |-> plan', at |-> clock]
<1>0. PICK n \in Nat : n = Len(resv) + 1
  BY DEF TypeOK
<1>1. /\ phase = "planning" /\ resv' = Append(resv, new)
      /\ clock' = clock /\ base' = base
      /\ ~Ambiguous(plan, c, clock) /\ plan' = Planned(plan, c, clock)
  BY DEF PlanCall, Planning, responseVars
<1>2. /\ Len(resv) \in Nat /\ Len(resv') = n
      /\ \A k \in 1..Len(resv) : resv'[k] = resv[k]
      /\ resv'[n] = new
  BY <1>0, <1>1 DEF TypeOK
<1>3. \A k \in 0..Len(resv) : PlanAfter(k)' = PlanAfter(k) /\ TimeAfter(k)' = TimeAfter(k)
  BY <1>1, <1>2 DEF PlanAfter, TimeAfter
<1>4. plan = PlanAfter(n - 1)'
  BY <1>0, <1>1, <1>2, <1>3 DEF CurrentInv
<1>5. TimeAfter(n - 1)' <= clock
  <2>1. CASE n = 1
    BY <2>1, <1>0, <1>2, <1>3 DEF TimeAfter, ChainInv
  <2>2. CASE n # 1
    <3>1. n - 1 \in 1..Len(resv) /\ n - 1 # 0
      BY <2>2, <1>0, <1>2
    <3>2. TimeAfter(n - 1)' = resv[n - 1].at
      BY <3>1, <1>3 DEF TimeAfter
    <3> QED
      BY <3>1, <3>2 DEF ChainInv, InChain
  <2> QED
    BY <2>1, <2>2
<1>6. InChain(n)'
  <2>1. /\ new.at = clock /\ new.plan = plan' /\ new.res = Reserve(plan, c, clock)
        /\ new.res.call = c
    BY DEF Reserve
  <2>2. clock \in Nat
    BY DEF TypeOK
  <2> HIDE DEF new, c
  <2>3. /\ resv'[n].at = clock /\ resv'[n].plan = Planned(plan, c, clock)
        /\ resv'[n].res = Reserve(plan, c, clock) /\ resv'[n].res.call = c
    BY <2>1, <1>1, <1>2
  <2>4. clock <= clock'
    BY <1>1, <2>2
  <2> QED
    BY <1>1, <1>4, <1>5, <2>3, <2>4 DEF InChain
<1>7. ASSUME NEW k \in 1..Len(resv)
      PROVE  InChain(k)'
  <2>1. InChain(k)
    BY DEF ChainInv
  <2>2. k - 1 \in 0..Len(resv)
    BY <1>2
  <2> QED
    BY <1>1, <1>2, <1>3, <2>1, <2>2 DEF InChain
<1>8. \A k \in 1..Len(resv') : k \in 1..Len(resv) \/ k = n
  BY <1>0, <1>2
<1> QED
  BY <1>1, <1>6, <1>7, <1>8 DEF ChainInv

LEMMA ChainInvNext ==
  ASSUME TypeOK, CommitsInDecisionOrder, ChainInv, CurrentInv, Next
  PROVE  ChainInv'
<1>1. ASSUME NEW items \in Responses, Respond(items)
      PROVE  ChainInv'
  <2>1. resv' = <<>> /\ clock' = clock /\ base'.at = SerialClock
    BY <1>1 DEF Respond, budgetVars
  <2> QED
    BY <2>1, SerialClockPast DEF ChainInv
<1>2. CASE PlanCall
  BY <1>2, ChainInvPlanCall
<1>3. CASE Tick
  <2>1. UNCHANGED <<resv, base>> /\ clock' = clock + 1 /\ clock < MaxClock
    BY <1>3 DEF Tick, responseVars
  <2>2. clock \in Nat /\ MaxClock \in Nat
    BY DispatchAssumption DEF TypeOK
  <2> QED
    BY <2>1, <2>2, ChainInvStable
<1>4. ASSUME UNCHANGED <<resv, base, clock>>
      PROVE  ChainInv'
  BY <1>4, ChainInvStable DEF TypeOK, ChainInv
<1>5. ASSUME ~PlanCall, Control \/ Finish
      PROVE  UNCHANGED <<resv, base, clock>>
  BY <1>5 DEF Control, PlanRaises, LeaveUnplanned, Planning, FinishPlanning,
              UsageEndsRun, EndRejecting, FinishResponse, Abort, Finish,
              responseVars, budgetVars
<1>6. ASSUME NEW i \in Positions, Task(i)
      PROVE  UNCHANGED <<resv, base, clock>>
  BY <1>6 DEF Task, Start, AnswerMalformed, Refuse, Claim, Commit,
              InvokeDirectly, DirectRaises, RejectUnknown, responseVars,
              budgetVars
<1> QED
  BY <1>1, <1>2, <1>3, <1>4, <1>5, <1>6 DEF Next

-----------------------------------------------------------------------------
(* A regular response: distinct ids, plannable calls.                        *)

(* When dispatch begins every call of a regular response has a reservation.  *)
LEMMA ClaimableTable ==
  ASSUME TypeOK, PlanInv, FinishPlanning, Regular
  PROVE  \A i \in Positions : response[i].id \in DOMAIN pending'
<1> SUFFICES ASSUME NEW i \in Positions
             PROVE  response[i].id \in DOMAIN pending'
  OBVIOUS
<1>1. cursor = Len(response) + 1
  BY DispatchStarts DEF FinishPlanning
<1>2. i \in 1..(cursor - 1) /\ response[i].kind = "known"
  BY <1>1 DEF Positions, TypeOK, Regular, OnlyPlannable
<1>3. PICK k \in 1..Len(resv) : resv[k].pos = i
  BY <1>2 DEF PlanInv
<1>4. resv # <<>>
  BY <1>3
<1>5. pending' = ReservationTable(resv)
  BY <1>4 DEF FinishPlanning
<1>6. response[i].id \in IdsOf(resv)
  BY <1>3 DEF IdsOf
<1> QED
  BY <1>5, <1>6 DEF ReservationTable

(* A regular call is never invoked past its reservation.                     *)
LEMMA NeverDirect ==
  ASSUME ClaimableInv, Regular, NEW i \in Positions
  PROVE  /\ ~InvokeDirectly(i)
         /\ ~DirectRaises(i)
         /\ ~AnswerMalformed(i)
         /\ ~RejectUnknown(i)
BY DEF ClaimableInv, Regular, OnlyPlannable, InvokeDirectly, DirectRaises,
       AnswerMalformed, RejectUnknown

LEMMA RegularStable ==
  ASSUME response' = response
  PROVE  Regular' <=> Regular
BY DEF Regular, DistinctIds, OnlyPlannable, Positions

LEMMA ClaimableInvNext ==
  ASSUME TypeOK, PlanInv, ClaimableInv, Next
  PROVE  ClaimableInv'
<1> SUFFICES ASSUME Regular', phase' = "dispatching", NEW i \in Positions',
                    pc'[i] \in {"queued", "attempted"}
             PROVE  response'[i].id \in DOMAIN pending'
  BY DEF ClaimableInv
<1>1. ASSUME NEW items \in Responses, Respond(items)
      PROVE  FALSE
  BY <1>1 DEF Respond
<1>2. response' = response /\ Positions' = Positions /\ Regular
  <2>1. response' = response
    BY <1>1 DEF Next, Tick, Finish, Control, PlanCall, PlanRaises,
                LeaveUnplanned, Planning, FinishPlanning, UsageEndsRun,
                EndRejecting, FinishResponse, Abort, Task, Start,
                AnswerMalformed, Refuse, Claim, Commit, InvokeDirectly,
                DirectRaises, RejectUnknown, responseVars
  <2> QED
    BY <2>1, RegularStable DEF Positions
<1>3. CASE FinishPlanning
  BY <1>2, <1>3, ClaimableTable
<1>4. CASE Tick
  BY <1>2, <1>4 DEF Tick, ClaimableInv, taskVars, barrierVars
<1>5. ASSUME Finish \/ Control, ~FinishPlanning
      PROVE  FALSE
  BY <1>5 DEF Finish, Control, PlanCall, PlanRaises, LeaveUnplanned, Planning,
              UsageEndsRun, EndRejecting, FinishResponse, Abort
<1>6. ASSUME NEW j \in Positions, Task(j)
      PROVE  response[i].id \in DOMAIN pending'
  <2>1. \/ phase = "dispatching" /\ Start(j)
        \/ Claim(j) \/ Commit(j)
    BY <1>2, <1>6, NeverDirect DEF Task, Start
  <2>2. CASE Start(j)
    <3>1. pc[i] \in {"queued", "attempted"} /\ pending' = pending
      BY <1>2, <2>2 DEF Start, TypeOK, barrierVars
    <3> QED
      BY <1>2, <2>2, <3>1 DEF ClaimableInv, Start
  <2>3. CASE Claim(j)
    <3>1. i # j /\ pc[i] \in {"queued", "attempted"}
      BY <1>2, <2>3 DEF Claim, TypeOK
    <3>2. response[i].id # response[j].id
      BY <1>2, <3>1 DEF Regular, DistinctIds
    <3>3. response[i].id \in DOMAIN pending
      BY <1>2, <2>3, <3>1 DEF ClaimableInv, Claim
    <3> QED
      BY <2>3, <3>2, <3>3 DEF Claim
  <2>4. CASE Commit(j)
    <3>1. pc[i] \in {"queued", "attempted"} /\ pending' = pending
      BY <1>2, <2>4 DEF Commit, Answered, TypeOK
    <3> QED
      BY <1>2, <2>4, <3>1 DEF ClaimableInv, Commit
  <2> QED
    BY <2>1, <2>2, <2>3, <2>4
<1> QED
  BY <1>1, <1>2, <1>3, <1>4, <1>5, <1>6 DEF Next

LEMMA CurrentInvNext ==
  ASSUME TypeOK, CurrentInv, ClaimableInv, Next
  PROVE  CurrentInv'
<1>1. ASSUME NEW items \in Responses, Respond(items)
      PROVE  CurrentInv'
  <2>1. Len(resv') = 0 /\ plan' = plan /\ base'.plan = plan
    BY <1>1 DEF Respond, budgetVars
  <2> QED
    BY <2>1 DEF CurrentInv, PlanAfter
<1>2. CASE PlanCall
  <2>1. /\ Len(resv') = Len(resv) + 1 /\ Len(resv) \in Nat
        /\ resv'[Len(resv) + 1].plan = plan'
    BY <1>2 DEF PlanCall, TypeOK
  <2>2. resv'[Len(resv')].plan = plan' /\ Len(resv') # 0
    BY <2>1
  <2> QED
    BY <2>2 DEF CurrentInv, PlanAfter
<1>3. ASSUME ~PlanCall, Control
      PROVE  CurrentInv'
  <2>1. CASE phase' = "ended"
    BY <2>1 DEF CurrentInv
  <2>2. CASE phase' # "ended"
    <3>1. /\ UNCHANGED <<resv, base, plan, response>>
          /\ phase' = "planning" => phase = "planning"
          /\ phase # "ended"
      BY <1>3, <2>2
         DEF Control, PlanRaises, LeaveUnplanned, Planning, FinishPlanning,
             UsageEndsRun, EndRejecting, FinishResponse, Abort, responseVars,
             budgetVars
    <3>2. Regular' <=> Regular
      BY <3>1, RegularStable
    <3> QED
      BY <3>1, <3>2 DEF CurrentInv, PlanAfter
  <2> QED
    BY <2>1, <2>2
<1>4. CASE Tick \/ Finish
  <2>1. /\ UNCHANGED <<resv, base, plan, response>>
        /\ phase' = phase \/ phase' = "ended"
    BY <1>4 DEF Tick, Finish, responseVars, budgetVars
  <2>2. Regular' <=> Regular
    BY <2>1, RegularStable
  <2> QED
    BY <2>1, <2>2 DEF CurrentInv, PlanAfter
<1>5. ASSUME NEW i \in Positions, Task(i)
      PROVE  CurrentInv'
  <2>1. /\ UNCHANGED <<resv, base, response, phase>>
        /\ phase \in {"dispatching", "rejecting"}
    BY <1>5 DEF Task, Start, AnswerMalformed, Refuse, Claim, Commit,
                InvokeDirectly, DirectRaises, RejectUnknown, responseVars
  <2>2. Regular' <=> Regular
    BY <2>1, RegularStable
  <2>3. Regular => plan' = plan
    BY <1>5, NeverDirect DEF Task, Start, Claim, Commit, budgetVars
  <2> QED
    BY <2>1, <2>2, <2>3 DEF CurrentInv, PlanAfter
<1> QED
  BY <1>1, <1>2, <1>3, <1>4, <1>5 DEF Next

-----------------------------------------------------------------------------
(* The serial gateway has room for every call.                               *)

LEMMA Times ==
  ASSUME NEW a \in Nat, NEW b \in Nat, NEW m \in Nat
  PROVE  /\ (a + 1) * m = a * m + m
         /\ a <= b => a * m <= b * m
         /\ a * m \in Nat
OBVIOUS

LEMMA CountUpTo == \A m \in Nat : IsFiniteSet(1..m) /\ Cardinality(1..m) = m
BY FS_Interval

LEMMA LogRoom ==
  ASSUME TypeOK, OneOutcomePerAnswer
  PROVE  /\ Len(log) <= base.logged + Len(response)
         /\ \A i \in Positions :
              answer[i] = NoAnswer => Len(log) < base.logged + Len(response)
<1>1. Len(response) \in Nat /\ Len(log) \in Nat /\ base.logged \in Nat
  BY DEF TypeOK
<1>2. IsFiniteSet(Positions) /\ Cardinality(Positions) = Len(response)
  BY <1>1, CountUpTo DEF Positions
<1>3. AnsweredCalls \subseteq Positions
  BY DEF AnsweredCalls
<1>4. /\ IsFiniteSet(AnsweredCalls) /\ Cardinality(AnsweredCalls) \in Nat
      /\ Cardinality(AnsweredCalls) <= Len(response)
      /\ Cardinality(AnsweredCalls) = Len(response) => AnsweredCalls = Positions
  BY <1>2, <1>3, FS_Subset, FS_CardinalityType
<1>5. Len(log) - base.logged = Cardinality(AnsweredCalls)
  BY DEF OneOutcomePerAnswer, AnsweredCalls
<1>6. ASSUME NEW i \in Positions, answer[i] = NoAnswer
      PROVE  Cardinality(AnsweredCalls) # Len(response)
  BY <1>4, <1>6 DEF AnsweredCalls
<1> QED
  BY <1>1, <1>4, <1>5, <1>6

LEMMA SizeInvNext ==
  ASSUME TypeOK, OneOutcomePerAnswer, SizeInv, Next
  PROVE  SizeInv'
<1>0. /\ turns \in Nat /\ MaxBatch \in Nat /\ base.logged \in Nat
      /\ Len(response) \in Nat /\ Len(log) \in Nat /\ MaxResponses \in Nat
  BY DispatchAssumption DEF TypeOK
<1>1. ASSUME NEW items \in Responses, Respond(items)
      PROVE  SizeInv'
  <2>1. /\ turns < MaxResponses /\ turns' = turns + 1 /\ response' = items
        /\ base'.logged = Len(log) /\ Len(items) <= MaxBatch
    BY <1>1, DispatchAssumption DEF Respond
  <2>2. turns' <= MaxResponses /\ turns' # 0
    BY <1>0, <2>1
  <2>3. Len(log) + MaxBatch <= turns' * MaxBatch
    <3>1. (turns + 1) * MaxBatch = turns * MaxBatch + MaxBatch
          /\ turns * MaxBatch \in Nat
      BY <1>0, Times
    <3>2. CASE turns = 0
      BY <1>0, <2>1, <3>1, <3>2 DEF SizeInv
    <3>3. CASE turns # 0
      BY <1>0, <2>1, <3>1, <3>3, LogRoom DEF SizeInv
    <3> QED
      BY <3>2, <3>3
  <2> QED
    BY <2>1, <2>2, <2>3 DEF SizeInv
<1>2. ASSUME Tick \/ Finish \/ Control
      PROVE  SizeInv'
  <2>1. UNCHANGED <<turns, response, base, log>>
    BY <1>2 DEF Tick, Finish, Control, PlanCall, PlanRaises, LeaveUnplanned,
                Planning, FinishPlanning, UsageEndsRun, EndRejecting,
                FinishResponse, Abort, responseVars
  <2> QED
    BY <2>1 DEF SizeInv
<1>3. ASSUME NEW i \in Positions, Task(i)
      PROVE  SizeInv'
  <2>1. UNCHANGED <<turns, response, base>>
    BY <1>3 DEF Task, Start, AnswerMalformed, Refuse, Claim, Commit,
                InvokeDirectly, DirectRaises, RejectUnknown, responseVars
  <2>2. turns # 0
    BY DEF SizeInv, Positions
  <2> QED
    BY <2>1, <2>2 DEF SizeInv
<1> QED
  BY <1>1, <1>2, <1>3 DEF Next

LEMMA SerialInvNext == IndInv /\ SerialInv /\ [Next]_vars => SerialInv'
<1> SUFFICES ASSUME IndInv, SerialInv, [Next]_vars PROVE SerialInv'
  OBVIOUS
<1>1. CASE Next
  BY <1>1, ChainInvNext, CurrentInvNext, ClaimableInvNext, SizeInvNext
     DEF IndInv, SerialInv
<1>2. CASE UNCHANGED vars
  <2>1. ChainInv'
    BY <1>2, ChainInvStable DEF vars, IndInv, SerialInv, TypeOK, ChainInv
  <2>2. Regular' <=> Regular
    BY <1>2, RegularStable DEF vars
  <2>3. (CurrentInv /\ ClaimableInv /\ SizeInv)'
    BY <1>2, <2>2
       DEF vars, SerialInv, CurrentInv, ClaimableInv, SizeInv, PlanAfter, Positions
  <2> QED
    BY <2>1, <2>3 DEF SerialInv
<1> QED
  BY <1>1, <1>2

LEMMA SerialInvariance == Spec => [](IndInv /\ SerialInv)
<1>1. Init => SerialInv
  BY SerialInvInit
<1> QED
  BY <1>1, SerialInvNext, IndInvInit, IndInvNext, PTL DEF Spec

-----------------------------------------------------------------------------
(* The refinement.                                                           *)

(* A commit is the serial gateway's call.                                    *)
LEMMA CommitIsInvoke ==
  ASSUME IndInv, SerialInv, NEW i \in Positions, Commit(i)
  PROVE  Serial!Next
<1>0. PICK r \in Nat : r = held[i] /\ r = Len(commits) + 1 /\ r \in 1..Len(resv)
  BY CommitsNext DEF IndInv, TypeOK
<1> DEFINE c == resv[r].res.call
           now == resv[r].at
<1>1. resv[r] \in RankType
  BY <1>0 DEF IndInv, TypeOK
<1>2. c \in Calls /\ now \in Nat
  BY <1>1 DEF RankType, ReservationType
<1>3. InChain(r) /\ now <= MaxClock /\ MaxClock \in Nat
  <2>1. InChain(r) /\ clock <= MaxClock /\ clock \in Nat
    BY <1>0 DEF IndInv, SerialInv, ChainInv, TypeOK
  <2> QED
    BY <1>2, <2>1, DispatchAssumption DEF InChain
<1>4. now \in 0..MaxClock
  BY <1>2, <1>3
<1>5. SerialPlan = PlanAfter(r - 1) /\ SerialClock = TimeAfter(r - 1)
  BY <1>0, SerialView DEF IndInv
<1>6. /\ ~Ambiguous(SerialPlan, c, now)
      /\ resv[r].res = Reserve(SerialPlan, c, now)
      /\ resv[r].plan = Planned(SerialPlan, c, now)
      /\ now >= SerialClock
  <2>1. SerialClock \in Nat
    BY SerialClockPast DEF IndInv, SerialInv
  <2> QED
    BY <1>2, <1>3, <1>5, <2>1 DEF InChain
<1>7. /\ resv' = resv /\ commits' = Append(commits, r)
      /\ world' = WorldAfter(resv[r].res, world)
      /\ log' = Append(log, Outcome(resv[r].res, world))
  BY <1>0 DEF Commit, Answered
<1>8. SerialPlan' = Planned(SerialPlan, c, now) /\ SerialClock' = now
  <2>1. commits' # <<>> /\ Len(commits') = r
    BY <1>0, <1>7 DEF IndInv, TypeOK
  <2> QED
    BY <1>6, <1>7, <2>1 DEF SerialPlan, SerialClock
<1>9. Len(log) < MaxResponses * MaxBatch
  <2>1. answer[i] = NoAnswer
    BY DEF IndInv, AnswerInv, Commit
  <2>2. Len(log) < base.logged + Len(response)
    BY <2>1, LogRoom DEF IndInv
  <2>3. turns # 0
    BY DEF SerialInv, SizeInv, Positions
  <2>4. /\ Len(log) \in Nat /\ base.logged \in Nat /\ Len(response) \in Nat
        /\ turns \in Nat /\ MaxBatch \in Nat /\ MaxResponses \in Nat
    BY DispatchAssumption DEF IndInv, TypeOK
  <2>5. turns * MaxBatch <= MaxResponses * MaxBatch
        /\ turns * MaxBatch \in Nat /\ MaxResponses * MaxBatch \in Nat
    BY <2>4, Times DEF SerialInv, SizeInv
  <2>6. Len(response) <= MaxBatch /\ base.logged + MaxBatch <= turns * MaxBatch
    BY <2>3 DEF SerialInv, SizeInv
  <2> QED
    BY <2>2, <2>4, <2>5, <2>6
<1> HIDE DEF c, now
<1>10. Serial!Invoke(c, now)
  BY <1>6, <1>7, <1>8, <1>9, SameAmbiguous, SameReserve, SamePlanned, SameCommit
     DEF Serial!Invoke
<1> QED
  BY <1>2, <1>4, <1>10 DEF Serial!Next

(* A response that comes when a regular one is finished finds the plan that  *)
(* its last reservation left.                                                *)
LEMMA RespondIsUnseen ==
  ASSUME IndInv, SerialInv, Regular, NEW items \in Responses, Respond(items)
  PROVE  UNCHANGED Serial!vars
<1>1. /\ phase = "model" /\ plan' = plan /\ commits' = <<>>
      /\ base'.plan = plan /\ base'.at = SerialClock
      /\ UNCHANGED <<world, log>>
  BY DEF Respond, budgetVars
<1>2. Outstanding = {}
  BY <1>1 DEF IndInv, ReservationsDrained
<1>3. Len(commits) = Len(resv)
  BY <1>2, OutstandingRanks, SerialView DEF IndInv
<1>4. SerialPlan = plan
  BY <1>1, <1>3, SerialView DEF IndInv, SerialInv, CurrentInv
<1>5. SerialPlan' = SerialPlan /\ SerialClock' = SerialClock
  BY <1>1, <1>4 DEF SerialPlan, SerialClock
<1> QED
  BY <1>1, <1>5 DEF Serial!vars

(* What is neither a commit nor a call past its reservation is not seen.     *)
LEMMA SerialStutter ==
  ASSUME UNCHANGED <<commits, resv, base, world, log>>
  PROVE  UNCHANGED Serial!vars
BY DEF Serial!vars, SerialPlan, SerialClock

LEMMA PlanCallIsUnseen ==
  ASSUME IndInv, PlanCall
  PROVE  UNCHANGED Serial!vars
<1>1. commits = <<>> /\ UNCHANGED <<commits, base, world, log>>
  BY DEF IndInv, PhaseInv, PlanCall, Planning, responseVars
<1> QED
  BY <1>1 DEF Serial!vars, SerialPlan, SerialClock

LEMMA SerialStep ==
  IndInv /\ SerialInv /\ [Next]_vars
    => [DistinctIds /\ OnlyPlannable => Serial!Next]_(Serial!vars)
<1> SUFFICES ASSUME IndInv, SerialInv, [Next]_vars, Regular
             PROVE  Serial!Next \/ UNCHANGED Serial!vars
  BY DEF Regular
<1>1. ASSUME NEW items \in Responses, Respond(items)
      PROVE  UNCHANGED Serial!vars
  BY <1>1, RespondIsUnseen
<1>2. CASE PlanCall
  BY <1>2, PlanCallIsUnseen
<1>3. ASSUME ~PlanCall, Tick \/ Finish \/ Control
      PROVE  UNCHANGED Serial!vars
  <2>1. UNCHANGED <<commits, resv, base, world, log>>
    BY <1>3 DEF Tick, Finish, Control, PlanRaises, LeaveUnplanned, Planning,
                FinishPlanning, UsageEndsRun, EndRejecting, FinishResponse,
                Abort, responseVars
  <2> QED
    BY <2>1, SerialStutter
<1>4. ASSUME NEW i \in Positions, Task(i)
      PROVE  Serial!Next \/ UNCHANGED Serial!vars
  <2>1. Start(i) \/ Claim(i) \/ Commit(i)
    BY <1>4, NeverDirect DEF Task, SerialInv
  <2>2. CASE Start(i) \/ Claim(i)
    <3>1. UNCHANGED <<commits, resv, base, world, log>>
      BY <2>2 DEF Start, Claim, responseVars
    <3> QED
      BY <3>1, SerialStutter
  <2>3. CASE Commit(i)
    BY <2>3, CommitIsInvoke
  <2> QED
    BY <2>1, <2>2, <2>3
<1>5. CASE UNCHANGED vars
  <2>1. UNCHANGED <<commits, resv, base, world, log>>
    BY <1>5 DEF vars
  <2> QED
    BY <2>1, SerialStutter
<1> QED
  BY <1>1, <1>2, <1>3, <1>4, <1>5 DEF Next

LEMMA SerialStart == Init => Serial!Init
BY DEF Init, Serial!Init, InitialPlan, Serial!InitialPlan, SerialPlan,
       SerialClock

(* Committing the reservations of a response of plannable calls under        *)
(* distinct ids is what a serial gateway would have done, call by call:      *)
(* every step of the dispatch, in any order of tasks, is a call of the       *)
(* serial gateway or leaves what it shows alone (plan_batch).                *)
THEOREM SerialCorrect == Spec => SerialEquivalence
<1> QED
  BY SerialInvariance, SerialStep, SerialStart, PTL DEF Spec, SerialEquivalence
=============================================================================
