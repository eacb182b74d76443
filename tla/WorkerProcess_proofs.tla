------------------------- MODULE WorkerProcess_proofs -------------------------
(***************************************************************************)
(* The safety of one worker call, for every set of source versions: IndInv *)
(* is inductive, and what the call returns and leaves behind follows.      *)
(***************************************************************************)
EXTENDS WorkerProcess, TLAPS

(* The initial states.                                                     *)
LEMMA IndInvInit == Init => IndInv
BY SourcesAssumption DEF Init, IndInv, PlaceInv, Place, DraftInv, PhaseInv,
   ResponseInv, ParentInv, ContainedBeforeImport, NothingSurvives,
   ValueIsOfExpectedTarget, FailureNamesItsPhase, NoResult

(* A step that changes nothing keeps the invariant.                        *)
LEMMA IndInvStutter ==
  ASSUME IndInv, UNCHANGED vars
  PROVE  IndInv'
BY DEF vars, callVars, childVars, IndInv, PlaceInv, Place, DraftInv, PhaseInv,
   ResponseInv, ParentInv, ContainedBeforeImport, NothingSurvives,
   ValueIsOfExpectedTarget, FailureNamesItsPhase

(* The safety properties themselves.                                       *)
ResultInv ==
  /\ ContainedBeforeImport
  /\ NothingSurvives
  /\ ValueIsOfExpectedTarget
  /\ FailureNamesItsPhase

(* A step of the child keeps what the places require.                      *)
LEMMA PlaceChild ==
  ASSUME PlaceInv, DraftInv, ParentInv, Child
  PROVE  PlaceInv'
<1>1. CASE ReadRequest
  BY <1>1 DEF ReadRequest, At, Raises, PlaceInv, Place
<1>2. CASE HideRequest
  BY <1>2 DEF HideRequest, At, Raises, PlaceInv, Place
<1>3. CASE InstallGuard
  BY <1>3 DEF InstallGuard, At, Raises, PlaceInv, Place
<1>4. CASE BeginLoad
  BY <1>4 DEF BeginLoad, At, Write, PlaceInv, Place, callVars
<1>5. CASE BeginRun
  BY <1>5 DEF BeginRun, At, Write, PlaceInv, Place, callVars
<1>6. CASE Import
  BY <1>6 DEF Import, At, PlaceInv, Place, callVars
<1>7. CASE TargetForks
  BY <1>7 DEF TargetForks, At, PlaceInv, Place, callVars
<1>8. CASE TargetReturns
  BY <1>8 DEF TargetReturns, At, PlaceInv, Place
<1>9. CASE TargetRaises
  BY <1>9 DEF TargetRaises, Raises, PlaceInv, Place
<1>10. CASE WriteOk
  BY <1>10 DEF WriteOk, Write, PlaceInv, Place
<1>11. CASE Fill
  BY <1>11 DEF Fill, At, PlaceInv, Place, callVars
<1>12. CASE Rename
  <2>1. child' \in {draft.to, "leaving", "failing"}
    BY <1>12 DEF Rename, WhenWriteFails
  <2>2. Place' \in {Place, "leaving", "failing"}
    BY <1>12, <2>1 DEF Rename, At, Place, DraftInv
  <2> QED
    BY <1>12, <2>1, <2>2 DEF Rename, At, PlaceInv, DraftInv, Place, callVars
<1>13. CASE WriteFails
  <2>1. child' \in {"leaving", "failing"}
    BY <1>13 DEF WriteFails, WhenWriteFails
  <2> QED
    BY <1>13, <2>1 DEF WriteFails, At, PlaceInv, Place, callVars
<1>14. CASE RestoreFails
  BY <1>14 DEF RestoreFails, Raises, PlaceInv, Place
<1>15. CASE WriteError
  BY <1>15 DEF WriteError, PlaceInv, Place
<1>16. CASE Leave
  BY <1>16 DEF Leave, PlaceInv, Place
<1>17. CASE AbruptExit
  BY <1>17 DEF AbruptExit, PlaceInv, Place
<1>18. CASE Hang
  BY <1>18 DEF Hang, PlaceInv, Place
<1> QED
  BY <1>1, <1>2, <1>3, <1>4, <1>5, <1>6, <1>7, <1>8, <1>9, <1>10, <1>11, <1>12,
     <1>13, <1>14, <1>15, <1>16, <1>17, <1>18 DEF Child

(* Any other step keeps it.                                                *)
LEMMA PlaceParent ==
  ASSUME PlaceInv, DraftInv, ParentInv,
         Parent \/ Interrupted \/ EditSource \/ OutsideLetsGo
  PROVE  PlaceInv'
<1>1. CASE StartWorker
  BY <1>1 DEF StartWorker, In, PlaceInv, ParentInv, Place
<1>2. CASE StartFails
  BY <1>2 DEF StartFails, In, PlaceInv, ParentInv, Place
<1>3. CASE WaitReturns
  BY <1>3 DEF WaitReturns, PlaceInv, Place
<1>4. CASE WaitExpires
  BY <1>4 DEF WaitExpires, In, PlaceInv, Place
<1>5. CASE Kill
  BY <1>5 DEF Kill, KillGroup, PlaceInv, Place
<1>6. CASE Clean
  BY <1>6 DEF Clean, In, PlaceInv, Place
<1>7. CASE Decide
  BY <1>7 DEF Decide, In, PlaceInv, Place
<1>8. CASE Interrupted
  BY <1>8 DEF Interrupted, KillGroup, In, PlaceInv, Place
<1>9. CASE EditSource \/ OutsideLetsGo
  BY <1>9 DEF EditSource, OutsideLetsGo, PlaceInv, Place, callVars, childVars
<1>10. CASE FinishCapture
  BY <1>10 DEF FinishCapture, In, PlaceInv, Place
<1> QED
  BY <1>1, <1>2, <1>3, <1>4, <1>5, <1>6, <1>7, <1>8, <1>9, <1>10 DEF Parent

(* A step of the child keeps the draft in line with phase and target.      *)
LEMMA DraftChild ==
  ASSUME PlaceInv, DraftInv, Child
  PROVE  DraftInv'
<1>1. CASE ReadRequest
  BY <1>1 DEF ReadRequest, Raises, DraftInv
<1>2. CASE HideRequest
  BY <1>2 DEF HideRequest, Raises, DraftInv
<1>3. CASE InstallGuard
  BY <1>3 DEF InstallGuard, Raises, DraftInv
<1>4. CASE BeginLoad
  BY <1>4 DEF BeginLoad, At, Write, DraftInv, PlaceInv, Running
<1>5. CASE BeginRun
  BY <1>5 DEF BeginRun, At, Write, DraftInv, PlaceInv, Place, Running
<1>6. CASE Import
  BY <1>6 DEF Import, At, DraftInv
<1>7. CASE TargetForks
  BY <1>7 DEF TargetForks, DraftInv
<1>8. CASE TargetReturns
  BY <1>8 DEF TargetReturns, DraftInv
<1>9. CASE TargetRaises
  BY <1>9 DEF TargetRaises, Raises, DraftInv
<1>10. CASE WriteOk
  BY <1>10 DEF WriteOk, At, Write, DraftInv, PlaceInv
<1>11. CASE Fill
  BY <1>11 DEF Fill, At, DraftInv
<1>12. CASE Rename
  BY <1>12 DEF Rename, WhenWriteFails, At, DraftInv, Live
<1>13. CASE WriteFails
  BY <1>13 DEF WriteFails, WhenWriteFails, DraftInv
<1>14. CASE RestoreFails
  BY <1>14 DEF RestoreFails, Raises, DraftInv
<1>15. CASE WriteError
  BY <1>15 DEF WriteError, DraftInv
<1>16. CASE Leave
  BY <1>16 DEF Leave, DraftInv
<1>17. CASE AbruptExit
  BY <1>17 DEF AbruptExit, DraftInv
<1>18. CASE Hang
  BY <1>18 DEF Hang, DraftInv
<1> QED
  BY <1>1, <1>2, <1>3, <1>4, <1>5, <1>6, <1>7, <1>8, <1>9, <1>10, <1>11, <1>12,
     <1>13, <1>14, <1>15, <1>16, <1>17, <1>18 DEF Child

(* Any other step keeps it.                                                *)
LEMMA DraftParent ==
  ASSUME PlaceInv, DraftInv,
         Parent \/ Interrupted \/ EditSource \/ OutsideLetsGo
  PROVE  DraftInv'
<1>1. CASE StartWorker
  BY <1>1 DEF StartWorker, DraftInv
<1>2. CASE StartFails
  BY <1>2 DEF StartFails, In, DraftInv
<1>3. CASE WaitReturns
  BY <1>3 DEF WaitReturns, DraftInv
<1>4. CASE WaitExpires
  BY <1>4 DEF WaitExpires, In, DraftInv
<1>5. CASE Kill
  BY <1>5 DEF Kill, KillGroup, DraftInv
<1>6. CASE Clean
  BY <1>6 DEF Clean, In, DraftInv
<1>7. CASE Decide
  BY <1>7 DEF Decide, In, DraftInv
<1>8. CASE Interrupted
  BY <1>8 DEF Interrupted, KillGroup, In, DraftInv
<1>9. CASE EditSource \/ OutsideLetsGo
  BY <1>9 DEF EditSource, OutsideLetsGo, DraftInv, childVars
<1>10. CASE FinishCapture
  BY <1>10 DEF FinishCapture, In, DraftInv
<1> QED
  BY <1>1, <1>2, <1>3, <1>4, <1>5, <1>6, <1>7, <1>8, <1>9, <1>10 DEF Parent

(* The steps that change the operation, the phase or the target loaded.    *)
LEMMA PhaseFrame ==
  ASSUME Next, ~BeginLoad, ~BeginRun, ~Import
  PROVE  UNCHANGED <<operation, phase, loaded>>
<1>1. CASE Child
  BY <1>1 DEF Child, ReadRequest, HideRequest, InstallGuard, TargetForks,
     TargetReturns, TargetRaises, WriteOk, Fill, Rename, WriteFails, RestoreFails,
     WriteError, Leave, AbruptExit, Hang, At, Raises, Write, callVars
<1>2. CASE Parent \/ Interrupted \/ EditSource \/ OutsideLetsGo
  BY <1>2 DEF Parent, StartWorker, StartFails, WaitReturns, WaitExpires, Kill,
     Clean, FinishCapture, Decide, Interrupted, EditSource, OutsideLetsGo, In,
     callVars, childVars
<1> QED
  BY <1>1, <1>2 DEF Next

(* Only the import sets the target, in the last phase of a run.            *)
LEMMA PhaseInvNext ==
  ASSUME PlaceInv, PhaseInv, Next
  PROVE  PhaseInv'
<1>1. CASE BeginLoad
  BY <1>1 DEF BeginLoad, At, Write, PhaseInv, PlaceInv
<1>2. CASE BeginRun
  BY <1>2 DEF BeginRun, PhaseInv
<1>3. CASE Import
  BY <1>3 DEF Import, At, PhaseInv, PlaceInv, Place, callVars
<1> QED
  BY <1>1, <1>2, <1>3, PhaseFrame DEF PhaseInv

(* The steps that change the response on disk.                             *)
LEMMA ResponseFrame ==
  ASSUME Next, ~Rename, ~StartWorker, ~StartFails
  PROVE  response' = response
<1>1. CASE Child
  BY <1>1 DEF Child, ReadRequest, HideRequest, InstallGuard, BeginLoad,
     BeginRun, Import, TargetForks, TargetReturns, TargetRaises, WriteOk, Fill,
     WriteFails, RestoreFails, WriteError, Leave, AbruptExit, Hang, Raises, Write
<1>2. CASE Parent \/ Interrupted \/ EditSource \/ OutsideLetsGo
  BY <1>2 DEF Parent, WaitReturns, WaitExpires, Kill, Clean, FinishCapture,
     Decide, Interrupted, EditSource, OutsideLetsGo
<1> QED
  BY <1>1, <1>2 DEF Next

(* The response on disk stays in line with phase and target.               *)
LEMMA ResponseInvNext ==
  ASSUME PlaceInv, DraftInv, ResponseInv, ParentInv, Next
  PROVE  ResponseInv'
<1>1. CASE BeginLoad
  BY <1>1 DEF BeginLoad, At, Write, ResponseInv, PlaceInv
<1>2. CASE BeginRun
  BY <1>2 DEF BeginRun, At, Write, ResponseInv, PlaceInv, Running, Response,
     callVars
<1>3. CASE Import
  BY <1>3 DEF Import, At, ResponseInv, PlaceInv, Place, callVars
<1>4. CASE Rename
  BY <1>4 DEF Rename, At, ResponseInv, PlaceInv, DraftInv, Place, callVars
<1>5. CASE StartWorker \/ StartFails
  BY <1>5 DEF StartWorker, StartFails, In, ResponseInv, PlaceInv, ParentInv
<1> QED
  BY <1>1, <1>2, <1>3, <1>4, <1>5, PhaseFrame, ResponseFrame DEF ResponseInv

(* The child only moves while the call is open: a result is final.         *)
LEMMA ChildBeforeResult ==
  ASSUME NothingSurvives, ParentInv, Child
  PROVE  /\ parent # "done" /\ parent' = parent
         /\ result.kind = "none" /\ result' = result
<1>1. child \in Live /\ UNCHANGED callVars
  BY DEF Child, ReadRequest, HideRequest, InstallGuard, BeginLoad, BeginRun,
     Import, TargetForks, TargetReturns, TargetRaises, WriteOk, Fill, Rename,
     WriteFails, RestoreFails, WriteError, Leave, AbruptExit, Hang, At, Live
<1> QED
  BY <1>1 DEF Live, callVars, NothingSurvives, ParentInv

(* Containment is established before the import and never given up.        *)
LEMMA ContainedNext ==
  ASSUME PlaceInv, ParentInv, ContainedBeforeImport, Next
  PROVE  ContainedBeforeImport'
<1>1. CASE Import
  BY <1>1 DEF Import, At, PlaceInv, Place, ContainedBeforeImport
<1>2. CASE StartWorker \/ StartFails
  BY <1>2 DEF StartWorker, StartFails, In, PlaceInv, ParentInv,
     ContainedBeforeImport
<1>3. CASE Child /\ ~Import
  BY <1>3 DEF Child, ReadRequest, HideRequest, InstallGuard, BeginLoad,
     BeginRun, TargetForks, TargetReturns, TargetRaises, WriteOk, Fill, Rename,
     WriteFails, RestoreFails, WriteError, Leave, AbruptExit, Hang, Raises, Write,
     ContainedBeforeImport
<1>4. CASE \/ WaitReturns \/ WaitExpires \/ Kill \/ Clean \/ FinishCapture \/ Decide
           \/ Interrupted
  BY <1>4 DEF WaitReturns, WaitExpires, Kill, Clean, FinishCapture, Decide,
     Interrupted, In, ContainedBeforeImport
<1>5. CASE EditSource \/ OutsideLetsGo
  BY <1>5 DEF EditSource, OutsideLetsGo, childVars, ContainedBeforeImport
<1> QED
  BY <1>1, <1>2, <1>3, <1>4, <1>5 DEF Next, Parent

(* What the parent decides from a response that tells how far the child    *)
(* came, when the child is gone.                                           *)
LEMMA DecideCorrect ==
  ASSUME PhaseInv, ResponseInv, ParentInv, Decide
  PROVE  /\ NothingSurvives' /\ ValueIsOfExpectedTarget'
         /\ FailureNamesItsPhase'
<1>1. /\ parent = "reading" /\ child = "exited" /\ ~inGroup
      /\ UNCHANGED <<operation, expected, phase, loaded, timedOut, child, code, inGroup>>
      /\ parent' = "done" /\ result' = Decision
  BY DEF Decide, In, Return, ParentInv
<1>2. NothingSurvives'
  BY <1>1 DEF NothingSurvives
<1>3. ValueIsOfExpectedTarget'
  BY <1>1 DEF ValueIsOfExpectedTarget, Decision, ResponseInv, ParentInv,
     Operations, Running, Started, Absent, Response, Value, Failed
<1>4. FailureNamesItsPhase'
  BY <1>1 DEF FailureNamesItsPhase, Decision, PhaseInv, ResponseInv, Running,
     Started, Absent, Response, Value, Failed
<1> QED
  BY <1>2, <1>3, <1>4

(* What the call returns and leaves behind.                                *)
LEMMA ResultInvNext ==
  ASSUME PlaceInv, PhaseInv, DraftInv, ResponseInv, ParentInv, ResultInv, Next
  PROVE  ResultInv'
<1> USE DEF NothingSurvives, ValueIsOfExpectedTarget, FailureNamesItsPhase
<1>1. ContainedBeforeImport'
  BY ContainedNext DEF ResultInv
<1>2. CASE Child
  BY <1>1, <1>2, ChildBeforeResult DEF ResultInv
<1>3. CASE StartWorker \/ StartFails
  BY <1>1, <1>3 DEF ResultInv, StartWorker, StartFails, In, Return, Failed,
     PlaceInv, ParentInv
<1>4. CASE WaitReturns \/ WaitExpires \/ Kill \/ Clean
  BY <1>1, <1>4 DEF ResultInv, WaitReturns, WaitExpires, Kill, Clean, In,
     ParentInv
<1>5. CASE Interrupted
  BY <1>1, <1>5 DEF ResultInv, Interrupted, In, KillGroup, Return, ParentInv
<1>6. CASE FinishCapture
  BY <1>1, <1>6 DEF ResultInv, FinishCapture, In, Return, ParentInv
<1>7. CASE Decide
  BY <1>1, <1>7, DecideCorrect DEF ResultInv
<1>8. CASE EditSource \/ OutsideLetsGo
  BY <1>1, <1>8 DEF ResultInv, EditSource, OutsideLetsGo, callVars, childVars
<1> QED
  BY <1>2, <1>3, <1>4, <1>5, <1>6, <1>7, <1>8 DEF Next, Parent

(* The parent looks at nothing while the child lives.                      *)
LEMMA ParentInvNext ==
  ASSUME PlaceInv, NothingSurvives, ParentInv, Next
  PROVE  ParentInv'
<1>1. CASE Child
  BY <1>1 DEF Child, ReadRequest, HideRequest, InstallGuard, BeginLoad,
     BeginRun, Import, TargetForks, TargetReturns, TargetRaises, WriteOk,
     Fill, Rename, WriteFails, RestoreFails, WriteError, Leave, AbruptExit, Hang,
     At, Live, callVars, ParentInv
<1>2. CASE Parent
  BY <1>2 DEF Parent, StartWorker, StartFails, WaitReturns, WaitExpires, Kill,
     Clean, FinishCapture, Decide, KillGroup, In, Return, ParentInv
<1>3. CASE Interrupted
  BY <1>3 DEF Interrupted, KillGroup, In, Return, ParentInv
<1>4. CASE EditSource \/ OutsideLetsGo
  BY <1>4 DEF EditSource, OutsideLetsGo, callVars, childVars, ParentInv
<1> QED
  BY <1>1, <1>2, <1>3, <1>4 DEF Next

(* The invariant is inductive.                                             *)
LEMMA IndInvNext == IndInv /\ [Next]_vars => IndInv'
<1> SUFFICES ASSUME IndInv, Next PROVE IndInv'
  BY IndInvStutter
<1>1. /\ PlaceInv /\ DraftInv /\ PhaseInv /\ ResponseInv /\ ParentInv /\ ResultInv
  BY DEF IndInv, ResultInv
<1>2. Child \/ (Parent \/ Interrupted \/ EditSource \/ OutsideLetsGo)
  BY DEF Next
<1>3. PlaceInv'
  BY <1>1, <1>2, PlaceChild, PlaceParent
<1>4. DraftInv'
  BY <1>1, <1>2, DraftChild, DraftParent
<1>5. PhaseInv'
  BY <1>1, PhaseInvNext
<1>6. ResponseInv'
  BY <1>1, ResponseInvNext
<1>7. ParentInv'
  BY <1>1, ParentInvNext DEF ResultInv
<1>8. ResultInv'
  BY <1>1, ResultInvNext
<1> QED
  BY <1>3, <1>4, <1>5, <1>6, <1>7, <1>8 DEF IndInv, ResultInv

(* Hence it holds throughout.                                              *)
LEMMA Invariance == Spec => []IndInv
  BY IndInvInit, IndInvNext, PTL DEF Spec

(* _execute_worker returns a value only of the expected target and of a    *)
(* worker that was neither killed nor failed.                              *)
THEOREM ValueCorrect == Spec => []ValueIsOfExpectedTarget
<1>1. IndInv => ValueIsOfExpectedTarget
  BY DEF IndInv
<1> QED
  BY <1>1, Invariance, PTL

(* Target code never runs with its request readable or egress open.        *)
THEOREM ContainmentCorrect == Spec => []ContainedBeforeImport
<1>1. IndInv => ContainedBeforeImport
  BY DEF IndInv
<1> QED
  BY <1>1, Invariance, PTL

(* Nothing of the worker's process group outlives the call.                *)
THEOREM CleanupCorrect == Spec => []NothingSurvives
<1>1. IndInv => NothingSurvives
  BY DEF IndInv
<1> QED
  BY <1>1, Invariance, PTL

(* A failure is blamed on a phase the child had really reached, and never  *)
(* on a response that is half written.                                     *)
THEOREM BlameCorrect == Spec => []FailureNamesItsPhase
<1>1. IndInv => FailureNamesItsPhase
  BY DEF IndInv
<1> QED
  BY <1>1, Invariance, PTL

==============================================================================
