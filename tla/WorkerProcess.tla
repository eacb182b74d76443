---------------------------- MODULE WorkerProcess ----------------------------
(***************************************************************************)
(* One isolated worker: the parent writes a request, starts a child, waits *)
(* with a wall-clock timeout, kills what is left and reads one response    *)
(* file (runner/orchestrator.py, _execute_worker).  The child hides the    *)
(* request, denies network egress, imports and runs the target, and keeps  *)
(* the response file up to date (runner/worker.py, execute_request).       *)
(*                                                                         *)
(* Target code is trusted but arbitrary: it may return, raise, hang, leave *)
(* the process, or leave processes behind, inside the worker's process     *)
(* group or outside it, and the developer may edit the source meanwhile.   *)
(***************************************************************************)
EXTENDS Naturals

CONSTANTS
  Sources,        \* versions of the target, as their spec ids
  NoExpectation   \* expected_target_id is None

ASSUME SourcesAssumption == NoExpectation \notin Sources /\ Sources # {}

VARIABLES
  operation,  \* what the worker is asked to do
  expected,   \* the target the parent expects a run of
  source,     \* the target on disk
  parent,     \* where _execute_worker is
  timedOut,   \* the wait expired
  result,     \* what _execute_worker returned
  request,    \* request.json exists
  response,   \* response.json
  child,      \* where execute_request is
  phase,      \* its local variable of that name
  draft,      \* the temporary file it is about to rename to response.json
  loaded,     \* the target it imported
  code,       \* its exit status
  guarded,    \* network egress is denied in it
  inGroup,    \* a descendant lives in the worker's process group
  outside     \* what the descendants that left the group hold of its pipes

callVars == <<operation, expected, parent, timedOut, result>>
childVars == <<child, phase, draft, loaded, code, guarded, inGroup, outside>>
vars == <<callVars, source, request, response, childVars>>

Operations == {"inspect", "run"}
ExitCodes == 0 .. 2
Killed == 2

Response(status, at, target) == [status |-> status, phase |-> at, target |-> target]
Absent == Response("absent", "none", NoExpectation)
Started == Response("running", "worker_start", NoExpectation)

(* A file that does not parse; a timed-out call then blames the run.       *)
Torn == Response("torn", "run", NoExpectation)

NoDraft == [to |-> "none"]
NoResult == [kind |-> "none"]
Value(target) == [kind |-> "value", target |-> target]
Failed(why, at) == [kind |-> "error", code |-> why, phase |-> at]

Init ==
  /\ operation \in Operations
  /\ expected \in Sources \cup {NoExpectation}
  /\ operation = "inspect" => expected = NoExpectation
  /\ source \in Sources
  /\ parent = "start" /\ timedOut = FALSE /\ result = NoResult
  /\ request = FALSE /\ response = Absent
  /\ child = "none" /\ phase = "request" /\ draft = NoDraft
  /\ loaded = NoExpectation /\ code = 0 /\ guarded = FALSE
  /\ inGroup = FALSE /\ outside = "none"

(* The developer edits the target while the call is under way.             *)
EditSource ==
  /\ parent # "done" /\ loaded = NoExpectation
  /\ source' \in Sources \ {source}
  /\ UNCHANGED <<callVars, request, response, childVars>>

-----------------------------------------------------------------------------
(* The child.                                                              *)

Live == {"boot", "read", "hidden", "begin", "scenario", "target", "complete",
         "writing", "failing", "leaving"}

At(place) == child = place /\ UNCHANGED <<callVars, source>>

(* An exception, caught at the end of execute_request.                     *)
Raises ==
  /\ child' = "failing" /\ draft' = NoDraft
  /\ UNCHANGED <<request, response, phase, loaded, code, guarded, inGroup, outside>>

(* _write_private_json opens a temporary file, which holds nothing whole   *)
(* until it is filled, and renames it when it is on disk.                  *)
Write(what, next) ==
  /\ child' = "writing"
  /\ draft' = [to |-> next, response |-> what, file |-> Torn]
  /\ UNCHANGED <<request, response, loaded, code, guarded, inGroup, outside>>

Fill ==
  /\ At("writing")
  /\ draft.file = Torn
  /\ draft' = [to |-> draft.to, response |-> draft.response, file |-> draft.response]
  /\ UNCHANGED <<request, response, child, phase, loaded, code, guarded, inGroup, outside>>

(* An error response is only attempted.                                    *)
WhenWriteFails == IF draft.response.status = "error" THEN "leaving" ELSE "failing"

(* Seeded fault: the file is renamed while it is still being filled.       *)
MutRename ==
  /\ At("writing")
  /\ response' = draft.file /\ draft' = NoDraft
  /\ child' \in {draft.to, WhenWriteFails}
  /\ UNCHANGED <<request, phase, loaded, code, guarded, inGroup, outside>>

(* The mode of the file is set after the rename, and may be refused.       *)
Rename ==
  /\ At("writing")
  /\ draft.file = draft.response
  /\ response' = draft.file /\ draft' = NoDraft
  /\ child' \in {draft.to, WhenWriteFails}
  /\ UNCHANGED <<request, phase, loaded, code, guarded, inGroup, outside>>

WriteFails ==
  /\ At("writing")
  /\ child' = WhenWriteFails /\ draft' = NoDraft
  /\ UNCHANGED <<request, response, phase, loaded, code, guarded, inGroup, outside>>

ReadRequest ==
  /\ At("boot")
  /\ \/ /\ child' = "read"
        /\ UNCHANGED <<request, response, phase, draft, loaded, code, guarded,
                       inGroup, outside>>
     \/ Raises

HideRequest ==
  /\ At("read")
  /\ \/ /\ request' = FALSE /\ child' = "hidden"
        /\ UNCHANGED <<response, phase, draft, loaded, code, guarded, inGroup, outside>>
     \/ Raises

InstallGuard ==
  /\ At("hidden")
  /\ \/ /\ guarded' = TRUE /\ child' = "begin"
        /\ UNCHANGED <<request, response, phase, draft, loaded, code, inGroup, outside>>
     \/ Raises

BeginLoad ==
  /\ At("begin")
  /\ phase' = "load"
  /\ Write(Response("running", "load", NoExpectation),
           IF operation = "run" THEN "scenario" ELSE "target")

(* Seeded fault: the local phase is not advanced before the run.           *)
MutBeginRun ==
  /\ At("scenario")
  /\ UNCHANGED phase
  /\ Write(Response("running", "run", NoExpectation), "target")

BeginRun ==
  /\ At("scenario")
  /\ phase' = "run"
  /\ Write(Response("running", "run", NoExpectation), "target")

Import ==
  /\ At("target")
  /\ loaded = NoExpectation
  /\ loaded' = source
  /\ UNCHANGED <<request, response, child, phase, draft, code, guarded, inGroup, outside>>

(* A descendant that left the group holds an end of the worker's pipes.    *)
Held == outside = "pipes"

TargetForks ==
  /\ At("target")
  /\ loaded # NoExpectation
  /\ \/ inGroup' = TRUE /\ UNCHANGED outside
     \/ /\ outside' \in IF Held THEN {"pipes"} ELSE {"nothing", "pipes"}
        /\ UNCHANGED inGroup
  /\ UNCHANGED <<request, response, child, phase, draft, loaded, code, guarded>>

TargetReturns ==
  /\ At("target")
  /\ loaded # NoExpectation
  /\ child' = "complete"
  /\ UNCHANGED <<request, response, phase, draft, loaded, code, guarded, inGroup, outside>>

TargetRaises == At("target") /\ Raises

WriteOk ==
  /\ At("complete")
  /\ UNCHANGED phase
  /\ Write(Response("ok", "complete", loaded), "leaving")

(* The working directory cannot be restored: the exception comes after the *)
(* result was written.                                                     *)
RestoreFails ==
  /\ At("leaving")
  /\ response.status = "ok" /\ code = 0
  /\ Raises

(* The structured error, and exit status 1 whether or not it is written.   *)
WriteError ==
  /\ At("failing")
  /\ child' = "writing"
  /\ draft' = [to |-> "leaving", response |-> Response("error", phase, NoExpectation),
               file |-> Torn]
  /\ code' = 1
  /\ UNCHANGED <<request, response, phase, loaded, guarded, inGroup, outside>>

(* Interpreter shutdown; an exit handler of the target may set the status. *)
Leave ==
  /\ At("leaving")
  /\ child' = "exited"
  /\ IF loaded = NoExpectation THEN UNCHANGED code ELSE code' \in {0, 1}
  /\ UNCHANGED <<request, response, phase, draft, loaded, guarded, inGroup, outside>>

(* The interpreter does not start, the system kills it, or the target or a *)
(* thread it started ends the process at once, in the middle of anything.  *)
AbruptExit ==
  /\ child \in Live /\ At(child)
  /\ child' = "exited"
  /\ code' \in IF loaded = NoExpectation THEN {1, Killed} ELSE ExitCodes
  /\ UNCHANGED <<request, response, phase, draft, loaded, guarded, inGroup, outside>>

(* Target code, or a thread that keeps the interpreter from ending, hangs. *)
Hang ==
  /\ child \in {"target", "leaving"} /\ At(child)
  /\ loaded # NoExpectation
  /\ child' = "hung"
  /\ UNCHANGED <<request, response, phase, draft, loaded, code, guarded, inGroup, outside>>

Child ==
  \/ ReadRequest \/ HideRequest \/ InstallGuard \/ BeginLoad \/ BeginRun
  \/ Import \/ TargetForks \/ TargetReturns \/ TargetRaises
  \/ WriteOk \/ Fill \/ Rename \/ WriteFails \/ RestoreFails \/ WriteError
  \/ Leave \/ AbruptExit \/ Hang

(* The descendants that left the group close the pipes, or end, when they  *)
(* like, if ever.                                                          *)
OutsideLetsGo ==
  /\ outside # "none"
  /\ outside' = IF Held THEN "nothing" ELSE "none"
  /\ UNCHANGED <<callVars, source, request, response, child, phase, draft, loaded, code,
                 guarded, inGroup>>

-----------------------------------------------------------------------------
(* The parent.                                                             *)

In(place) ==
  parent = place /\ UNCHANGED <<operation, expected, source, phase, draft, loaded,
                                guarded, outside>>

Return(outcome) == parent' = "done" /\ result' = outcome

(* Both files are written before the child exists.                         *)
StartWorker ==
  /\ In("start")
  /\ request' = TRUE /\ response' = Started
  /\ parent' = "waiting" /\ child' = "boot"
  /\ UNCHANGED <<timedOut, result, code, inGroup>>

(* Popen fails, or the interpreter it should start is refused.             *)
StartFails ==
  /\ In("start")
  /\ request' = TRUE /\ response' = Started
  /\ \/ Return(Failed("worker_start_failed", "worker_start"))
     \/ Return([kind |-> "raised"])
  /\ UNCHANGED <<timedOut, child, code, inGroup>>

WaitReturns ==
  /\ In("waiting")
  /\ child = "exited"
  /\ parent' = "cleaning"
  /\ UNCHANGED <<timedOut, result, request, response, child, code, inGroup>>

(* Seeded fault: an inspection waits without a timeout.                    *)
MutWaitExpires ==
  /\ In("waiting")
  /\ operation = "run" /\ child # "exited"
  /\ timedOut' = TRUE /\ parent' = "killing"
  /\ UNCHANGED <<result, request, response, child, code, inGroup>>

WaitExpires ==
  /\ In("waiting")
  /\ child # "exited"
  /\ timedOut' = TRUE /\ parent' = "killing"
  /\ UNCHANGED <<result, request, response, child, code, inGroup>>

(* SIGKILL to the group; a child that has just exited keeps its status.    *)
KillGroup ==
  /\ child' = "exited"
  /\ code' = IF child = "exited" THEN code ELSE Killed
  /\ inGroup' = FALSE

Kill ==
  /\ In("killing")
  /\ KillGroup
  /\ parent' = "cleaning"
  /\ UNCHANGED <<timedOut, result, request, response>>

(* KeyboardInterrupt, or any other exception, while waiting or killing:    *)
(* what the except and finally clauses are written for; or while the       *)
(* output is captured, when the group is already gone.                     *)
Interrupted ==
  /\ UNCHANGED <<timedOut, request, response>>
  /\ \/ /\ parent \in {"waiting", "killing"} /\ In(parent)
        /\ KillGroup
        /\ parent' = "unwinding"
        /\ UNCHANGED result
     \/ /\ parent \in {"capturing", "unwinding"} /\ In(parent)
        /\ Return([kind |-> "raised"])
        /\ UNCHANGED <<child, code, inGroup>>

(* Seeded fault: the group is killed only when the wait has expired.       *)
MutClean ==
  /\ In("cleaning")
  /\ inGroup' = (inGroup /\ ~timedOut)
  /\ parent' = "capturing"
  /\ UNCHANGED <<timedOut, result, request, response, child, code>>

(* What still lives in the group is killed before the response is read.    *)
Clean ==
  /\ In("cleaning")
  /\ inGroup' = FALSE
  /\ parent' = "capturing"
  /\ UNCHANGED <<timedOut, result, request, response, child, code>>

(* _finish_capture joins the threads that read the pipes, for a second     *)
(* each, and closes the pipes.  A thread that is blocked reading one holds *)
(* its lock, and the close waits for it without a bound: until the last    *)
(* holder lets go, or writes enough for the read to return.                *)
FinishCapture ==
  /\ \/ In("capturing") /\ parent' = "reading" /\ UNCHANGED result
     \/ In("unwinding") /\ Return([kind |-> "raised"])
  /\ UNCHANGED <<timedOut, request, response, child, code, inGroup>>

(* Seeded fault: the exit status alone tells whether the worker is done.   *)
MutDecision ==
  IF timedOut THEN Failed("worker_timeout", response.phase)
  ELSE IF code # 0 \/ response.status = "torn" THEN Failed("worker_failed", response.phase)
  ELSE Value(response.target)

(* The order in which _execute_worker looks at what it has.                *)
Decision ==
  IF timedOut THEN Failed("worker_timeout", response.phase)
  ELSE IF response.status = "torn"
       THEN Failed("invalid_worker_response", "worker_response")
  ELSE IF response.status # "ok" \/ code # 0
       THEN Failed(IF response.status = "error" THEN "worker_reported"
                   ELSE "worker_failed", response.phase)
  ELSE IF operation = "run" /\ expected \notin {NoExpectation, response.target}
       THEN Failed("worker_result_identity_mismatch", "worker_response")
  ELSE Value(response.target)

Decide ==
  /\ In("reading")
  /\ Return(Decision)
  /\ UNCHANGED <<timedOut, request, response, child, code, inGroup>>

Parent ==
  \/ StartWorker \/ StartFails \/ WaitReturns \/ WaitExpires \/ Kill \/ Clean
  \/ FinishCapture \/ Decide

Next == EditSource \/ Child \/ OutsideLetsGo \/ Parent \/ Interrupted

Spec == Init /\ [][Next]_vars

(* The parent goes on and its clock runs, except where it waits for a pipe *)
(* that is held; nothing is assumed of the child and what it leaves.       *)
Blocked == parent \in {"capturing", "unwinding"} /\ Held

FairSpec == Spec /\ WF_vars(~Blocked /\ Parent)

-----------------------------------------------------------------------------
(* The states of one call.                                                 *)
TypeOK ==
  /\ operation \in Operations
  /\ {expected, loaded} \subseteq Sources \cup {NoExpectation}
  /\ source \in Sources
  /\ parent \in {"start", "waiting", "killing", "cleaning", "capturing", "unwinding",
                 "reading", "done"}
  /\ {timedOut, request, guarded, inGroup} \subseteq BOOLEAN
  /\ outside \in {"none", "nothing", "pipes"}
  /\ result.kind \in {"none", "value", "error", "raised"}
  /\ response.status \in {"absent", "running", "ok", "error", "torn"}
  /\ response.target \in Sources \cup {NoExpectation}
  /\ child \in Live \cup {"none", "hung", "exited"}
  /\ phase \in {"request", "load", "run"}
  /\ draft # NoDraft => child \in {"writing", "exited"} /\ draft.to \in Live
  /\ code \in ExitCodes

(* A value is returned only for a worker that imported the expected target *)
(* and left with status 0, whatever was edited, killed or timed out in the *)
(* meantime: a late answer of a worker that was killed is not used.        *)
ValueIsOfExpectedTarget ==
  result.kind = "value" =>
    /\ loaded # NoExpectation /\ result.target = loaded
    /\ expected \in {NoExpectation, loaded}
    /\ child = "exited" /\ code = 0 /\ ~timedOut

(* When target code runs, the request (its private input) is out of its    *)
(* reach and network egress is denied.                                     *)
ContainedBeforeImport == loaded # NoExpectation => ~request /\ guarded

(* No process of the worker's group outlives the call, on any path out of  *)
(* it: a value, a timeout, a crash or an interrupt.                        *)
NothingSurvives == parent = "done" => child \in {"none", "exited"} /\ ~inGroup

(* The phase a failure is blamed on tells whether target code had run: not *)
(* before the phase that imports it, and always once it is complete, also  *)
(* when the error could not be written or the worker was killed.  Though   *)
(* that can be in the middle of writing a response, no call fails for one  *)
(* that is half written, and none is blamed on a run that had not begun.   *)
FailureNamesItsPhase ==
  result.kind = "error" =>
    /\ result.phase \in {"worker_start", "request"} => loaded = NoExpectation
    /\ operation = "run" /\ result.phase = "load" => loaded = NoExpectation
    /\ result.phase = "run" => phase = "run"
    /\ result.phase = "complete" => loaded # NoExpectation
    /\ result.code = "worker_reported" => result.phase = phase
    /\ result.code # "invalid_worker_response"

(* Whatever the child does the call returns: a hung target costs its       *)
(* timeout and no more, unless a descendant that left the worker's group   *)
(* keeps the worker's output open for ever.                                *)
CallReturns == []<>~Held => ((parent = "start") ~> (parent = "done"))

-----------------------------------------------------------------------------
(* Why the above holds, as an inductive invariant.                         *)

(* Where the child is, or will be when it has written the response.        *)
Place == IF child = "writing" THEN draft.to ELSE child

Running(at) == Response("running", at, NoExpectation)

(* What the child has done before it reaches a place.                      *)
PlaceInv ==
  /\ child = "none" => ~inGroup
  /\ child \in {"none", "boot", "read", "hidden", "begin"} =>
       phase = "request" /\ loaded = NoExpectation
  /\ child \in {"boot", "read", "hidden", "begin"} => response = Started
  /\ Place \in {"hidden", "begin", "scenario", "target", "complete"} => ~request
  /\ Place \in {"begin", "scenario", "target", "complete"} => guarded
  /\ Place = "scenario" =>
       operation = "run" /\ phase = "load" /\ loaded = NoExpectation
  /\ Place = "target" => phase = IF operation = "run" THEN "run" ELSE "load"
  /\ child \in {"scenario", "target"} => response = Running(phase)
  /\ child = "complete" => loaded # NoExpectation

(* The response about to be renamed into place, and the file it is in.     *)
DraftInv ==
  child = "writing" =>
    /\ draft.file \in {Torn, draft.response}
    /\ \/ /\ draft.to \in {"scenario", "target"} /\ loaded = NoExpectation
          /\ draft.response = Running(phase)
       \/ /\ draft.to = "leaving" /\ loaded # NoExpectation
          /\ draft.response = Response("ok", "complete", loaded)
       \/ /\ draft.to = "leaving"
          /\ draft.response = Response("error", phase, NoExpectation)

(* Before a run's last phase no target is imported.                        *)
PhaseInv ==
  /\ phase \in {"request", "load", "run"}
  /\ phase = "request" \/ (phase = "load" /\ operation = "run") =>
       loaded = NoExpectation

(* The response on disk tells how far the child has come.                  *)
ResponseInv ==
  \/ response \in {Absent, Started} /\ loaded = NoExpectation
  \/ /\ response = Running("load")
     /\ operation = "run" => loaded = NoExpectation
  \/ response = Running("run") /\ operation = "run" /\ phase = "run"
  \/ response = Response("ok", "complete", loaded) /\ loaded # NoExpectation
  \/ response = Response("error", phase, NoExpectation)

(* Once the parent looks at the response the worker is gone.               *)
ParentInv ==
  /\ operation \in Operations
  /\ operation = "inspect" => expected = NoExpectation
  /\ parent = "start" => child = "none"
  /\ parent \in {"cleaning", "capturing", "unwinding", "reading"} => child = "exited"
  /\ parent \in {"capturing", "unwinding", "reading"} => ~inGroup
  /\ result.kind # "none" => parent = "done"

(* At every step of child and parent, kills and interrupts included: what  *)
(* is on disk, which phase is reported and what was loaded agree with how  *)
(* far the child came.                                                     *)
IndInv ==
  /\ PlaceInv
  /\ DraftInv
  /\ PhaseInv
  /\ ResponseInv
  /\ ParentInv
  /\ ContainedBeforeImport
  /\ NothingSurvives
  /\ ValueIsOfExpectedTarget
  /\ FailureNamesItsPhase
=============================================================================
