---------------------------- MODULE SuiteExecution ----------------------------
(***************************************************************************)
(* The commands that execute scenarios and what they leave on disk:        *)
(* execute_suite, replay_suite and shrink_suite of application.py, the run *)
(* directory of artifacts.py, the replay manifests of replay/, and the     *)
(* loader of report/load.py that reads a stored run back.                  *)
(*                                                                         *)
(* Commands run at the same time, in processes of their own, on one target *)
(* whose source a developer edits meanwhile.  An execution is one command: *)
(* executions are numbered in the order they begin.  The source is one     *)
(* value (SourceSnapshot has its files), what an inspection sees of it is  *)
(* SpecOf, and a worker is one call of run_scenario_in_subprocess, whose   *)
(* own life WorkerProcess has.                                             *)
(***************************************************************************)
EXTENDS Naturals, Sequences, FiniteSets

CONSTANTS
  Source,          \* the contents the target's source can have
  Original,        \* the content it has at first
  Edits,           \* [Source -> SUBSET Source]: what each can be edited to
  Spec,            \* what inspections can see
  SpecOf,          \* [Source -> Spec]: two sources may look the same
  Scenario,        \* the cases
  Clean,           \* [Spec -> SUBSET Scenario]: the cases that lint
  Unsafe,          \* cases that cannot be serialized without redaction
  Smaller,         \* [Scenario -> Scenario]: a case after shrinking
  RunId,           \* run ids, numbers so that the latest name is the largest
  VerifyId,        \* [RunId -> RunId]: the id of a shrink's verification
  Command,         \* the commands given: see CommandType
  MaxConcurrency,  \* configured number of workers at a time
  MaxExecutions,   \* bound on the commands of a behaviour
  MaxActive,       \* bound on the commands that run at the same time
  MaxEdits,        \* bound on the developer's edits
  MaxCrashes,      \* bound on the commands that are killed or interrupted
  None

ASSUME SuiteAssumption ==
  /\ RunId \subseteq Nat
  /\ IsFiniteSet(RunId)
  /\ MaxExecutions \in Nat
  /\ MaxConcurrency \in Nat \ {0}
  /\ Original \in Source
  /\ SpecOf \in [Source -> Spec]
  /\ Edits \in [Source -> SUBSET Source]
  /\ Clean \in [Spec -> SUBSET Scenario]
  /\ Smaller \in [Scenario -> Scenario]
  /\ VerifyId \in [RunId -> RunId]

Execution == 1..MaxExecutions

\* No case twice: built_in_suite, FrozenSuite.
Suites == {s \in Seq(Scenario) : \A i, j \in DOMAIN s : s[i] = s[j] => i = j}

Kinds == {"test", "replay", "shrink", "verify", "report"}
\* run is the run id of the command, from the manifest it reads, suite what a
\* test is configured to execute.  A report with no run id is of the latest run.
CommandType ==
  [kind : Kinds, run : RunId \cup {None}, from : RunId \cup {None},
   suite : Suites, frozen : BOOLEAN, select : BOOLEAN]
\* new_run_id never draws a shrink's id for a test or a replay, and the id of a
\* verification ends in -verify, as none that is drawn does.
ASSUME CommandAssumption ==
  /\ Command \subseteq CommandType
  /\ \A c \in Command :
       /\ c.kind # "verify"
       /\ c.kind # "report" => c.run \in RunId
       /\ c.kind \in {"replay", "shrink"} => c.from \in RunId
       /\ c.kind = "shrink" =>
            /\ \A d \in Command : d.kind \in {"test", "replay"} => d.run # c.run
            /\ \A r \in RunId : VerifyId[r] # c.run

\* How a worker's call of run_scenario_in_subprocess ends.
Outcomes == {"run", "broken_run", "no_run"}
WorkType == [source : Source, outcome : Outcomes \cup {None}]
ResultType == [case : Scenario, source : Source, kind : Outcomes]
ManifestType ==
  [by : Execution, source : Source, spec : Spec, cases : Suites \ {<<>>}]

\* The artifacts in the order they are written, and those a reader requires.
ArtifactOrder ==
  <<"agent-spec", "suite", "invalid-scenarios", "runs", "evaluations",
    "findings", "summary", "report">>
Required ==
  {"agent-spec", "suite", "evaluations", "runs", "findings", "summary"}

Artifacts == {ArtifactOrder[k] : k \in DOMAIN ArtifactOrder}
FileType ==
  [by : Execution,
   data : Seq(Scenario) \cup Seq(ResultType) \cup (Source \X Source)]
DirType ==
  [owner : Execution, files : UNION {[names -> FileType] : names \in SUBSET Artifacts}]

ASSUME NoneAssumption ==
  /\ None \notin RunId
  /\ None \notin Outcomes
  /\ None \notin WorkType
  /\ None \notin ManifestType
  /\ None \notin DirType

VARIABLES
  tree,       \* the source as it is now
  edits,      \* how often it was changed
  crashes,    \* how many commands were killed or interrupted
  exec,       \* [Execution -> state of the command]
  dirs,       \* run directories: [RunId -> None or what is in it]
  manifests,  \* replay manifests: [RunId -> None or the manifest]
  index       \* the run ids in the evaluation store, in recorded order

vars == <<tree, edits, crashes, exec, dirs, manifests, index>>

Idle ==
  [pc |-> "idle", cmd |-> None, manifest |-> None, bound |-> None, since |-> 0,
   inspected |-> None, cases |-> <<>>, work |-> <<>>, indexed |-> <<>>,
   span |-> 0, written |-> 0, author |-> None]

Ended == {"done", "refused", "failed", "crashed", "unreproduced", "invalid"}
Active == {e \in Execution : exec[e].pc \notin Ended \cup {"idle"}}

Init ==
  /\ tree = Original
  /\ edits = 0
  /\ crashes = 0
  /\ exec = [e \in Execution |-> Idle]
  /\ dirs = [r \in RunId |-> None]
  /\ manifests = [r \in RunId |-> None]
  /\ index = <<>>

-----------------------------------------------------------------------------
(* The developer edits the target, also back to an earlier content. *)
Edit ==
  /\ edits < MaxEdits
  /\ tree' \in Edits[tree]
  /\ edits' = edits + 1
  /\ UNCHANGED <<crashes, exec, dirs, manifests, index>>

\* Execution e goes on with the fields of its state that are in new.
Go(e, new) ==
  exec' = [exec EXCEPT ![e] =
    [f \in DOMAIN @ |-> IF f \in DOMAIN new THEN new[f] ELSE @[f]]]
At(e, where) == Go(e, [pc |-> where])
\* It ends; what is left of it is on disk, and how often the source was edited.
End(e, how) ==
  exec' = [exec EXCEPT ![e] = [Idle EXCEPT !.pc = how, !.span = exec[e].span]]
Outside == <<tree, edits, crashes>>
Disk == <<dirs, manifests, index>>

Begin(e) ==
  /\ exec[e].pc = "idle"
  /\ \A d \in 1..(e - 1) : exec[d].pc # "idle"
  /\ Cardinality(Active) < MaxActive
  /\ \E c \in Command :
       Go(e, [cmd |-> c,
              pc |-> IF c.kind = "test" THEN "begun"
                     ELSE IF c.kind = "report" THEN "resolving" ELSE "loading"])
  /\ UNCHANGED <<Outside, Disk>>

(* The manifest is parsed before the target is imported.  A shrink whose   *)
(* run id would overwrite the manifest it reads is refused.                *)
Load(e) ==
  LET c == exec[e].cmd
      m == manifests[c.from]
  IN /\ exec[e].pc = "loading"
     /\ IF m = None \/ (c.kind = "shrink" /\ c.run = c.from)
        THEN End(e, "refused")
        ELSE Go(e, [pc |-> "begun", manifest |-> m])
     /\ UNCHANGED <<Outside, Disk>>

(* capture_source_snapshot, for a replay inside verify_replay_source_bindings; *)
(* it may refuse the source (SourceSnapshot says which).                       *)
Capture(e) ==
  /\ exec[e].pc = "begun"
  /\ \/ End(e, "refused")
     \/ /\ (exec[e].cmd.kind # "test" => exec[e].manifest.source = tree)
        /\ Go(e, [bound |-> tree, since |-> edits,
                  pc |-> IF exec[e].cmd.kind = "test" THEN "captured"
                                                      ELSE "bound"])
  /\ UNCHANGED <<Outside, Disk>>

(* verify_source_snapshot: the source of this moment against the captured one. *)
Verify(e, from, to) ==
  /\ exec[e].pc = from
  /\ IF tree = exec[e].bound THEN At(e, to) ELSE End(e, "refused")
  /\ UNCHANGED <<Outside, Disk>>

VerifyBeforeInspection(e) == Verify(e, "bound", "captured")

(* inspect_in_subprocess imports the source as it then is; it may fail, or *)
(* report a target that is not supported.                                  *)
Inspect(e) ==
  /\ exec[e].pc = "captured"
  /\ \/ Go(e, [pc |-> "inspected", inspected |-> tree])
     \/ End(e, "refused")
  /\ UNCHANGED <<Outside, Disk>>

\* The elements of s that are in T, in their order: SelectSeq, with the places
\* that are kept in a form the proofs can speak of.
Places(s, T) == {i \in DOMAIN s : s[i] \in T}
Enumeration(I) ==
  CHOOSE o \in [1..Cardinality(I) -> I] : \A j, k \in DOMAIN o : j < k => o[j] < o[k]
Kept(s, T) ==
  LET order == Enumeration(Places(s, T)) IN [k \in DOMAIN order |-> s[order[k]]]

SpecSeen(e) == SpecOf[exec[e].inspected]
CasesThatLint(s, spec) == Kept(s, Clean[spec])
NonemptyParts(s) ==
  {Kept(s, part) : part \in SUBSET {s[i] : i \in DOMAIN s}} \ {<<>>}

(* A test lints its suite: a frozen suite is executed whole or not at all, *)
(* of the built-in one the clean cases remain.  Selection keeps some.      *)
PrepareTest(e) ==
  LET valid == CasesThatLint(exec[e].cmd.suite, SpecSeen(e))
  IN /\ exec[e].pc = "inspected"
     /\ exec[e].cmd.kind = "test"
     /\ IF valid = <<>> \/ (exec[e].cmd.frozen /\ valid # exec[e].cmd.suite)
        THEN End(e, "refused")
        ELSE \E kept \in IF exec[e].cmd.select THEN NonemptyParts(valid)
                                               ELSE {valid} :
               Go(e, [pc |-> "prepared", cases |-> kept])
     /\ UNCHANGED <<Outside, Disk>>

(* A replay takes the cases of its manifest, all of them. *)
PrepareReplay(e) ==
  LET m == exec[e].manifest
  IN /\ exec[e].pc = "inspected"
     /\ exec[e].cmd.kind \in {"replay", "verify"}
     /\ IF \/ SpecSeen(e) # m.spec
           \/ CasesThatLint(m.cases, SpecSeen(e)) # m.cases
        THEN End(e, "refused")
        ELSE Go(e, [pc |-> "prepared", cases |-> m.cases])
     /\ UNCHANGED <<Outside, Disk>>

VerifyBeforeWorkers(e) == Verify(e, "prepared", "verified")

\* Seeded fault: the directory of a run that is over is taken over.
MutReserve(e) ==
  LET r == exec[e].cmd.run
  IN /\ exec[e].pc = "verified"
     /\ IF dirs[r] # None /\ exec[dirs[r].owner].pc \notin Ended
        THEN End(e, "refused") /\ UNCHANGED dirs
        ELSE /\ dirs' = [dirs EXCEPT ![r] = [owner |-> e, files |-> <<>>]]
             /\ Go(e, [pc |-> "running", indexed |-> <<>>,
                       work |-> [i \in DOMAIN exec[e].cases |-> None]])
     /\ UNCHANGED <<Outside, manifests, index>>

(* ArtifactStore: the run directory must not exist. *)
Reserve(e) ==
  LET r == exec[e].cmd.run
  IN /\ exec[e].pc = "verified"
     /\ IF dirs[r] # None
        THEN End(e, "refused") /\ UNCHANGED dirs
        ELSE /\ dirs' = [dirs EXCEPT ![r] = [owner |-> e, files |-> <<>>]]
             /\ Go(e, [pc |-> "running", indexed |-> <<>>,
                       work |-> [i \in DOMAIN exec[e].cases |-> None]])
     /\ UNCHANGED <<Outside, manifests, index>>

-----------------------------------------------------------------------------
(* The worker pool.  work[i] is None while case i is queued, then the      *)
(* worker with the source it imported, its outcome once it has returned.   *)
Executing == {"running", "unwinding"}
Working(e) == {i \in DOMAIN exec[e].work :
                 exec[e].work[i] # None /\ exec[e].work[i].outcome = None}

StartWorker(e) ==
  LET queued == {i \in DOMAIN exec[e].work : exec[e].work[i] = None}
  IN /\ exec[e].pc \in Executing
     /\ queued # {}
     /\ Cardinality(Working(e)) < MaxConcurrency
     /\ LET next == CHOOSE i \in queued : \A j \in queued : i <= j
        IN Go(e, [work |-> [exec[e].work EXCEPT ![next] =
                              [source |-> tree, outcome |-> None]]])
     /\ UNCHANGED <<Outside, Disk>>

(* A worker that inspects as another target is an infrastructure failure;  *)
(* otherwise it returns a canonical run (which may itself be a failure of  *)
(* the infrastructure), a failed process, or an executor's exception.      *)
WorkerReturns(e) ==
  /\ \E i \in Working(e) :
       \E out \in IF SpecOf[exec[e].work[i].source] = SpecSeen(e)
                  THEN {"run", "broken_run", "no_run"} ELSE {"no_run"} :
         Go(e, [work |-> [exec[e].work EXCEPT ![i].outcome = out]])
  /\ UNCHANGED <<Outside, Disk>>

Result(e, i) ==
  [case |-> exec[e].cases[i], source |-> exec[e].work[i].source,
   kind |-> exec[e].work[i].outcome]
Uncollected(e) ==
  {i \in DOMAIN exec[e].work \ DOMAIN exec[e].indexed :
     exec[e].work[i] # None /\ exec[e].work[i].outcome # None}

(* as_completed yields the futures as they end. *)
Collect(e) ==
  /\ exec[e].pc = "running"
  /\ \E i \in Uncollected(e) :
       Go(e, [indexed |->
                [j \in DOMAIN exec[e].indexed \cup {i} |->
                   IF j = i THEN Result(e, i) ELSE exec[e].indexed[j]]])
  /\ UNCHANGED <<Outside, Disk>>

(* The progress callback, the evaluation or an interrupt raises while      *)
(* results are collected: leaving the pool waits for every case, queued    *)
(* ones included, and the exception ends the command.                      *)
CollectRaises(e) ==
  /\ exec[e].pc = "running"
  /\ crashes < MaxCrashes
  /\ crashes' = crashes + 1
  /\ At(e, "unwinding")
  /\ UNCHANGED <<tree, edits, Disk>>
PoolDrained(e) == \A i \in DOMAIN exec[e].work :
                    exec[e].work[i] # None /\ exec[e].work[i].outcome # None
Unwind(e) ==
  /\ exec[e].pc = "unwinding"
  /\ PoolDrained(e)
  /\ End(e, "failed")
  /\ UNCHANGED <<Outside, Disk>>

-----------------------------------------------------------------------------

\* Seeded fault: the reservation of a refused run is kept.
MutUnreserved(e) == dirs

(* _remove_empty_run_reservation: rmdir, which keeps what is not empty. *)
Unreserved(e) ==
  LET r == exec[e].cmd.run
  IN IF dirs[r] # None /\ DOMAIN dirs[r].files = {}
     THEN [dirs EXCEPT ![r] = None] ELSE dirs

\* Seeded fault: the source is not compared again after the workers.
MutVerifyAfterWorkers(e) ==
  /\ exec[e].pc = "running"
  /\ DOMAIN exec[e].indexed = DOMAIN exec[e].cases
  /\ Go(e, [pc |-> "analyzed", span |-> edits - exec[e].since])
  /\ UNCHANGED <<Outside, Disk>>

VerifyAfterWorkers(e) ==
  /\ exec[e].pc = "running"
  /\ DOMAIN exec[e].indexed = DOMAIN exec[e].cases
  /\ IF tree = exec[e].bound
     THEN /\ Go(e, [pc |-> "analyzed", span |-> edits - exec[e].since])
          /\ UNCHANGED dirs
     ELSE /\ dirs' = Unreserved(e)
          /\ End(e, "refused")
  /\ UNCHANGED <<Outside, manifests, index>>

Manifest(e, source, spec, cases) ==
  [by |-> e, source |-> source, spec |-> spec, cases |-> cases]

\* Seeded fault: the manifest is of the configured suite, not of what was executed.
MutEmitted(e) ==
  [manifests EXCEPT ![exec[e].cmd.run] =
     Manifest(e, exec[e].bound, SpecSeen(e), exec[e].cmd.suite)]

Emitted(e) ==
  [manifests EXCEPT ![exec[e].cmd.run] =
     Manifest(e, exec[e].bound, SpecSeen(e), exec[e].cases)]

(* _emit_replay_manifest: every executed case or none.  Writing may fail,  *)
(* before or after the file was replaced; the reservation is then removed. *)
EmitManifest(e) ==
  LET cases == exec[e].cases
  IN /\ exec[e].pc = "analyzed"
     /\ \/ /\ \A i \in DOMAIN cases : cases[i] \notin Unsafe
           /\ manifests' = Emitted(e)
           /\ At(e, "emitted")
           /\ UNCHANGED dirs
        \/ /\ \/ UNCHANGED manifests
              \/ /\ \A i \in DOMAIN cases : cases[i] \notin Unsafe
                 /\ manifests' = Emitted(e)
           /\ dirs' = Unreserved(e)
           /\ End(e, "refused")
     /\ UNCHANGED <<Outside, index>>

\* Seeded fault: a case whose worker failed has no evaluation.
MutInSuiteOrder(e) ==
  SelectSeq([i \in DOMAIN exec[e].cases |-> exec[e].indexed[i]],
            LAMBDA result : result.kind # "no_run")

InSuiteOrder(e) ==
  [i \in DOMAIN exec[e].cases |-> exec[e].indexed[i]]
RunsOf(results) ==
  Kept(results, {results[i] : i \in {j \in DOMAIN results : results[j].kind # "no_run"}})

Data(e) ==
  [suite       |-> exec[e].cases,
   runs        |-> RunsOf(InSuiteOrder(e)),
   evaluations |-> InSuiteOrder(e),
   summary     |-> <<exec[e].bound, exec[e].inspected>>]
Artifact(e, name) ==
  [by |-> e, data |-> IF name \in {"suite", "runs", "evaluations", "summary"}
                      THEN Data(e)[name] ELSE <<>>]

Put(r, e, name) ==
  [dirs EXCEPT ![r].files =
     [f \in DOMAIN @ \cup {name} |->
        IF f = name THEN Artifact(e, name) ELSE @[f]]]

(* Each artifact is put in place by a rename, in this order; an error      *)
(* leaves those already written.                                           *)
WriteArtifact(e) ==
  LET k == exec[e].written + 1
  IN /\ exec[e].pc = "emitted"
     /\ k <= Len(ArtifactOrder)
     /\ dirs' = Put(exec[e].cmd.run, e, ArtifactOrder[k])
     /\ Go(e, [written |-> k,
               pc |-> IF k = Len(ArtifactOrder) THEN "recording" ELSE "emitted"])
     /\ UNCHANGED <<Outside, manifests, index>>

(* _persist_execution: a store that fails is a warning. *)
Record(e) ==
  /\ exec[e].pc = "recording"
  /\ \/ index' = Append(index, exec[e].cmd.run)
     \/ UNCHANGED index
  /\ IF exec[e].cmd.kind = "verify" THEN At(e, "comparing") ELSE End(e, "done")
  /\ UNCHANGED <<Outside, dirs, manifests>>

-----------------------------------------------------------------------------
(* shrink_suite.  The search of ShrinkSearch either ends with a smaller    *)
(* case or, when nothing shrinkable fails, refuses.                        *)
PrepareShrink(e) ==
  /\ exec[e].pc = "inspected"
  /\ exec[e].cmd.kind = "shrink"
  /\ IF SpecSeen(e) = exec[e].manifest.spec /\ tree = exec[e].bound
     THEN At(e, "searching") ELSE End(e, "refused")
  /\ UNCHANGED <<Outside, Disk>>

Search(e) ==
  LET m == exec[e].manifest
  IN /\ exec[e].pc = "searching"
     /\ \/ \E i \in DOMAIN m.cases :
             /\ m.cases[i] \in Clean[m.spec]
             /\ Go(e, [pc |-> "searched", cases |-> <<Smaller[m.cases[i]]>>])
        \/ End(e, "refused")
     /\ UNCHANGED <<Outside, Disk>>

VerifyAfterSearch(e) == Verify(e, "searched", "minimized")

(* The minimized manifest keeps the bindings of the one it came from; its  *)
(* file is replaced without a reservation.  Then it is replayed from disk. *)
WriteMinimized(e) ==
  LET c == exec[e].cmd
      m == exec[e].manifest
  IN /\ exec[e].pc = "minimized"
     /\ IF exec[e].cases[1] \in Unsafe
        THEN End(e, "refused") /\ UNCHANGED manifests
        ELSE /\ manifests' = [manifests EXCEPT ![c.run] =
                   Manifest(e, m.source, m.spec, exec[e].cases)]
             /\ Go(e, [pc |-> "loading",
                       cmd |-> [c EXCEPT !.kind = "verify",
                                         !.run = VerifyId[c.run],
                                         !.from = c.run]])
     /\ UNCHANGED <<Outside, dirs, index>>

(* The verification replay must be one case that fails as the original. *)
Compare(e) ==
  /\ exec[e].pc = "comparing"
  /\ \/ /\ Len(exec[e].cases) = 1
        /\ exec[e].indexed[1].kind = "run"
        /\ End(e, "done")
     \/ End(e, "unreproduced")
  /\ UNCHANGED <<Outside, Disk>>

-----------------------------------------------------------------------------
(* report: the loader of a stored run. *)
Complete(r) == dirs[r] # None /\ Required \subseteq DOMAIN dirs[r].files

(* resolve_stored_run_id: the run asked for, else the last one recorded,   *)
(* else the largest name with every required artifact.                     *)
Resolve(e) ==
  LET complete == {r \in RunId : Complete(r)}
  IN /\ exec[e].pc = "resolving"
     /\ \/ /\ exec[e].cmd.run # None
           /\ At(e, "locating")
        \/ /\ exec[e].cmd.run = None
           /\ index # <<>>
           /\ Go(e, [pc |-> "locating", cmd |->
                       [exec[e].cmd EXCEPT !.run = index[Len(index)]]])
        \/ /\ exec[e].cmd.run = None
           /\ index = <<>>
           /\ IF complete = {}
              THEN End(e, "refused")
              ELSE Go(e, [pc |-> "locating", cmd |->
                     [exec[e].cmd EXCEPT !.run =
                        CHOOSE r \in complete : \A q \in complete : q <= r]])
     /\ UNCHANGED <<Outside, Disk>>

Locate(e) ==
  /\ exec[e].pc = "locating"
  /\ IF Complete(exec[e].cmd.run) THEN At(e, "reading") ELSE End(e, "refused")
  /\ UNCHANGED <<Outside, Disk>>

\* The suite is read first; author remembers who wrote it.
ReadSuite(e) ==
  LET file == dirs[exec[e].cmd.run].files["suite"]
  IN /\ exec[e].pc = "reading"
     /\ Go(e, [pc |-> "validating", cases |-> file.data, author |-> file.by])
     /\ UNCHANGED <<Outside, Disk>>

CasesOf(results) == {results[i].case : i \in DOMAIN results}

(* _validate_execution_bindings: one evaluation for each case of the       *)
(* suite, at most one run for each, no run outside it, and an evaluation   *)
(* that is not an infrastructure error has its run.                        *)
Bindable(suite, evaluations, runs) ==
  /\ suite # <<>>
  /\ \A i, j \in DOMAIN suite : suite[i] = suite[j] => i = j
  /\ Len(evaluations) = Len(suite)
  /\ CasesOf(evaluations) = {suite[i] : i \in DOMAIN suite}
  /\ CasesOf(runs) \subseteq CasesOf(evaluations)
  /\ Cardinality(CasesOf(runs)) = Len(runs)
  /\ \A i \in DOMAIN evaluations :
       evaluations[i].kind = "run" =>
         \E j \in DOMAIN runs : runs[j] = evaluations[i]

Validate(e) ==
  LET files == dirs[exec[e].cmd.run].files
  IN /\ exec[e].pc = "validating"
     /\ IF Bindable(exec[e].cases, files["evaluations"].data, files["runs"].data)
        THEN At(e, "rendering") ELSE End(e, "invalid")
     /\ UNCHANGED <<Outside, Disk>>

WriteReport(e) ==
  /\ exec[e].pc = "rendering"
  /\ dirs' = Put(exec[e].cmd.run, e, "report")
  /\ End(e, "done")
  /\ UNCHANGED <<Outside, manifests, index>>

-----------------------------------------------------------------------------
(* A command is killed; its workers write nothing. *)
Crash(e) ==
  /\ e \in Active
  /\ crashes < MaxCrashes
  /\ crashes' = crashes + 1
  /\ End(e, "crashed")
  /\ UNCHANGED <<tree, edits, Disk>>

Prepare(e) == PrepareTest(e) \/ PrepareReplay(e) \/ PrepareShrink(e)
Step(e) ==
  \/ Load(e) \/ Capture(e) \/ VerifyBeforeInspection(e) \/ Inspect(e)
  \/ Prepare(e) \/ VerifyBeforeWorkers(e) \/ Reserve(e)
  \/ StartWorker(e) \/ WorkerReturns(e) \/ Collect(e) \/ Unwind(e)
  \/ VerifyAfterWorkers(e) \/ EmitManifest(e) \/ WriteArtifact(e) \/ Record(e)
  \/ Search(e) \/ VerifyAfterSearch(e) \/ WriteMinimized(e) \/ Compare(e)
  \/ Resolve(e) \/ Locate(e) \/ ReadSuite(e) \/ Validate(e) \/ WriteReport(e)

Next ==
  \/ Edit
  \/ \E e \in Execution : Begin(e) \/ Step(e) \/ CollectRaises(e) \/ Crash(e)

SuiteSpec == Init /\ [][Next]_vars

-----------------------------------------------------------------------------
(* A run whose required artifacts are all there was written by the one     *)
(* execution that reserved it: its evaluations are those of its suite, in  *)
(* suite order whatever order the workers ended in, its runs are the       *)
(* canonical runs among them, and its replay manifest has the same cases   *)
(* and was bound to the source of the run.                                 *)
PublishedRunIsWhole ==
  \A r \in RunId : Complete(r) =>
    LET files == dirs[r].files
        results == files["evaluations"].data
    IN /\ \A f \in DOMAIN files \ {"report"} : files[f].by = dirs[r].owner
       /\ [i \in DOMAIN results |-> results[i].case] = files["suite"].data
       /\ files["runs"].data = RunsOf(results)
       /\ manifests[r].cases = files["suite"].data
       /\ manifests[r].source = files["summary"].data[1]

(* The evidence of a published run is of the source it was bound to: if    *)
(* the inspection or a worker saw another one, the source was edited and   *)
(* edited back between two checks, which the endpoint checks cannot see.   *)
OnlyRevertedEditsUnseen ==
  \A r \in RunId : Complete(r) =>
    LET files == dirs[r].files
        bound == files["summary"].data[1]
        seen == {files["summary"].data[2]} \cup
                {files["evaluations"].data[i].source :
                   i \in DOMAIN files["evaluations"].data}
    IN seen # {bound} => exec[dirs[r].owner].span >= 2

(* An execution that was refused, before or after its workers, holds no    *)
(* run id, and what the store lists is a complete run, each once.          *)
OnlyCompleteRunsAreKept ==
  /\ \A e \in Execution : exec[e].pc = "refused" =>
       \A r \in RunId : dirs[r] # None => dirs[r].owner # e
  /\ \A k \in DOMAIN index : Complete(index[k])
  /\ \A j, k \in DOMAIN index : index[j] = index[k] => j = k

(* Whatever a test wrote, the loader's binding checks accept, and a report *)
(* is rendered from the artifacts of one execution, also while other       *)
(* commands run or died.                                                   *)
ReportsAreOfOneRun ==
  \A e \in Execution :
    /\ exec[e].pc # "invalid"
    /\ exec[e].pc = "rendering" =>
         \A f \in Required : dirs[exec[e].cmd.run].files[f].by = exec[e].author

(* A published run is never removed and its evidence never changes. *)
PublishedRunsStay ==
  [][\A r \in RunId : Complete(r) =>
       /\ Complete(r)'
       /\ \A f \in Required : dirs'[r].files[f] = dirs[r].files[f]]_vars
=============================================================================
