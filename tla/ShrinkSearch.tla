----------------------------- MODULE ShrinkSearch -----------------------------
(***************************************************************************)
(* The counterexample shrinker: reduce a failing scenario, one dimension   *)
(* after the other and one item at a time, while every reduction still     *)
(* fails with the same signature (shrink/search.py), then write the        *)
(* minimized replay manifest and replay it once more                       *)
(* (application.py, shrink_suite).                                         *)
(*                                                                         *)
(* A scenario is, per dimension, the set of original items it keeps.  What *)
(* executing a candidate shows is not assumed to be repeatable: targets    *)
(* call models, and a worker may fail.                                     *)
(***************************************************************************)
EXTENDS Naturals, Sequences, FiniteSetsExt

CONSTANTS
  Dims,           \* REDUCTION_ORDER, a sequence
  Items,          \* the original scenario: dimension -> set of its indices
  Protected,      \* the items whose removal drops a failing criterion
  MinKeep,        \* minimum_keep: dimension -> removable items that stay
  Unrunnable,     \* scenarios that are invalid, fail lint or look secret
  MaxCandidates, MaxRounds

Dimensions == {Dims[k] : k \in 1..Len(Dims)}
Scenarios == {s \in [Dimensions -> SUBSET UNION {Items[d] : d \in Dimensions}] :
                \A d \in Dimensions : s[d] \subseteq Items[d]}

ASSUME ShrinkAssumption ==
  /\ Dims \in Seq(STRING) /\ Items \in Scenarios
  /\ \A j, k \in 1..Len(Dims) : Dims[j] = Dims[k] => j = k
  /\ \A d \in Dimensions :
       IsFiniteSet(Items[d]) /\ Items[d] \subseteq Nat /\ Protected[d] \subseteq Items[d]
  /\ \A d \in Dimensions : MinKeep[d] \in Nat
  /\ Unrunnable \subseteq Scenarios /\ Items \notin Unrunnable
  /\ MaxCandidates \in Nat \ {0} /\ MaxRounds \in Nat \ {0}

VARIABLES
  kept,       \* the scenario the search has in hand between dimensions
  at,         \* "choose" a dimension, "delete" items of it, "write" the
              \* manifest, "replay" it, "done"
  dim,        \* the dimension, as an index of Dims
  trial,      \* the removable items still kept in it
  tested,     \* the items tried since its last accepted deletion
  progress,   \* this sweep has reduced some dimension
  rounds, executions, exhausted,
  manifest,   \* the minimized manifest on disk
  result,     \* the published shrink result
  refused,    \* history: scenarios refused since the last accepted one
  witnessed   \* history: the last scenario seen to fail with the signature

sweepVars == <<kept, dim, progress, rounds>>
passVars == <<trial, tested>>
costVars == <<executions, exhausted>>
outVars == <<manifest, result>>
vars == <<sweepVars, at, passVars, costVars, outVars, refused, witnessed>>

NoManifest == [d \in {} |-> {}]

Init ==
  /\ kept = Items /\ at = "choose" /\ dim = 1
  /\ trial = {} /\ tested = {}
  /\ progress = FALSE /\ rounds = 0 /\ executions = 0 /\ exhausted = FALSE
  /\ manifest = NoManifest /\ result = "none"
  /\ refused = {} /\ witnessed = Items

Removable(s, d) == s[d] \ Protected[d]
Reducible(s, d) == Cardinality(Removable(s, d)) > MinKeep[d]

Keeping(s, d, items) == [s EXCEPT ![d] = items \cup Protected[d]]

(* The scenario as reduced so far.                                         *)
InHand == IF at = "delete" THEN Keeping(kept, Dims[dim], trial) ELSE kept

-----------------------------------------------------------------------------
(* One sweep over the dimensions.                                          *)

Choosing == at = "choose" /\ UNCHANGED <<executions, outVars, refused, witnessed>>

SkipDimension ==
  /\ Choosing
  /\ dim <= Len(Dims) /\ ~Reducible(kept, Dims[dim])
  /\ dim' = dim + 1
  /\ UNCHANGED <<kept, at, passVars, progress, rounds, exhausted>>

RoundsExhausted ==
  /\ Choosing
  /\ dim <= Len(Dims) /\ Reducible(kept, Dims[dim])
  /\ rounds >= MaxRounds
  /\ exhausted' = TRUE /\ at' = "write"
  /\ UNCHANGED <<sweepVars, passVars>>

BeginDimension ==
  /\ Choosing
  /\ dim <= Len(Dims) /\ Reducible(kept, Dims[dim])
  /\ rounds < MaxRounds
  /\ rounds' = rounds + 1 /\ at' = "delete"
  /\ trial' = Removable(kept, Dims[dim]) /\ tested' = {}
  /\ UNCHANGED <<kept, dim, progress, exhausted>>

(* Seeded fault: one sweep, whatever it reduced.                           *)
MutEndSweep ==
  /\ Choosing
  /\ dim > Len(Dims)
  /\ at' = "write"
  /\ UNCHANGED <<kept, dim, progress, passVars, rounds, exhausted>>

(* Seeded fault: progress is not reset for the next sweep.                 *)
MutEndSweepStuck ==
  /\ Choosing
  /\ dim > Len(Dims)
  /\ IF progress THEN dim' = 1 /\ UNCHANGED at ELSE at' = "write" /\ UNCHANGED dim
  /\ UNCHANGED <<kept, progress, passVars, rounds, exhausted>>

(* A sweep that reduced something is followed by another one.              *)
EndSweep ==
  /\ Choosing
  /\ dim > Len(Dims)
  /\ IF progress THEN dim' = 1 /\ progress' = FALSE /\ UNCHANGED at
     ELSE at' = "write" /\ UNCHANGED <<dim, progress>>
  /\ UNCHANGED <<kept, passVars, rounds, exhausted>>

-----------------------------------------------------------------------------
(* _minimize_by_deletion: the next item not tried since the last deletion. *)

Deleting(i) ==
  /\ at = "delete"
  /\ Cardinality(trial) > MinKeep[Dims[dim]]
  /\ trial \ tested # {} /\ i = Min(trial \ tested)
  /\ UNCHANGED <<dim, rounds, outVars>>

Candidate(i) == Keeping(kept, Dims[dim], trial \ {i})

Refuse(i) ==
  /\ tested' = tested \cup {i}
  /\ refused' = refused \cup {Candidate(i)}
  /\ UNCHANGED <<kept, at, trial, progress, exhausted, witnessed>>

(* An accepted deletion restarts the pass.                                 *)
Accept(i) ==
  /\ trial' = trial \ {i} /\ tested' = {}
  /\ refused' = {} /\ witnessed' = Candidate(i)
  /\ UNCHANGED <<kept, at, progress, exhausted>>

SkipCandidate ==
  \E i \in trial :
    /\ Deleting(i) /\ Candidate(i) \in Unrunnable
    /\ Refuse(i) /\ UNCHANGED executions

CandidatesExhausted ==
  \E i \in trial :
    /\ Deleting(i) /\ Candidate(i) \notin Unrunnable
    /\ executions >= MaxCandidates
    /\ exhausted' = TRUE /\ at' = "write" /\ kept' = InHand
    /\ UNCHANGED <<passVars, progress, executions, refused, witnessed>>

(* The candidate passes, is inconclusive, fails otherwise or not at all.   *)
ExecuteRefused ==
  \E i \in trial :
    /\ Deleting(i) /\ Candidate(i) \notin Unrunnable
    /\ executions < MaxCandidates /\ executions' = executions + 1
    /\ Refuse(i)

(* It fails with the signature.                                            *)
ExecuteAccepted ==
  \E i \in trial :
    /\ Deleting(i) /\ Candidate(i) \notin Unrunnable
    /\ executions < MaxCandidates /\ executions' = executions + 1
    /\ Accept(i)

EndDimension ==
  /\ at = "delete"
  /\ trial \subseteq tested \/ Cardinality(trial) <= MinKeep[Dims[dim]]
  /\ kept' = InHand
  /\ progress' = (progress \/ InHand # kept)
  /\ dim' = dim + 1 /\ at' = "choose"
  /\ UNCHANGED <<rounds, passVars, costVars, outVars, refused, witnessed>>

-----------------------------------------------------------------------------
(* shrink_suite after the search.                                          *)

WriteManifest ==
  /\ at = "write"
  /\ manifest' = kept /\ at' = "replay"
  /\ UNCHANGED <<sweepVars, passVars, costVars, result, refused, witnessed>>

(* The source was edited during the search, or the scenario looks secret.  *)
NotWritten ==
  /\ at = "write"
  /\ at' = "done" /\ result' = "failed"
  /\ UNCHANGED <<sweepVars, passVars, costVars, manifest, refused, witnessed>>

(* Seeded fault: any failure of the replay counts.                         *)
MutReplay ==
  /\ at = "replay"
  /\ at' = "done"
  /\ result' = IF exhausted THEN "budget_exhausted" ELSE "locally_minimal"
  /\ refused' \in {refused, refused \cup {manifest}}
  /\ UNCHANGED <<sweepVars, passVars, costVars, manifest, witnessed>>

(* Replaying the manifest reproduces the signature, or the command fails.  *)
Replay ==
  /\ at = "replay"
  /\ at' = "done"
  /\ \/ /\ result' = IF exhausted THEN "budget_exhausted" ELSE "locally_minimal"
        /\ UNCHANGED refused
     \/ result' = "failed" /\ refused' = refused \cup {manifest}
  /\ UNCHANGED <<sweepVars, passVars, costVars, manifest, witnessed>>

Search ==
  \/ SkipDimension \/ RoundsExhausted \/ BeginDimension \/ EndSweep
  \/ SkipCandidate \/ CandidatesExhausted \/ ExecuteRefused \/ ExecuteAccepted
  \/ EndDimension

Next == Search \/ WriteManifest \/ NotWritten \/ Replay

Spec == Init /\ [][Next]_vars

(* The command is one thread; every execution has its worker's timeout.    *)
FairSpec == Spec /\ WF_vars(Next)

-----------------------------------------------------------------------------
(* The states of a search.                                                 *)
TypeOK ==
  /\ kept \in Scenarios /\ witnessed \in Scenarios /\ refused \subseteq Scenarios
  /\ at \in {"choose", "delete", "write", "replay", "done"}
  /\ dim \in 1..(Len(Dims) + 1)
  /\ at = "delete" =>
       dim <= Len(Dims) /\ trial \subseteq Removable(kept, Dims[dim]) /\ tested \subseteq trial
  /\ {progress, exhausted} \subseteq BOOLEAN
  /\ rounds \in 0..MaxRounds /\ executions \in 0..MaxCandidates
  /\ manifest \in Scenarios \cup {NoManifest}
  /\ result \in {"none", "failed", "budget_exhausted", "locally_minimal"}

(* A result that claims local minimality is 1-minimal: from the scenario   *)
(* it publishes no single item of any dimension can be deleted, each such  *)
(* candidate having been refused after the last deletion was accepted,     *)
(* also in the dimensions that were reduced before it.                     *)
LocallyMinimal ==
  result = "locally_minimal" =>
    \A d \in Dimensions : Reducible(manifest, d) =>
      \A i \in Removable(manifest, d) :
        Keeping(manifest, d, Removable(manifest, d) \ {i}) \in refused

(* At every point the scenario in hand is one that was executed and failed *)
(* with the original signature: also when a budget ends the search in the  *)
(* middle of a dimension, and between two dimensions.                      *)
InHandReproduced == InHand = witnessed

(* Only a scenario whose replay from disk reproduced the signature is      *)
(* published, it is a reduction of the original that keeps the failing     *)
(* criteria and the turns it needs.                                        *)
PublishedIsReproduced ==
  result \in {"locally_minimal", "budget_exhausted"} =>
    /\ manifest = witnessed /\ manifest \notin refused
    /\ \A d \in Dimensions :
         /\ Protected[d] \subseteq manifest[d] /\ manifest[d] \subseteq Items[d]
         /\ Cardinality(manifest[d]) >= Min({MinKeep[d], Cardinality(Items[d])})

(* Restarting a pass or a sweep after each deletion always ends.           *)
SearchEnds == <>(at = "done")

-----------------------------------------------------------------------------
(* Why the above holds, as an inductive invariant.                         *)

(* The dimension being reduced, and the items it still keeps.              *)
TrialInv ==
  /\ dim \in 1..(Len(Dims) + 1)
  /\ kept \in Scenarios /\ \A d \in Dimensions : Protected[d] \subseteq kept[d]
  /\ at = "delete" => dim <= Len(Dims) /\ trial \subseteq Removable(kept, Dims[dim])

(* What a reduction may not lose.                                          *)
Reduction(s) ==
  /\ s \in Scenarios
  /\ \A d \in Dimensions :
       /\ Protected[d] \subseteq s[d]
       /\ s[d] = Items[d] \/ Cardinality(s[d]) >= MinKeep[d]

(* The scenario in hand is the last one accepted, and no candidate that    *)
(* was refused.                                                            *)
HandInv ==
  /\ Reduction(InHand) /\ InHandReproduced
  /\ at # "done" => InHand \notin refused

(* Every deletion of one item of d from s has been refused.                *)
Covered(s, d) ==
  Reducible(s, d) =>
    \A i \in Removable(s, d) : Keeping(s, d, Removable(s, d) \ {i}) \in refused

(* As long as a sweep has reduced nothing, the dimensions behind it are    *)
(* covered, and in the present one what was tried.                         *)
SweepInv ==
  /\ at \in {"choose", "delete"} /\ ~progress /\ InHand = kept =>
       \A j \in 1..(dim - 1) : Covered(kept, Dims[j])
  /\ at = "delete" => \A i \in tested : Candidate(i) \in refused
  /\ at \in {"write", "replay"} /\ ~exhausted =>
       \A d \in Dimensions : Covered(kept, d)

(* What is replayed is what the search ended with.                         *)
ManifestInv ==
  /\ at = "replay" => manifest = kept
  /\ result # "none" => at = "done"

(* At every step of a search, whatever the executions show: the scenario   *)
(* in hand was reproduced, and what the sweep has passed is covered by     *)
(* refusals that came after the last deletion.                             *)
IndInv ==
  /\ TrialInv
  /\ HandInv
  /\ SweepInv
  /\ ManifestInv
  /\ LocallyMinimal
  /\ PublishedIsReproduced
=============================================================================
