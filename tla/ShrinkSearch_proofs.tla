------------------------- MODULE ShrinkSearch_proofs -------------------------
(***************************************************************************)
(* The shrinker's promises for every scenario, budget and outcome of the   *)
(* candidates' executions: what it publishes was reproduced, and is        *)
(* locally minimal when it says so.                                        *)
(***************************************************************************)
EXTENDS ShrinkSearch, FiniteSetTheorems, TLAPS

-----------------------------------------------------------------------------
(* Scenarios and what deleting items makes of them.                        *)

(* A scenario with fewer items of one dimension is one.                    *)
LEMMA KeepingFields ==
  ASSUME NEW s \in Scenarios, NEW d \in Dimensions, NEW items \in SUBSET Items[d]
  PROVE  /\ Keeping(s, d, items) \in Scenarios
         /\ Keeping(s, d, items)[d] = items \cup Protected[d]
         /\ \A e \in Dimensions : e # d => Keeping(s, d, items)[e] = s[e]
<1>1. /\ s \in [Dimensions -> SUBSET UNION {Items[e] : e \in Dimensions}]
      /\ \A e \in Dimensions : s[e] \subseteq Items[e]
  BY DEF Scenarios
<1>2. items \cup Protected[d] \subseteq Items[d]
  BY ShrinkAssumption
<1>3. /\ Keeping(s, d, items)[d] = items \cup Protected[d]
      /\ \A e \in Dimensions : e # d => Keeping(s, d, items)[e] = s[e]
  BY <1>1 DEF Keeping
<1>4. Keeping(s, d, items) \in [Dimensions -> SUBSET UNION {Items[e] : e \in Dimensions}]
  BY <1>1, <1>2 DEF Keeping
<1>5. \A e \in Dimensions : Keeping(s, d, items)[e] \subseteq Items[e]
  BY <1>1, <1>2, <1>3
<1> QED
  BY <1>3, <1>4, <1>5 DEF Scenarios

(* Keeping every removable item changes nothing.                           *)
LEMMA KeepingAll ==
  ASSUME NEW s \in Scenarios, NEW d \in Dimensions, Protected[d] \subseteq s[d]
  PROVE  Keeping(s, d, Removable(s, d)) = s
<1>1. s \in [Dimensions -> SUBSET UNION {Items[e] : e \in Dimensions}]
  BY DEF Scenarios
<1>2. (s[d] \ Protected[d]) \cup Protected[d] = s[d]
  OBVIOUS
<1>3. [s EXCEPT ![d] = s[d]] = s
  BY <1>1
<1> QED
  BY <1>2, <1>3 DEF Keeping, Removable

(* The dimension in hand, and the trial as items of it.                    *)
LEMMA TrialItems ==
  ASSUME TrialInv, at = "delete"
  PROVE  /\ Dims[dim] \in Dimensions
         /\ trial \subseteq Items[Dims[dim]] /\ trial \cap Protected[Dims[dim]] = {}
         /\ InHand = Keeping(kept, Dims[dim], trial) /\ InHand \in Scenarios
<1>1. Len(Dims) \in Nat /\ dim \in 1..Len(Dims)
  BY ShrinkAssumption DEF TrialInv
<1>2. Dims[dim] \in Dimensions
  BY <1>1 DEF Dimensions
<1>3. kept[Dims[dim]] \subseteq Items[Dims[dim]]
  BY <1>2 DEF TrialInv, Scenarios
<1>4. trial \subseteq Items[Dims[dim]] /\ trial \cap Protected[Dims[dim]] = {}
  BY <1>3 DEF TrialInv, Removable
<1> QED
  BY <1>2, <1>4, KeepingFields DEF InHand, TrialInv

(* The scenario in hand has the trial's items in the dimension in hand.    *)
LEMMA HandFields ==
  ASSUME TrialInv, at = "delete"
  PROVE  /\ InHand[Dims[dim]] = trial \cup Protected[Dims[dim]]
         /\ \A e \in Dimensions : e # Dims[dim] => InHand[e] = kept[e]
BY TrialItems, KeepingFields DEF TrialInv

(* A candidate is not the scenario it was made from.                       *)
LEMMA CandidateDiffers ==
  ASSUME TrialInv, at = "delete", NEW i \in trial
  PROVE  /\ Candidate(i) # InHand /\ Candidate(i) # kept
         /\ Candidate(i) \in Scenarios
         /\ Candidate(i)[Dims[dim]] = (trial \ {i}) \cup Protected[Dims[dim]]
         /\ \A e \in Dimensions : e # Dims[dim] => Candidate(i)[e] = kept[e]
<1>1. /\ Candidate(i) \in Scenarios
      /\ Candidate(i)[Dims[dim]] = (trial \ {i}) \cup Protected[Dims[dim]]
      /\ \A e \in Dimensions : e # Dims[dim] => Candidate(i)[e] = kept[e]
  BY TrialItems, KeepingFields DEF Candidate, TrialInv
<1>2. i \notin Candidate(i)[Dims[dim]]
  BY <1>1, TrialItems
<1>3. i \in InHand[Dims[dim]] /\ i \in kept[Dims[dim]]
  BY HandFields DEF TrialInv, Removable
<1> QED
  BY <1>1, <1>2, <1>3

(* A deletion the guard allows keeps as many items as must stay.           *)
LEMMA EnoughStay ==
  ASSUME TrialInv, at = "delete", NEW i \in trial,
         Cardinality(trial) > MinKeep[Dims[dim]]
  PROVE  Cardinality(Candidate(i)[Dims[dim]]) >= MinKeep[Dims[dim]]
<1>1. /\ IsFiniteSet(Items[Dims[dim]]) /\ Protected[Dims[dim]] \subseteq Items[Dims[dim]]
      /\ MinKeep[Dims[dim]] \in Nat
  BY TrialItems, ShrinkAssumption
<1>2. IsFiniteSet(trial) /\ Cardinality(trial) \in Nat
  BY <1>1, TrialItems, FS_Subset, FS_CardinalityType
<1>3. Cardinality(trial \ {i}) = Cardinality(trial) - 1
  BY <1>2, FS_RemoveElement
<1>4. IsFiniteSet(Candidate(i)[Dims[dim]])
  <2>1. Candidate(i)[Dims[dim]] \in SUBSET Items[Dims[dim]]
    BY <1>1, TrialItems, CandidateDiffers
  <2> QED
    BY <1>1, <2>1, FS_Subset
<1>5. /\ Cardinality(trial \ {i}) <= Cardinality(Candidate(i)[Dims[dim]])
      /\ Cardinality(Candidate(i)[Dims[dim]]) \in Nat
  <2>1. trial \ {i} \in SUBSET Candidate(i)[Dims[dim]]
    BY CandidateDiffers
  <2> QED
    BY <1>4, <2>1, FS_Subset, FS_CardinalityType
<1> QED
  BY <1>1, <1>2, <1>3, <1>5

-----------------------------------------------------------------------------
(* The trial.                                                              *)

LEMMA TrialInvNext ==
  ASSUME TrialInv, Next
  PROVE  TrialInv'
<1>0. Len(Dims) \in Nat
  BY ShrinkAssumption
<1>1. CASE SkipDimension \/ EndSweep \/ RoundsExhausted
  BY <1>0, <1>1 DEF SkipDimension, EndSweep, RoundsExhausted, Choosing, sweepVars, TrialInv
<1>2. CASE BeginDimension
  BY <1>0, <1>2 DEF BeginDimension, Choosing, TrialInv, Removable
<1>3. CASE SkipCandidate \/ ExecuteRefused
  BY <1>3 DEF SkipCandidate, ExecuteRefused, Deleting, Refuse, TrialInv
<1>4. CASE ExecuteAccepted
  BY <1>4 DEF ExecuteAccepted, Deleting, Accept, TrialInv
<1>5. CASE CandidatesExhausted \/ EndDimension
  <2>1. at = "delete" /\ kept' = InHand /\ at' # "delete"
        /\ dim' \in {dim, dim + 1}
    BY <1>5 DEF CandidatesExhausted, EndDimension, Deleting
  <2>2. \A d \in Dimensions : Protected[d] \subseteq InHand[d]
    BY <2>1, HandFields DEF TrialInv
  <2>3. dim \in 1..Len(Dims)
    BY <1>0, <2>1 DEF TrialInv
  <2> QED
    BY <1>0, <2>1, <2>2, <2>3, TrialItems DEF TrialInv
<1>6. CASE WriteManifest \/ NotWritten \/ Replay
  BY <1>6 DEF WriteManifest, NotWritten, Replay, sweepVars, TrialInv
<1> QED
  BY <1>1, <1>2, <1>3, <1>4, <1>5, <1>6 DEF Next, Search

-----------------------------------------------------------------------------
(* The scenario in hand.                                                   *)

(* Every step but an accepted deletion.                                    *)
KeepsHand ==
  \/ SkipDimension \/ RoundsExhausted \/ BeginDimension \/ EndSweep
  \/ SkipCandidate \/ CandidatesExhausted \/ ExecuteRefused \/ EndDimension
  \/ WriteManifest \/ NotWritten \/ Replay

(* Only an accepted deletion changes it.                                   *)
LEMMA HandStable ==
  ASSUME TrialInv, KeepsHand
  PROVE  InHand' = InHand /\ witnessed' = witnessed
<1>1. CASE SkipDimension \/ EndSweep \/ RoundsExhausted
  BY <1>1 DEF SkipDimension, EndSweep, RoundsExhausted, Choosing, sweepVars, InHand
<1>2. CASE BeginDimension
  <2>1. Dims[dim] \in Dimensions
    BY <1>2, ShrinkAssumption DEF BeginDimension, Dimensions, TrialInv
  <2>2. Keeping(kept, Dims[dim], Removable(kept, Dims[dim])) = kept
    BY <2>1, KeepingAll DEF TrialInv
  <2> QED
    BY <1>2, <2>2 DEF BeginDimension, Choosing, InHand, Keeping
<1>3. CASE SkipCandidate \/ ExecuteRefused
  BY <1>3 DEF SkipCandidate, ExecuteRefused, Deleting, Refuse, InHand, Keeping
<1>4. CASE CandidatesExhausted \/ EndDimension
  BY <1>4 DEF CandidatesExhausted, EndDimension, Deleting, InHand
<1>5. CASE WriteManifest \/ NotWritten \/ Replay
  BY <1>5 DEF WriteManifest, NotWritten, Replay, sweepVars, InHand
<1> QED
  BY <1>1, <1>2, <1>3, <1>4, <1>5 DEF KeepsHand

LEMMA HandInvNext ==
  ASSUME TrialInv, HandInv, Next
  PROVE  HandInv'
<1>1. CASE ExecuteAccepted
  <2>1. PICK i \in trial : Deleting(i) /\ Accept(i)
    BY <1>1 DEF ExecuteAccepted
  <2>2. at = "delete" /\ Cardinality(trial) > MinKeep[Dims[dim]]
    BY <2>1 DEF Deleting
  <2>3. /\ InHand' = Candidate(i) /\ witnessed' = Candidate(i)
        /\ refused' = {}
    BY <2>1, <2>2 DEF Deleting, Accept, InHand, Candidate, Keeping
  <2>4. Reduction(Candidate(i))
    <3>1. Candidate(i) \in Scenarios
      BY <2>2, CandidateDiffers
    <3>2. ASSUME NEW d \in Dimensions, d # Dims[dim]
          PROVE  /\ Protected[d] \subseteq Candidate(i)[d]
                 /\ \/ Candidate(i)[d] = Items[d]
                    \/ Cardinality(Candidate(i)[d]) >= MinKeep[d]
      BY <2>2, <3>2, CandidateDiffers, HandFields DEF HandInv, Reduction
    <3>3. /\ Protected[Dims[dim]] \subseteq Candidate(i)[Dims[dim]]
          /\ Cardinality(Candidate(i)[Dims[dim]]) >= MinKeep[Dims[dim]]
      BY <2>2, CandidateDiffers, EnoughStay
    <3> QED
      BY <3>1, <3>2, <3>3 DEF Reduction
  <2> QED
    BY <2>3, <2>4 DEF HandInv, InHandReproduced, Reduction
<1>2. CASE SkipCandidate \/ ExecuteRefused
  <2>1. PICK i \in trial : Deleting(i) /\ Refuse(i)
    BY <1>2 DEF SkipCandidate, ExecuteRefused
  <2>2. refused' = refused \cup {Candidate(i)} /\ at = "delete" /\ at' = at
    BY <2>1 DEF Deleting, Refuse
  <2>3. InHand' = InHand /\ witnessed' = witnessed
    BY <1>2, HandStable DEF KeepsHand
  <2>4. InHand' \notin refused'
    BY <2>2, <2>3, CandidateDiffers DEF HandInv
  <2> QED
    BY <2>3, <2>4 DEF HandInv, InHandReproduced, Reduction
<1>3. CASE Replay
  <2>1. at' = "done" /\ InHand' = InHand /\ witnessed' = witnessed
    BY <1>3, HandStable DEF Replay, KeepsHand
  <2> QED
    BY <2>1 DEF HandInv, InHandReproduced, Reduction
<1>4. CASE \/ SkipDimension \/ EndSweep \/ RoundsExhausted \/ BeginDimension
           \/ CandidatesExhausted \/ EndDimension \/ WriteManifest \/ NotWritten
  <2>1. refused' = refused /\ (at' # "done" => at # "done")
    BY <1>4 DEF SkipDimension, EndSweep, RoundsExhausted, BeginDimension,
       CandidatesExhausted, EndDimension, WriteManifest, NotWritten, Choosing, Deleting
  <2>2. InHand' = InHand /\ witnessed' = witnessed
    BY <1>4, HandStable DEF KeepsHand
  <2> QED
    BY <2>1, <2>2 DEF HandInv, InHandReproduced, Reduction
<1> QED
  BY <1>1, <1>2, <1>3, <1>4 DEF Next, Search

-----------------------------------------------------------------------------
(* What a sweep has covered.                                               *)

(* A covered dimension stays covered while the scenario does.              *)
LEMMA CoveredStays ==
  ASSUME kept' = kept, refused \subseteq refused', NEW d \in Dimensions, Covered(kept, d)
  PROVE  Covered(kept, d)'
BY DEF Covered, Reducible, Removable, Keeping

(* A dimension without more removable items than must stay is covered.     *)
LEMMA IrreducibleCovered ==
  ASSUME NEW s, NEW d, ~Reducible(s, d)
  PROVE  Covered(s, d)
BY DEF Covered

(* A pass that tried everything and deleted nothing covers its dimension.  *)
LEMMA PassCovers ==
  ASSUME TrialInv, at = "delete", InHand = kept,
         trial \subseteq tested \/ Cardinality(trial) <= MinKeep[Dims[dim]],
         \A i \in tested : Candidate(i) \in refused
  PROVE  Covered(kept, Dims[dim])
<1>1. trial = Removable(kept, Dims[dim])
  BY HandFields, TrialItems DEF Removable
<1>2. Cardinality(trial) \in Nat /\ MinKeep[Dims[dim]] \in Nat
  <2>1. IsFiniteSet(Items[Dims[dim]]) /\ MinKeep[Dims[dim]] \in Nat
    BY TrialItems, ShrinkAssumption
  <2> QED
    BY <2>1, TrialItems, FS_Subset, FS_CardinalityType
<1>3. Reducible(kept, Dims[dim]) => trial \subseteq tested
  BY <1>1, <1>2 DEF Reducible
<1> QED
  BY <1>1, <1>3 DEF Covered, Candidate

LEMMA SweepInvNext ==
  ASSUME TrialInv, SweepInv, Next
  PROVE  SweepInv'
<1>0. Len(Dims) \in Nat /\ dim \in 1..(Len(Dims) + 1)
      /\ \A j \in 1..Len(Dims) : Dims[j] \in Dimensions
  BY ShrinkAssumption DEF Dimensions, TrialInv
<1>1. CASE SkipDimension
  <2>1. /\ at = "choose" /\ at' = "choose" /\ kept' = kept /\ refused' = refused
        /\ progress' = progress /\ dim' = dim + 1 /\ dim <= Len(Dims)
        /\ ~Reducible(kept, Dims[dim]) /\ InHand = kept
    BY <1>1 DEF SkipDimension, Choosing, InHand
  <2>2. Covered(kept, Dims[dim])
    BY <2>1, IrreducibleCovered
  <2>3. ASSUME ~progress, NEW j \in 1..dim PROVE Covered(kept, Dims[j])'
    <3>1. Covered(kept, Dims[j])
      BY <1>0, <2>1, <2>2, <2>3 DEF SweepInv
    <3> QED
      BY <1>0, <2>1, <3>1 DEF Covered, Reducible, Removable, Keeping
  <2> QED
    BY <1>0, <2>1, <2>3 DEF SweepInv
<1>2. CASE RoundsExhausted \/ CandidatesExhausted
  BY <1>2 DEF RoundsExhausted, CandidatesExhausted, Deleting, SweepInv
<1>3. CASE BeginDimension
  <2>1. /\ at = "choose" /\ at' = "delete" /\ kept' = kept /\ refused' = refused
        /\ progress' = progress /\ dim' = dim /\ tested' = {} /\ InHand = kept
    BY <1>3 DEF BeginDimension, Choosing, InHand
  <2>2. ~progress => \A j \in 1..(dim - 1) : Covered(kept, Dims[j])'
    BY <2>1 DEF SweepInv, Covered, Reducible, Removable, Keeping
  <2> QED
    BY <2>1, <2>2 DEF SweepInv
<1>4. CASE EndSweep
  <2>1. /\ at = "choose" /\ kept' = kept /\ refused' = refused /\ InHand = kept
        /\ dim > Len(Dims)
    BY <1>4 DEF EndSweep, Choosing, InHand
  <2>2. CASE progress
    BY <1>4, <2>1, <2>2 DEF EndSweep, SweepInv
  <2>3. CASE ~progress
    <3>1. at' = "write"
      BY <1>4, <2>3 DEF EndSweep
    <3>2. ASSUME NEW d \in Dimensions PROVE Covered(kept, d)
      <4>1. PICK j \in 1..Len(Dims) : d = Dims[j]
        BY DEF Dimensions
      <4> QED
        BY <1>0, <2>1, <2>3, <4>1 DEF SweepInv
    <3>3. \A d \in Dimensions : Covered(kept, d)'
      BY <2>1, <3>2, CoveredStays
    <3> QED
      BY <3>1, <3>3 DEF SweepInv
  <2> QED
    BY <2>2, <2>3
<1>5. CASE SkipCandidate \/ ExecuteRefused
  <2>1. PICK i \in trial : Deleting(i) /\ Refuse(i)
    BY <1>5 DEF SkipCandidate, ExecuteRefused
  <2>2. /\ at = "delete" /\ at' = "delete" /\ kept' = kept /\ progress' = progress
        /\ dim' = dim /\ trial' = trial /\ tested' = tested \cup {i}
        /\ refused' = refused \cup {Candidate(i)}
    BY <2>1 DEF Deleting, Refuse
  <2>3. InHand' = InHand
    BY <1>5, HandStable DEF KeepsHand
  <2>4. ASSUME ~progress, InHand = kept, NEW j \in 1..(dim - 1)
        PROVE  Covered(kept, Dims[j])'
    BY <2>2, <2>4 DEF SweepInv, Covered, Reducible, Removable, Keeping
  <2>5. ASSUME NEW j \in tested' PROVE Candidate(j)' \in refused'
    BY <2>2 DEF SweepInv, Candidate, Keeping
  <2> QED
    BY <2>2, <2>3, <2>4, <2>5 DEF SweepInv
<1>6. CASE ExecuteAccepted
  <2>1. PICK i \in trial : Deleting(i) /\ Accept(i)
    BY <1>6 DEF ExecuteAccepted
  <2>2. /\ at = "delete" /\ at' = "delete" /\ kept' = kept /\ tested' = {}
        /\ InHand' = Candidate(i)
    BY <2>1 DEF Deleting, Accept, InHand, Candidate, Keeping
  <2>3. InHand' # kept'
    BY <2>2, CandidateDiffers
  <2> QED
    BY <2>2, <2>3 DEF SweepInv
<1>7. CASE EndDimension
  <2>1. /\ at = "delete" /\ at' = "choose" /\ kept' = InHand /\ refused' = refused
        /\ dim' = dim + 1 /\ (~progress' => ~progress /\ InHand = kept)
    BY <1>7 DEF EndDimension
  <2>2. ASSUME ~progress', NEW j \in 1..dim PROVE Covered(kept, Dims[j])'
    <3>1. Covered(kept, Dims[dim])
      BY <1>7, <2>1, <2>2, PassCovers DEF EndDimension, SweepInv
    <3>2. Covered(kept, Dims[j])
      BY <1>0, <2>1, <2>2, <3>1 DEF SweepInv
    <3> QED
      BY <2>1, <2>2, <3>2 DEF Covered, Reducible, Removable, Keeping
  <2> QED
    BY <1>0, <2>1, <2>2 DEF SweepInv
<1>8. CASE WriteManifest \/ NotWritten \/ Replay
  <2>1. /\ at' = "done" \/ (at = "write" /\ at' = "replay" /\ refused' = refused)
        /\ kept' = kept /\ exhausted' = exhausted
    BY <1>8 DEF WriteManifest, NotWritten, Replay, sweepVars, costVars
  <2>2. at' = "replay" /\ ~exhausted => \A d \in Dimensions : Covered(kept, d)'
    BY <2>1, CoveredStays DEF SweepInv
  <2> QED
    BY <2>1, <2>2 DEF SweepInv
<1> QED
  BY <1>1, <1>2, <1>3, <1>4, <1>5, <1>6, <1>7, <1>8 DEF Next, Search

-----------------------------------------------------------------------------
(* What is written and published.                                          *)

LEMMA ManifestInvNext ==
  ASSUME ManifestInv, Next
  PROVE  ManifestInv'
<1>1. CASE Search
  <2>1. at \notin {"replay", "done"} /\ at' # "replay" /\ result' = result
    BY <1>1 DEF Search, SkipDimension, EndSweep, RoundsExhausted, BeginDimension,
       SkipCandidate, ExecuteRefused, ExecuteAccepted, Refuse, Accept,
       CandidatesExhausted, EndDimension, Choosing, Deleting, outVars
  <2> QED
    BY <2>1 DEF ManifestInv
<1>2. CASE WriteManifest \/ NotWritten \/ Replay
  BY <1>2 DEF WriteManifest, NotWritten, Replay, ManifestInv, sweepVars
<1> QED
  BY <1>1, <1>2 DEF Next

(* A published result is final: no step leaves it.                         *)
LEMMA ResultIsLast ==
  ASSUME ManifestInv, Next
  PROVE  /\ result = "none"
         /\ result' \in {"none", "failed"} \/ Replay
<1>1. at # "done"
  BY DEF Next, Search, SkipDimension, EndSweep, RoundsExhausted, BeginDimension,
     SkipCandidate, ExecuteRefused, ExecuteAccepted, CandidatesExhausted, EndDimension,
     Choosing, Deleting, WriteManifest, NotWritten, Replay
<1>2. result = "none"
  BY <1>1 DEF ManifestInv
<1>3. CASE Search
  BY <1>2, <1>3 DEF Search, SkipDimension, EndSweep, RoundsExhausted, BeginDimension,
     SkipCandidate, ExecuteRefused, ExecuteAccepted, CandidatesExhausted, EndDimension,
     Choosing, Deleting, outVars
<1>4. CASE WriteManifest \/ NotWritten \/ Replay
  BY <1>2, <1>4 DEF WriteManifest, NotWritten
<1> QED
  BY <1>2, <1>3, <1>4 DEF Next

LEMMA LocallyMinimalNext ==
  ASSUME ManifestInv, SweepInv, Next
  PROVE  LocallyMinimal'
<1>1. CASE Replay
  <2>1. SUFFICES ASSUME result' = "locally_minimal"
                 PROVE  LocallyMinimal'
    BY DEF LocallyMinimal
  <2>2. /\ ~exhausted /\ at = "replay" /\ refused' = refused /\ manifest' = manifest
        /\ manifest = kept
    BY <1>1, <2>1 DEF Replay, ManifestInv
  <2>3. \A d \in Dimensions : Covered(kept, d)
    BY <2>2 DEF SweepInv
  <2> QED
    BY <2>2, <2>3 DEF LocallyMinimal, Covered, Reducible, Removable, Keeping
<1>2. CASE ~Replay
  BY <1>2, ResultIsLast DEF LocallyMinimal
<1> QED
  BY <1>1, <1>2

(* The smaller of two numbers.                                             *)
LEMMA MinOfTwo ==
  ASSUME NEW a \in Nat, NEW b \in Nat
  PROVE  Min({a, b}) <= a /\ Min({a, b}) <= b /\ Min({a, b}) \in Nat
<1>1. \E x \in {a, b} : \A y \in {a, b} : x <= y
  <2>1. CASE a <= b
    BY <2>1
  <2>2. CASE b <= a
    BY <2>2
  <2> QED
    BY <2>1, <2>2
<1> QED
  BY <1>1 DEF Min

(* A reduction keeps the turns it needs.                                   *)
LEMMA ReductionKeepsEnough ==
  ASSUME NEW s, Reduction(s), NEW d \in Dimensions
  PROVE  /\ Protected[d] \subseteq s[d] /\ s[d] \subseteq Items[d]
         /\ Cardinality(s[d]) >= Min({MinKeep[d], Cardinality(Items[d])})
<1>1. Protected[d] \subseteq s[d] /\ s[d] \subseteq Items[d]
  BY DEF Reduction, Scenarios
<1>2. /\ IsFiniteSet(Items[d]) /\ MinKeep[d] \in Nat
      /\ Cardinality(Items[d]) \in Nat /\ Cardinality(s[d]) \in Nat
  BY <1>1, ShrinkAssumption, FS_Subset, FS_CardinalityType
<1>3. s[d] = Items[d] \/ Cardinality(s[d]) >= MinKeep[d]
  BY DEF Reduction
<1> QED
  BY <1>1, <1>2, <1>3, MinOfTwo

LEMMA PublishedIsReproducedNext ==
  ASSUME ManifestInv, HandInv, Next
  PROVE  PublishedIsReproduced'
<1>1. CASE Replay
  <2>1. SUFFICES ASSUME result' \in {"locally_minimal", "budget_exhausted"}
                 PROVE  PublishedIsReproduced'
    BY DEF PublishedIsReproduced
  <2>2. /\ at = "replay" /\ refused' = refused /\ manifest' = manifest
        /\ witnessed' = witnessed /\ manifest = kept
    BY <1>1, <2>1 DEF Replay, ManifestInv
  <2>3. Reduction(manifest) /\ manifest = witnessed /\ manifest \notin refused
    BY <2>2 DEF HandInv, InHandReproduced, InHand
  <2> QED
    BY <2>2, <2>3, ReductionKeepsEnough DEF PublishedIsReproduced
<1>2. CASE ~Replay
  BY <1>2, ResultIsLast DEF PublishedIsReproduced
<1> QED
  BY <1>1, <1>2

-----------------------------------------------------------------------------
(* The induction.                                                          *)

LEMMA IndInvInit ==
  ASSUME Init
  PROVE  IndInv
<1>1. Len(Dims) \in Nat /\ Items \in Scenarios /\ InHand = Items
  BY ShrinkAssumption DEF Init, InHand
<1>2. \A d \in Dimensions : Protected[d] \subseteq Items[d]
  BY ShrinkAssumption
<1>3. TrialInv
  BY <1>1, <1>2 DEF Init, TrialInv
<1>4. HandInv
  BY <1>1, <1>2 DEF Init, HandInv, InHandReproduced, Reduction
<1>5. SweepInv /\ ManifestInv /\ LocallyMinimal /\ PublishedIsReproduced
  BY DEF Init, SweepInv, ManifestInv, LocallyMinimal, PublishedIsReproduced
<1> QED
  BY <1>3, <1>4, <1>5 DEF IndInv

LEMMA IndInvNext ==
  ASSUME IndInv, [Next]_vars
  PROVE  IndInv'
<1>1. CASE Next
  BY <1>1, TrialInvNext, HandInvNext, SweepInvNext, ManifestInvNext,
     LocallyMinimalNext, PublishedIsReproducedNext DEF IndInv
<1>2. CASE UNCHANGED vars
  BY <1>2 DEF vars, sweepVars, passVars, costVars, outVars, IndInv, TrialInv, HandInv,
     InHand, InHandReproduced, Reduction, SweepInv, Covered, Reducible, Removable,
     Keeping, Candidate, ManifestInv, LocallyMinimal, PublishedIsReproduced
<1> QED
  BY <1>1, <1>2

(* The inductive invariant holds throughout.                               *)
THEOREM Invariance == Spec => []IndInv
<1>1. Init => IndInv
  BY IndInvInit
<1>2. IndInv /\ [Next]_vars => IndInv'
  BY IndInvNext
<1> QED
  BY <1>1, <1>2, PTL DEF Spec

(* No single item can be deleted from a scenario that is published as      *)
(* locally minimal, in any dimension.                                      *)
THEOREM MinimalityCorrect == Spec => []LocallyMinimal
BY Invariance, PTL DEF IndInv

(* The scenario in hand is always one that was executed and failed with    *)
(* the original signature, wherever a budget ends the search.              *)
THEOREM ReproductionCorrect == Spec => []InHandReproduced
BY Invariance, PTL DEF IndInv, HandInv

(* What is published was reproduced from disk, is a reduction of the       *)
(* original, and keeps its failing criteria and the turns it needs.        *)
THEOREM PublicationCorrect == Spec => []PublishedIsReproduced
BY Invariance, PTL DEF IndInv
=============================================================================
