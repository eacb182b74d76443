---------------------------- MODULE SuiteSelection ----------------------------
(***************************************************************************)
(* Which cases of a suite a run executes when it is given a cap:           *)
(* select_units of generate/selection.py, the greedy set cover behind      *)
(* `--select coverage` and behind the freezing of a suite.                 *)
(*                                                                         *)
(* A unit is a candidate case: its id, its fingerprint, the dimensions it  *)
(* covers and whether a declared policy makes it mandatory.  Ids and       *)
(* fingerprints are numbers, for their order.  There are fewer dimensions  *)
(* than MAX_DIMENSIONS, beyond which the code forgets the last ones.       *)
(***************************************************************************)
EXTENDS Naturals, Sequences, SequencesExt

CONSTANTS NoCap,   \* max_cases is not configured
          NoUnit   \* no candidate

ASSUME SelectionAssumption == NoCap \notin Nat

(* A pool select_units takes: the ids are unique.                          *)
PoolOK(pool) ==
  /\ pool \in Seq(ToSet(pool))
  /\ \A u \in ToSet(pool) : /\ u # NoUnit
                            /\ u.id \in Nat /\ u.print \in Nat
                            /\ IsFiniteSet(u.dims) /\ u.mandatory \in BOOLEAN
  /\ \A m, n \in DOMAIN pool : m # n => pool[m].id # pool[n].id

Covered(units) == UNION {u.dims : u \in units}

Before(u, v) == u.id < v.id \/ (u.id = v.id /\ u.print < v.print)
Gain(u, uncovered) == Cardinality(u.dims \cap uncovered)

\* Seeded fault: of equal candidates the first in the pool, whatever its id.
MutBetter(u, best, uncovered) ==
  /\ Gain(u, uncovered) > 0
  /\ best = NoUnit \/ Gain(u, uncovered) > Gain(best, uncovered)

Better(u, best, uncovered) ==
  /\ Gain(u, uncovered) > 0
  /\ \/ best = NoUnit
     \/ Gain(u, uncovered) > Gain(best, uncovered)
     \/ Gain(u, uncovered) = Gain(best, uncovered) /\ Before(u, best)

\* The scan of the remaining candidates for the one that covers most.
BestCandidate(pool, chosen, uncovered) ==
  LET Scanned(u, best) ==
        IF u \notin chosen /\ Better(u, best, uncovered) THEN u ELSE best
      Best[k \in 0..Len(pool)] ==
        IF k = 0 THEN NoUnit ELSE Scanned(pool[k], Best[k - 1])
  IN  Best[Len(pool)]

\* One round of the greedy loop.
Extended(pool, cap, chosen) ==
  LET uncovered == Covered(ToSet(pool)) \ Covered(chosen)
      pick == BestCandidate(pool, chosen, uncovered)
  IN  IF Cardinality(chosen) < cap /\ pick # NoUnit
      THEN chosen \cup {pick} ELSE chosen

Mandatory(pool) == {u \in ToSet(pool) : u.mandatory}

\* The mandatory units, and what as many rounds as there are units add.
Selected(pool, cap) ==
  LET Round[k \in 0..Len(pool)] ==
        IF k = 0 THEN Mandatory(pool) ELSE Extended(pool, cap, Round[k - 1])
  IN  Round[Len(pool)]

CapOf(pool, max) == IF max = NoCap THEN Len(pool) ELSE max
KeepsAll(pool, max) == max # NoCap /\ max >= Len(pool)

Chosen(pool, max) ==
  IF KeepsAll(pool, max) THEN ToSet(pool) ELSE Selected(pool, CapOf(pool, max))

\* A cap below one, an empty pool, more mandatory cases than the cap, or nothing
\* chosen is a configuration error: nothing is executed.
Refuses(pool, max) ==
  \/ max # NoCap /\ max < 1
  \/ pool = <<>>
  \/ ~KeepsAll(pool, max) /\ Cardinality(Mandatory(pool)) > CapOf(pool, max)
  \/ Chosen(pool, max) = {}

Reason(pool, max, chosen, u) ==
  CASE u \in chosen /\ u.mandatory               -> "mandatory_policy"
    [] u \in chosen /\ KeepsAll(pool, max)       -> "pool_within_budget"
    [] u \in chosen                              -> "covers_new_dimensions"
    [] u.dims \subseteq Covered(chosen)          -> "redundant_coverage"
    [] OTHER                                     -> "budget_exhausted"

\* The selection plan: what is executed, in the order of the pool, what is
\* not, and why.
PlanOf(pool, max, chosen) ==
  [selected |-> SelectSeq(pool, LAMBDA u : u \in chosen),
   excluded |-> ToSet(pool) \ chosen,
   reason   |-> [u \in ToSet(pool) |-> Reason(pool, max, chosen, u)]]
Select(pool, max) == PlanOf(pool, max, Chosen(pool, max))
=============================================================================
