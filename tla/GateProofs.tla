----------------------------- MODULE GateProofs -----------------------------
(* What the merge gate (rules/governance-gate.ts) does for every electorate  *)
(* and every tally: the tests try a handful of numbers each.  Each theorem   *)
(* is arithmetic over the operators of MergeGate, so a proof is a split on   *)
(* which clock owns the gate.                                                *)
EXTENDS MergeGate, TLAPS

\* The votes it takes lie between the floor and a majority, so opposition can
\* raise the bar to a majority and never beyond: no permanent deadlock.
THEOREM RequiredWithinBounds ==
  ASSUME NEW a \in Nat \ {0}, NEW n \in Nat
  PROVE  /\ RequiredVotes(a, n) \in Nat
         /\ Floor(a) <= RequiredVotes(a, n)
         /\ RequiredVotes(a, n) <= Majority(a)
<1>1. Majority(a) \in Nat /\ Majority(a) >= 1
  BY DEF Majority
<1>2. Floor(a) \in Nat /\ Floor(a) <= Majority(a)
  BY <1>1 DEF Floor, AtMost
<1>3. Discount(a, n) \in Nat
  BY DEF Discount, AtLeast
<1> QED
  BY <1>1, <1>2, <1>3 DEF RequiredVotes, AtLeast

\* Another No never lowers the bar.
THEOREM NoRaisesTheBar ==
  ASSUME NEW a \in Nat \ {0}, NEW n \in Nat
  PROVE  RequiredVotes(a, n) <= RequiredVotes(a, n + 1)
<1>1. Discount(a, n + 1) <= Discount(a, n)
  BY DEF Discount, AtLeast
<1>2. Majority(a) \in Nat /\ Floor(a) \in Nat
  BY DEF Majority, Floor, AtMost
<1>3. Discount(a, n) \in Nat /\ Discount(a, n + 1) \in Nat
  BY DEF Discount, AtLeast
<1> QED
  BY <1>1, <1>2, <1>3 DEF RequiredVotes, AtLeast

\* Once a third of the active people say No, nothing short of a majority
\* carries: the discount is gone and no silence lets the proposal in.
THEOREM ContestedNeedsMajority ==
  ASSUME NEW a \in Nat \ {0}, NEW y \in Nat, NEW n \in Nat, NEW age \in Nat,
         Contested(a, n), DefaultMergeable(a, y, n, age)
  PROVE  y >= Majority(a)
<1>1. Discount(a, n) = 0
  BY DEF Contested, Discount, AtLeast
<1>2. Majority(a) \in Nat /\ Floor(a) \in Nat /\ Floor(a) <= Majority(a)
  BY DEF Majority, Floor, AtMost
<1>3. RequiredVotes(a, n) = Majority(a)
  BY <1>1, <1>2 DEF RequiredVotes, AtLeast
<1>4. LazyWindow(a, y, n) = Never
  BY DEF LazyWindow, LazyArmed
<1>5. ~Elapsed(Never, age)
  BY DEF Elapsed, Armed
<1>6. ThresholdMet(a, y, n)
  BY <1>4, <1>5 DEF DefaultMergeable, GateWindow
<1> QED
  BY <1>3, <1>6 DEF ThresholdMet

\* A majority is enough, at any age and against any opposition.
THEOREM MajorityCarries ==
  ASSUME NEW a \in Nat \ {0}, NEW y \in Nat, NEW n \in Nat, NEW age \in Nat,
         y >= Majority(a)
  PROVE  DefaultMergeable(a, y, n, age)
<1>1. ThresholdMet(a, y, n)
  BY RequiredWithinBounds DEF ThresholdMet, Majority
<1>2. GateWindow(a, y, n) = Days(0)
  BY <1>1 DEF GateWindow, MergeWindow
<1>3. Elapsed(Days(0), age)
  BY DEF Elapsed, Armed, Days, Never
<1> QED
  BY <1>2, <1>3 DEF DefaultMergeable

\* A proposal is never let in and voted down at once: while it may merge, no
\* rejection clock runs, whichever of the two merge clocks let it in.
THEOREM NeverBothVerdicts ==
  ASSUME NEW a \in Nat \ {0}, NEW y \in Nat, NEW n \in Nat, NEW age \in Nat,
         DefaultMergeable(a, y, n, age)
  PROVE  ~RejectionArmed(a, y, n) /\ ~DefaultRejectable(a, y, n, age)
<1>1. SUFFICES ~RejectionArmed(a, y, n)
  BY DEF DefaultRejectable, RejectionWindow, Elapsed, Armed
<1>2. SUFFICES ASSUME RejectionArmed(a, y, n) PROVE FALSE
  OBVIOUS
<1>3. 3 * y < a /\ n > y /\ n >= 2
  BY <1>2 DEF RejectionArmed, OppositionArmed
<1>4. CASE ThresholdMet(a, y, n)
  <2>1. y >= Majority(a) - Discount(a, n)
    <3>1. Majority(a) - Discount(a, n) \in Int /\ Floor(a) \in Int
      BY DEF Majority, Discount, Floor, AtLeast, AtMost
    <3> QED
      BY <1>4, <3>1 DEF ThresholdMet, RequiredVotes, AtLeast
  <2>2. CASE a \div 4 - 2 * n > 0
    BY <2>1, <2>2, <1>3 DEF Majority, Discount, AtLeast
  <2>3. CASE ~(a \div 4 - 2 * n > 0)
    BY <2>1, <2>3, <1>3 DEF Majority, Discount, AtLeast
  <2> QED
    BY <2>2, <2>3
<1>5. CASE ~ThresholdMet(a, y, n)
  <2>1. LazyWindow(a, y, n) = Never
    BY <1>3 DEF LazyWindow, LazyArmed
  <2> QED
    BY <1>5, <2>1 DEF DefaultMergeable, GateWindow, Elapsed, Armed
<1> QED
  BY <1>4, <1>5

\* Silence never lets in what nobody supports, nor sooner than three days or
\* later than seven after it was filed.
THEOREM LazyWithinAWeek ==
  ASSUME NEW a \in Nat \ {0}, NEW y \in Nat, NEW n \in Nat,
         Armed(LazyWindow(a, y, n))
  PROVE  /\ y >= 1 /\ y > n
         /\ \E k \in WindowMid..WindowMax : LazyWindow(a, y, n) = Days(k)
<1>1. LazyArmed(a, y, n)
  BY DEF LazyWindow, Armed
<1>2. y >= 1 /\ y > n /\ RequiredVotes(a, n) - y - 1 \in Nat
  BY <1>1, RequiredWithinBounds DEF LazyArmed
<1>3. AtMost(WindowMid + (RequiredVotes(a, n) - y - 1) * LazyStep, WindowMax)
        \in WindowMid..WindowMax
  BY <1>2 DEF AtMost, WindowMid, WindowMax, LazyStep
<1> QED
  BY <1>1, <1>2, <1>3 DEF LazyWindow
=============================================================================
