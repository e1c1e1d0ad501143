----------------------------- MODULE MergeGate ------------------------------
(* When a proposal has the votes, and the time, to be applied: the pure      *)
(* rule of src/workflow/rules/governance-gate.ts, in its two columns'        *)
(* regimes (the default one and "at least N").  A window is a fraction       *)
(* [n, d] of days, Never the window that does not apply; an age is a whole   *)
(* number of days.  Counts are the electorate's: active people a, Yes y and  *)
(* No n.                                                                     *)
EXTENDS Integers

Days(k) == [n |-> k, d |-> 1]
Never == [n |-> 0, d |-> 0]
Armed(w) == w # Never
Elapsed(w, age) == Armed(w) /\ age * w.d >= w.n
Shorter(v, w) == IF v.d = w.d THEN v.n < w.n ELSE v.n * w.d < w.n * v.d

WindowMax == 7      \* WINDOW_MAX_MS and REJECT_WINDOW_MAX_MS, in days
WindowMid == 3      \* WINDOW_MID_MS and LAZY_WINDOW_BASE_MS
LazyStep == 2       \* LAZY_WINDOW_STEP_MS

AtMost(k, cap) == IF k < cap THEN k ELSE cap
AtLeast(k, floor) == IF k > floor THEN k ELSE floor

Majority(a) == a \div 2 + 1

\* The Yes votes it takes: an unopposed proposal is let off a quarter of the
\* active people, each No takes two of those back.
Discount(a, n) == AtLeast(a \div 4 - 2 * n, 0)
Floor(a) == AtMost(2, Majority(a))
RequiredVotes(a, n) == AtLeast(Majority(a) - Discount(a, n), Floor(a))

Contested(a, n) == 3 * n >= a

----------------------------------------------------------------------------
(* The clocks. *)

\* How long an approved proposal stays visible: 7 days to 3 over the first
\* third of the active people, 3 to 0 over the next sixth, pushed back
\* towards 7 by the share of No.
YesWindow(a, y) ==
  IF 2 * y >= a THEN [n |-> 0, d |-> a ^ 3]
  ELSE IF 3 * y < a THEN [n |-> (WindowMax * a - 3 * (WindowMax - WindowMid) * y) * a ^ 2, d |-> a ^ 3]
  ELSE [n |-> WindowMid * (a ^ 3 - (6 * y - 2 * a) ^ 3), d |-> a ^ 3]
PushedBack(w, a, n) ==
  [n |-> w.n * a + 3 * n * (WindowMax * w.d - w.n), d |-> w.d * a]
MergeWindow(a, y, n) ==
  IF y >= Majority(a) \/ Contested(a, n) THEN Days(0)
  ELSE PushedBack(YesWindow(a, y), a, n)

\* A proposal with support but short of its votes is let in by silence.
LazyArmed(a, y, n) == y < RequiredVotes(a, n) /\ y >= 1 /\ y > n /\ ~Contested(a, n)
LazyWindow(a, y, n) ==
  IF LazyArmed(a, y, n)
  THEN Days(AtMost(WindowMid + (RequiredVotes(a, n) - y - 1) * LazyStep, WindowMax))
  ELSE Never

\* A proposal the group is voting down is closed in the end.
OppositionArmed(y, n) == n > y /\ n >= 2
RejectionArmed(a, y, n) == 3 * y < a /\ OppositionArmed(y, n)
RejectionWindow(a, y, n) ==
  IF RejectionArmed(a, y, n)
  THEN [n |-> WindowMax * ((n + y) ^ 3 - (n - y) ^ 3), d |-> (n + y) ^ 3]
  ELSE Never

----------------------------------------------------------------------------
(* The verdicts. *)

ThresholdMet(a, y, n) == y >= RequiredVotes(a, n)

\* The one clock that gates the default regime, whichever path owns it.
GateWindow(a, y, n) ==
  IF ThresholdMet(a, y, n) THEN MergeWindow(a, y, n) ELSE LazyWindow(a, y, n)
DefaultMergeable(a, y, n, age) == Elapsed(GateWindow(a, y, n), age)
DefaultRejectable(a, y, n, age) == Elapsed(RejectionWindow(a, y, n), age)

AtLeastMet(required, y) == y >= AtLeast(required, 1)

\* A flagged proposal (a secret change) needs a Yes from someone other than
\* its author once the community has another member, and has no clocks.
FloorMet(members, otherYes) == members <= 1 \/ otherYes >= 1
=============================================================================
