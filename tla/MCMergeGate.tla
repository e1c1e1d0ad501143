--------------------------- MODULE MCMergeGate ------------------------------
(* One proposal's tally under the default regime, vote by vote. *)
EXTENDS MergeGate

CONSTANTS
  Actives   \* bound: the sizes of the electorate looked at

VARIABLES
  a,    \* the active people
  y,    \* their Yes votes
  n     \* their No votes

tally == <<a, y, n>>

Init == a \in Actives /\ y = 0 /\ n = 0
VoteYes == y + n < a /\ y' = y + 1 /\ UNCHANGED <<a, n>>
VoteNo == y + n < a /\ n' = n + 1 /\ UNCHANGED <<a, y>>
Next == VoteYes \/ VoteNo
Spec == Init /\ [][Next]_tally

\* A No vote never lets a proposal in sooner: governance-gate.ts says the
\* window is pushed back out toward the 7 days by opposition.
NoNeverHastens ==
  [][VoteNo /\ Armed(GateWindow(a, y, n)) /\ Armed(GateWindow(a, y, n)')
       => ~Shorter(GateWindow(a, y, n)', GateWindow(a, y, n))]_tally
=============================================================================
