---------------------------- MODULE MCGovernance ----------------------------
(* Instances of Governance for TLC. *)
EXTENDS Governance

CONSTANTS v1, v2

\* 'invited', with v2 and somebody who does not vote on the roster; 'anyone',
\* with only one of the two active lately.
TwoElectorates == {[active |-> 2, counted |-> {v2}], [active |-> 1, counted |-> {v1, v2}]}
=============================================================================
