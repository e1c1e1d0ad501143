---------------------------- MODULE MCMergeLine -----------------------------
(* Small instances of MergeLine for TLC: one proposal with a move and a      *)
(* failure of any kind, and two that only the queue, GitHub and the checks   *)
(* move.                                                                     *)
EXTENDS MergeLine
CONSTANTS p1, p2

People == {"propose", "unpromote", "close", "force", "vote", "turn", "push", "hand", "sync", "stop",
           "carried"}
Both == {p1, p2}
\* Every start of the proposals of line.
Starts(line, moves, faults, late, kinds) ==
  [line : {line}, approved : SUBSET line, clean : SUBSET line, moves : {moves}, faults : {faults},
   late : {late}, kinds : {kinds}]
Pair(approved, clean, moves, faults, late, kinds) ==
  [line |-> Both, approved |-> approved, clean |-> clean, moves |-> moves, faults |-> faults,
   late |-> late, kinds |-> kinds]
Pairs == {Pair(Both, Both, 0, 0, 0, {}), Pair(Both, {p1}, 0, 0, 0, {}), Pair({p1}, {}, 0, 0, 0, {})}

MCInstances ==
  Pairs \cup Starts({p1}, 1, 1, 0, Kinds) \cup Starts({p1}, 1, 0, 1, People)
        \cup Starts({p1}, 2, 0, 0, {"force", "close", "unpromote", "hand"})
        \cup {Pair(Both, Both, 2, 0, 0, {"carried", "force", "close"}), Pair(Both, Both, 1, 0, 0, {"push"}),
              Pair(Both, Both, 0, 1, 0, {"conflict", "exhausted"})}
Living ==
  Pairs \cup Starts({p1}, 1, 1, 0, {"force", "push", "hand", "exhausted", "error", "busy", "base_moved", "older"})
Lost == Starts({p1}, 0, 1, 0, {"exhausted"})
Moving == Starts({p1}, 1, 1, 0, {"push", "base_moved"})
=============================================================================
