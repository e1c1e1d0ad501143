------------------------------- MODULE Stream -------------------------------
(***************************************************************************)
(* What the workflow kernel promises of an event stream                    *)
(* (docs/workflows.md, "Processing"): each committed event is decided in   *)
(* one step, in its instance's order, against everything accepted before   *)
(* it.  There are no slots, locks, snapshots, rows or retries here;        *)
(* Pipeline is shown to implement it.                                      *)
(***************************************************************************)
EXTENDS Naturals, FiniteSets

CONSTANTS Events, Insts, InstOf, ReqOf, HashOf

VARIABLES
  status,  \* where an event is
  result,  \* what was decided
  state,   \* per instance, the accepted events its state is computed from
  fault,   \* per instance, the faulted event an admin has to release, or 0
  before   \* per event, those committed before it

streamVars == <<status, result, state, fault, before>>

StreamInit ==
  /\ status = [e \in Events |-> "unsent"]
  /\ result = [e \in Events |-> "none"]
  /\ state = [k \in Insts |-> {}]
  /\ fault = [k \in Insts |-> 0]
  /\ before = [e \in Events |-> {}]

Insert(e) ==
  /\ status[e] = "unsent"
  /\ status' = [status EXCEPT ![e] = "open"]
  /\ UNCHANGED <<result, state, fault, before>>

EndInsert(e) ==
  /\ status[e] = "open"
  /\ \/ /\ status' = [status EXCEPT ![e] = "pending"]
        /\ before' = [before EXCEPT ![e] = {d \in Events : status[d] \in {"pending", "held", "processed"}}]
     \/ status' = [status EXCEPT ![e] = "dropped"] /\ UNCHANGED before
  /\ UNCHANGED <<result, state, fault>>

\* The event's turn: nothing of its instance with a lower id that was
\* committed before it is still to decide.
Turn(e) ==
  /\ status[e] = "pending"
  /\ \A d \in before[e] : InstOf[d] = InstOf[e] /\ d < e => status[d] = "processed"

Decided(e, how) ==
  /\ status' = [status EXCEPT ![e] = "processed"]
  /\ result' = [result EXCEPT ![e] = how]
  /\ UNCHANGED <<fault, before>>

\* The accepted event with the same request key, if there is one.
Originals(e) == {d \in state[InstOf[e]] : ReqOf[d] = ReqOf[e]}

Apply(e) ==
  /\ Turn(e) /\ fault[InstOf[e]] = 0 /\ Originals(e) = {}
  /\ state' = [state EXCEPT ![InstOf[e]] = @ \cup {e}]
  /\ Decided(e, "accepted")

Answer(e) ==
  /\ Turn(e) /\ fault[InstOf[e]] = 0
  /\ \/ Decided(e, "rejected")
     \/ \E d \in Originals(e) : HashOf[d] = HashOf[e] /\ Decided(e, "replayed")
  /\ UNCHANGED state

\* The caller withdraws it while it is undecided.
Withdraw(e) == status[e] = "pending" /\ Decided(e, "refused") /\ UNCHANGED state

Throw(e) ==
  /\ Turn(e)
  /\ status' = [d \in Events |->
       IF d = e THEN "processed"
       ELSE IF InstOf[d] = InstOf[e] /\ d > e /\ status[d] = "pending" THEN "held"
       ELSE status[d]]
  /\ result' = [result EXCEPT ![e] = "faulted"]
  /\ fault' = [fault EXCEPT ![InstOf[e]] = e]
  /\ UNCHANGED <<state, before>>

\* An admin's release: the held events resume, behind the faulted one or
\* without it.
Resume(k) ==
  /\ fault[k] # 0
  /\ \E again \in SUBSET {fault[k]} :
       LET back == again \cup {d \in Events : InstOf[d] = k /\ status[d] = "held"} IN
       /\ status' = [d \in Events |-> IF d \in back THEN "pending" ELSE status[d]]
       /\ result' = [d \in Events |-> IF d \in back THEN "none" ELSE result[d]]
  /\ fault' = [fault EXCEPT ![k] = 0]
  /\ UNCHANGED <<state, before>>

StreamNext ==
  \/ \E e \in Events : \/ Insert(e) \/ EndInsert(e) \/ Withdraw(e)
                       \/ Apply(e) \/ Answer(e) \/ Throw(e)
  \/ \E k \in Insts : Resume(k)

StreamSpec == StreamInit /\ [][StreamNext]_streamVars
=============================================================================
