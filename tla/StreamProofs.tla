---------------------------- MODULE StreamProofs ----------------------------
(***************************************************************************)
(* The pipeline implements the stream (Stream.tla) as long as no slot goes *)
(* on with no row to lock: every step of a slot, a producer or an admin is *)
(* one decision of the stream's, or none.                                  *)
(***************************************************************************)
EXTENDS PipelineProofs

\* A receipt a slot goes by names an accepted event of the same request, now
\* as when it was read: what it answers a retry with was decided for good.
SlotReceipt ==
  \A s \in Slots : slot[s].rcpt # NoEvent =>
    /\ slot[s].rcpt \in Events
    /\ InstOf[slot[s].rcpt] = KeyOf(s) /\ ReqOf[slot[s].rcpt] = ReqOf[slot[s].ev]
    /\ result[slot[s].rcpt] = "accepted"

\* Where a slot's receipt comes from.
LEMMA ReceiptRead ==
  ASSUME TypeOK, SlotHasEvent, NEW s \in Slots, SlotStep(s) \/ Lost(s), slot'[s].rcpt # NoEvent
  PROVE  \/ slot[s].rcpt = slot'[s].rcpt /\ slot'[s].ev = slot[s].ev
         \/ /\ slot'[s].ev \in Events
            /\ slot'[s].rcpt = receipt[InstOf[slot'[s].ev]][ReqOf[slot'[s].ev]]
<1> USE StreamAssumption
<1>0. slot \in [Slots -> SlotStates] /\ slot[s] \in SlotStates
  BY DEF TypeOK
<1>1. CASE Pick(s)
  BY <1>0, <1>1 DEF Pick, Ready, Heads, Pending, Idle
<1>2. CASE LockInstance(s) \/ Relock(s)
  <2>1. slot[s].ev \in Events
    BY <1>2 DEF SlotHasEvent, LockInstance, Relock
  <2> QED
    BY <1>0, <1>2, <2>1 DEF LockInstance, Relock, Lock, Receipt, KeyOf, SlotStates
<1>3. CASE RelockFindsNone(s)
  <2>1. slot[s].ev \in Events
    BY <1>3 DEF SlotHasEvent, RelockFindsNone
  <2> QED
    BY <1>0, <1>3, <2>1 DEF RelockFindsNone, Receipt, KeyOf, SlotStates
<1>4. CASE RowGone(s) \/ InsertPlaceholder(s) \/ InsertConflicts(s) \/ NothingReady(s)
  BY <1>0, <1>4 DEF RowGone, InsertPlaceholder, InsertConflicts, NothingReady, SlotStates
<1>5. ASSUME NEW how, Fail(s, how) PROVE FALSE
  BY <1>0, <1>5 DEF Fail, SlotStates
<1>6. slot'[s] # Idle
  BY DEF Idle
<1> QED
  BY <1>0, <1>1, <1>2, <1>3, <1>4, <1>5, <1>6 DEF SlotStep, Lost, LockTimeout, PassOver,
     Accept, Reject, Replay, Finish, DealtWith, RecordTimeout, RecordFault, EndFailure

LEMMA SlotReceiptKept == IInv /\ SlotReceipt /\ [Next]_vars => SlotReceipt'
<1> SUFFICES ASSUME IInv, SlotReceipt, [Next]_vars, NEW t \in Slots, slot'[t].rcpt # NoEvent
             PROVE  /\ slot'[t].rcpt \in Events
                    /\ InstOf[slot'[t].rcpt] = InstOf[slot'[t].ev]
                    /\ ReqOf[slot'[t].rcpt] = ReqOf[slot'[t].ev]
                    /\ result'[slot'[t].rcpt] = "accepted"
  BY DEF SlotReceipt, KeyOf
<1> USE StreamAssumption DEF IInv, SlotInv, EventInv
<1>1. \A e \in Events : result[e] = "accepted" => result'[e] = "accepted"
  BY DecisionStands
<1>2. CASE slot[t].rcpt = slot'[t].rcpt /\ slot'[t].ev = slot[t].ev
  BY <1>1, <1>2 DEF SlotReceipt, KeyOf
<1>3. CASE /\ slot'[t].ev \in Events
           /\ slot'[t].rcpt = receipt[InstOf[slot'[t].ev]][ReqOf[slot'[t].ev]]
  <2> DEFINE k == InstOf[slot'[t].ev]
             r == ReqOf[slot'[t].ev]
  <2>1. k \in Insts /\ r \in Reqs /\ receipt[k][r] = slot'[t].rcpt /\ receipt[k][r] # NoEvent
    BY <1>3
  <2> HIDE DEF k, r
  <2>2. /\ InstOf[receipt[k][r]] = k /\ ReqOf[receipt[k][r]] = r
        /\ result[receipt[k][r]] = "accepted"
    BY <2>1 DEF ReceiptIsAccepted
  <2>3. receipt[k][r] \in Events
    BY <2>1 DEF TypeOK
  <2>4. k = InstOf[slot'[t].ev] /\ r = ReqOf[slot'[t].ev]
    BY DEF k, r
  <2> QED
    BY <1>1, <2>1, <2>2, <2>3, <2>4
<1>4. CASE slot'[t] = slot[t]
  BY <1>2, <1>4
<1>5. CASE SlotStep(t) \/ Lost(t)
  BY <1>2, <1>3, <1>5, ReceiptRead
<1> QED
  BY <1>4, <1>5, OtherSlots, SlotsOnlyStep
-----------------------------------------------------------------------------
(* The mapping *)

FaultOf(k) == IF inst[k].flag = "faulted" THEN inst[k].blame ELSE NoEvent

LEMMA InitMaps == Init => Promise!StreamInit
BY DEF Init, Promise!StreamInit, Absent, NoEvent

\* A step that changes no event's status and no instance's content and fault
\* is none of the stream's.
LEMMA Stutters ==
  ASSUME UNCHANGED <<status, result, before>>,
         \A k \in Insts : inst'[k].data = inst[k].data /\ FaultOf(k)' = FaultOf(k)
  PROVE  UNCHANGED Promise!streamVars
BY DEF Promise!streamVars, FaultOf

LEMMA ProducerMaps ==
  ASSUME NEW e \in Events, Producer(e)
  PROVE  Promise!StreamNext
<1>1. inst' = inst
  BY DEF Producer, AppendEvent, Commit, Rollback, Refuse, streamOnly
<1>2. CASE AppendEvent(e)
  <2>1. Promise!Insert(e)
    BY <1>1, <1>2 DEF AppendEvent, Promise!Insert
  <2> QED
    BY <2>1 DEF Promise!StreamNext
<1>3. CASE Commit(e) \/ Rollback(e)
  <2>1. Promise!EndInsert(e)
    BY <1>1, <1>3 DEF Commit, Rollback, Promise!EndInsert
  <2> QED
    BY <2>1 DEF Promise!StreamNext
<1>4. CASE Refuse(e)
  <2>1. Promise!Withdraw(e)
    BY <1>1, <1>4 DEF Refuse, Promise!Withdraw, Promise!Decided
  <2> QED
    BY <2>1 DEF Promise!StreamNext
<1> QED
  BY <1>2, <1>3, <1>4 DEF Producer

\* What a slot about to decide knows: it has its instance's row, as it is now,
\* and everything that comes before its event is done with.
LEMMA DecidesInTurn ==
  ASSUME IInv, unlocked = {}, NEW s \in Slots, Deciding(s)
  PROVE  /\ slot[s].ev \in Events /\ KeyOf(s) \in Insts /\ InstOf[slot[s].ev] = KeyOf(s)
         /\ slot[s].at = "locked"
         /\ slot[s].view.data = inst[KeyOf(s)].data /\ slot[s].view.ver = inst[KeyOf(s)].ver
         /\ inst[KeyOf(s)].flag # "faulted" /\ slot[s].view.flag = inst[KeyOf(s)].flag
         /\ inst[KeyOf(s)].data = AcceptedOf(KeyOf(s))
         /\ Promise!Turn(slot[s].ev)
<1> USE DEF IInv, SlotInv
<1>1. slot[s].at = "locked" /\ ~Overtaken(s)
  BY DEF Deciding, NoRowIsAbsent
<1>2. /\ slot[s].ev \in Events /\ status[slot[s].ev] = "pending"
      /\ KeyOf(s) \in Insts /\ InstOf[slot[s].ev] = KeyOf(s)
  BY <1>1, StreamAssumption DEF SlotHasEvent, HasEvent, KeyOf
<1>3. /\ slot[s].view.data = inst[KeyOf(s)].data /\ slot[s].view.ver = inst[KeyOf(s)].ver
      /\ slot[s].view.flag = inst[KeyOf(s)].flag
  BY <1>1, ViewContent
<1>4. inst[KeyOf(s)].flag # "faulted"
  BY <1>1, <1>3 DEF Overtaken
<1>5. inst[KeyOf(s)].data = AcceptedOf(KeyOf(s))
  BY <1>2 DEF NoLostUpdate
<1>6. Promise!Turn(slot[s].ev)
  BY <1>1, <1>2 DEF Promise!Turn, OrderOfSlots, Same
<1> QED
  BY <1>1, <1>2, <1>3, <1>4, <1>5, <1>6

LEMMA AcceptMaps ==
  ASSUME IInv, unlocked = {}, NEW s \in Slots, Accept(s)
  PROVE  Promise!Apply(slot[s].ev)
<1> DEFINE e == slot[s].ev
           k == KeyOf(s)
<1>1. /\ e \in Events /\ k \in Insts /\ InstOf[e] = k
      /\ inst[k].flag # "faulted" /\ inst[k].data = AcceptedOf(k) /\ Promise!Turn(e)
  BY DecidesInTurn DEF Accept
<1>2. /\ inst \in [Insts -> Rows] /\ NoEvent \notin Events
      /\ ReqOf[e] \in Reqs /\ receipt[k][ReqOf[e]] = NoEvent
  BY <1>1, EventsAssumption, StreamAssumption DEF IInv, TypeOK, Accept, Receipt, NoEvent
<1>3. inst'[k].data = inst[k].data \cup {e} /\ inst'[k].flag = "none"
  BY <1>1, AcceptContent DEF IInv, EventInv
<1>4. \A j \in Insts : j # k => inst'[j] = inst[j]
  BY <1>2 DEF Accept
<1>5. Promise!Originals(e) = {}
  <2>1. ASSUME NEW d \in AcceptedOf(k), ReqOf[d] = ReqOf[e] PROVE FALSE
    <3>1. receipt[InstOf[d]][ReqOf[d]] = d /\ d \in Events /\ InstOf[d] = k
      BY <2>1 DEF AcceptedOf, IInv, EventInv, ReceiptIsAccepted
    <3> QED
      BY <1>2, <2>1, <3>1
  <2>2. [j \in Insts |-> inst[j].data][InstOf[e]] = AcceptedOf(k)
    BY <1>1
  <2> QED
    BY <2>1, <2>2 DEF Promise!Originals
<1>6. Promise!Decided(e, "accepted")
  <2>1. status' = [status EXCEPT ![e] = "processed"] /\ result' = [result EXCEPT ![e] = "accepted"]
        /\ before' = before
    BY DEF Accept, Finish
  <2>2. \A j \in Insts : FaultOf(j)' = FaultOf(j)
    BY <1>1, <1>3, <1>4 DEF FaultOf
  <2> QED
    BY <2>1, <2>2 DEF Promise!Decided, FaultOf
<1>7. [j \in Insts |-> inst'[j].data]
        = [[j \in Insts |-> inst[j].data] EXCEPT ![InstOf[e]] = @ \cup {e}]
  BY <1>1, <1>3, <1>4
<1>8. [j \in Insts |-> IF inst[j].flag = "faulted" THEN inst[j].blame ELSE NoEvent][InstOf[e]] = 0
  BY <1>1 DEF NoEvent
<1> QED
  BY <1>1, <1>5, <1>6, <1>7, <1>8 DEF Promise!Apply

\* An answer leaves the content and clears a stall at most.
LEMMA UnchangedContent ==
  ASSUME IInv, unlocked = {}, NEW s \in Slots, Deciding(s)
  PROVE  Unchanged(s).data = inst[KeyOf(s)].data /\ Unchanged(s).flag # "faulted"
<1> DEFINE k == KeyOf(s)
<1>1. /\ k \in Insts /\ slot[s].at = "locked" /\ slot[s].view.ver = inst[k].ver
      /\ inst[k].flag # "faulted" /\ inst[k].data = AcceptedOf(k)
  BY DecidesInTurn
<1>2. inst[k] \in Rows
  BY <1>1 DEF IInv, TypeOK
<1>3. CASE inst[k].ver = 0
  <2>1. AcceptedOf(k) = {}
    BY <1>1, <1>3, FS_EmptySet DEF IInv, EventInv, NoLostUpdate, AcceptedAreFinite
  <2> QED
    BY <1>1, <1>3, <2>1 DEF Unchanged, Absent
<1>4. CASE inst[k].ver # 0
  BY <1>1, <1>2, <1>4 DEF Unchanged, Rows
<1> QED
  BY <1>3, <1>4

LEMMA AnswerMaps ==
  ASSUME IInv, SlotReceipt, unlocked = {}, NEW s \in Slots, Reject(s) \/ Replay(s)
  PROVE  Promise!Answer(slot[s].ev)
<1> DEFINE e == slot[s].ev
           k == KeyOf(s)
<1>1. /\ e \in Events /\ k \in Insts /\ InstOf[e] = k
      /\ inst[k].flag # "faulted" /\ inst[k].data = AcceptedOf(k) /\ Promise!Turn(e)
      /\ Unchanged(s).data = inst[k].data /\ Unchanged(s).flag # "faulted"
  BY DecidesInTurn, UnchangedContent DEF Reject, Replay
<1>2. inst' = [inst EXCEPT ![k] = Unchanged(s)] /\ inst \in [Insts -> Rows]
  BY DEF Reject, Replay, IInv, TypeOK
<1>3. \A j \in Insts : inst'[j].data = inst[j].data /\ FaultOf(j)' = FaultOf(j)
  BY <1>1, <1>2 DEF FaultOf
<1>4. [j \in Insts |-> inst'[j].data] = [j \in Insts |-> inst[j].data]
  BY <1>3
<1>5. [j \in Insts |-> IF inst[j].flag = "faulted" THEN inst[j].blame ELSE NoEvent][InstOf[e]] = 0
  BY <1>1 DEF NoEvent
<1>6. ASSUME NEW how, Finish(s, how) PROVE Promise!Decided(e, how)
  BY <1>3, <1>6 DEF Finish, Promise!Decided, FaultOf
<1>7. Promise!Decided(e, "rejected")
        \/ \E d \in Promise!Originals(e) : HashOf[d] = HashOf[e] /\ Promise!Decided(e, "replayed")
  <2>1. CASE Reject(s)
    BY <1>6, <2>1 DEF Reject
  <2>2. CASE Replay(s)
    <3> DEFINE d == slot[s].rcpt
    <3>1. d # NoEvent /\ HashOf[d] = HashOf[e] /\ Promise!Decided(e, "replayed")
      BY <1>6, <2>2 DEF Replay
    <3>2. d \in AcceptedOf(k) /\ ReqOf[d] = ReqOf[e]
      BY <3>1 DEF SlotReceipt, AcceptedOf
    <3>3. [j \in Insts |-> inst[j].data][InstOf[e]] = AcceptedOf(k)
      BY <1>1
    <3>4. d \in Promise!Originals(e)
      BY <3>2, <3>3 DEF Promise!Originals
    <3> QED
      BY <3>1, <3>4
  <2> QED
    BY <2>1, <2>2
<1> QED
  BY <1>1, <1>4, <1>5, <1>7 DEF Promise!Answer

LEMMA FaultMaps ==
  ASSUME IInv, unlocked = {}, NEW s \in Slots, RecordFault(s)
  PROVE  Promise!Throw(slot[s].ev)
<1> DEFINE e == slot[s].ev
           k == KeyOf(s)
<1>1. /\ slot[s].at = "threw" /\ e \in Events /\ status[e] = "pending"
      /\ k \in Insts /\ InstOf[e] = k
  BY StreamAssumption DEF IInv, SlotInv, SlotHasEvent, RecordFault, Current, KeyOf
<1>2. Promise!Turn(e)
  BY <1>1 DEF IInv, OrderOfSlots, Promise!Turn, Same, KeyOf
<1>3. inst' = [inst EXCEPT ![k] = Flagged(s, "faulted")] /\ inst \in [Insts -> Rows]
  BY DEF RecordFault, IInv, TypeOK
<1>4. /\ Flagged(s, "faulted").data = inst[k].data /\ Flagged(s, "faulted").flag = "faulted"
      /\ Flagged(s, "faulted").blame = e
  BY <1>1, <1>3 DEF Flagged, Rows, Placeholder, Absent, IInv, SlotInv, NoRowIsAbsent
<1>5. [j \in Insts |-> inst'[j].data] = [j \in Insts |-> inst[j].data]
  BY <1>1, <1>3, <1>4
<1>6. [j \in Insts |-> IF inst'[j].flag = "faulted" THEN inst'[j].blame ELSE NoEvent]
        = [[j \in Insts |-> IF inst[j].flag = "faulted" THEN inst[j].blame ELSE NoEvent]
             EXCEPT ![InstOf[e]] = e]
  BY <1>1, <1>3, <1>4
<1>7. status' = [d \in Events |->
                   IF d = e THEN "processed"
                   ELSE IF InstOf[d] = InstOf[e] /\ d > e /\ status[d] = "pending" THEN "held"
                   ELSE status[d]]
  BY DEF RecordFault, Later, Pending, Same
<1>8. result' = [result EXCEPT ![e] = "faulted"] /\ before' = before
  BY DEF RecordFault, EndFailure
<1> QED
  BY <1>2, <1>5, <1>6, <1>7, <1>8 DEF Promise!Throw

LEMMA ReleaseMaps ==
  ASSUME IInv, NEW k \in Insts, NEW mode \in {"retry", "skip"}, Release(k, mode)
  PROVE  Promise!Resume(k)
<1> DEFINE e == inst[k].blame
           again == IF mode = "retry" /\ result[e] = "faulted" THEN {e} ELSE {}
           held == {d \in Events : InstOf[d] = k /\ status[d] = "held"}
           back == again \cup held
           faults == [j \in Insts |-> IF inst[j].flag = "faulted" THEN inst[j].blame ELSE NoEvent]
<1>1. inst[k].flag = "faulted" /\ e \in Events /\ inst \in [Insts -> Rows]
  BY DEF Release, IInv, BlameIsOwn, TypeOK
<1>2. faults[k] = e /\ e # 0
  BY <1>1, EventsAssumption
<1>3. \A d \in Events : d \in back <=> \/ InstOf[d] = k /\ status[d] = "held"
                                       \/ mode = "retry" /\ d = e /\ result[d] = "faulted"
  OBVIOUS
<1>4. /\ status' = [d \in Events |-> IF d \in back THEN "pending" ELSE status[d]]
      /\ result' = [d \in Events |-> IF d \in back THEN "none" ELSE result[d]]
      /\ inst' = [inst EXCEPT ![k].flag = "none", ![k].blame = NoEvent] /\ before' = before
  BY <1>3 DEF Release
<1>5. /\ inst'[k].data = inst[k].data /\ inst'[k].flag = "none"
      /\ \A j \in Insts : j # k => inst'[j] = inst[j]
  BY <1>1, <1>4 DEF Rows
<1>6. [j \in Insts |-> inst'[j].data] = [j \in Insts |-> inst[j].data]
  BY <1>5
<1>7. [j \in Insts |-> IF inst'[j].flag = "faulted" THEN inst'[j].blame ELSE NoEvent]
        = [faults EXCEPT ![k] = 0]
  BY <1>5 DEF NoEvent
<1>8. again \in SUBSET {faults[k]}
  BY <1>2
<1> HIDE DEF again
<1> QED
  BY <1>2, <1>4, <1>6, <1>7, <1>8 DEF Promise!Resume

\* A timeout is none of the stream's business: at most it flags the instance
\* stalled, or makes it a row that holds nothing.
LEMMA TimeoutMaps ==
  ASSUME IInv, NEW s \in Slots, RecordTimeout(s)
  PROVE  UNCHANGED Promise!streamVars
<1> DEFINE k == KeyOf(s)
<1>1. k \in Insts /\ inst \in [Insts -> Rows]
  BY StreamAssumption DEF IInv, SlotInv, SlotHasEvent, RecordTimeout, KeyOf, TypeOK
<1>2. /\ inst' = inst \/ (inst[k].flag = "none" /\ inst' = [inst EXCEPT ![k] = Flagged(s, "stalled")])
      /\ UNCHANGED <<status, result, before>>
  BY DEF RecordTimeout, EndFailure
<1>3. Flagged(s, "stalled").data = inst[k].data /\ Flagged(s, "stalled").flag = "stalled"
  BY <1>1 DEF Flagged, Rows, Placeholder, Absent, IInv, SlotInv, NoRowIsAbsent
<1>4. \A j \in Insts : inst'[j].data = inst[j].data /\ FaultOf(j)' = FaultOf(j)
  BY <1>1, <1>2, <1>3 DEF FaultOf
<1> QED
  BY <1>2, <1>4, Stutters

LEMMA SlotMaps ==
  ASSUME IInv, SlotReceipt, unlocked = {}, NEW s \in Slots, SlotStep(s) \/ Lost(s)
  PROVE  Promise!StreamNext \/ UNCHANGED Promise!streamVars
<1>1. CASE Accept(s) \/ Reject(s) \/ Replay(s)
  <2>1. slot[s].ev \in Events
    BY <1>1, DecidesInTurn DEF Accept, Reject, Replay
  <2>2. Promise!Apply(slot[s].ev) \/ Promise!Answer(slot[s].ev)
    BY <1>1, AcceptMaps, AnswerMaps
  <2>3. \E e \in Events : Promise!Apply(e) \/ Promise!Answer(e)
    BY <2>1, <2>2 DEF Promise!Apply, Promise!Answer, Promise!Turn, Promise!Originals, Promise!Decided
  <2> QED
    BY <2>3 DEF Promise!StreamNext
<1>2. CASE RecordFault(s)
  <2>1. slot[s].ev \in Events
    BY <1>2 DEF IInv, SlotInv, SlotHasEvent, RecordFault
  <2>2. Promise!Throw(slot[s].ev)
    BY <1>2, FaultMaps
  <2>3. \E e \in Events : Promise!Throw(e)
    BY <2>1, <2>2 DEF Promise!Throw, Promise!Turn
  <2> QED
    BY <2>3 DEF Promise!StreamNext
<1>3. CASE RecordTimeout(s)
  BY <1>3, TimeoutMaps
<1>4. CASE UNCHANGED <<status, result, inst, before>>
  BY <1>4, Stutters DEF FaultOf
<1> QED
  BY <1>1, <1>2, <1>3, <1>4 DEF SlotStep, Lost, Pick, NothingReady, LockInstance, RowGone,
     InsertPlaceholder, InsertConflicts, Relock, RelockFindsNone, LockTimeout, PassOver, Fail,
     DealtWith, EndFailure, unpicked

\* Every step of the pipeline is a step of the stream's, or none.
LEMMA NextMaps ==
  IInv /\ SlotReceipt /\ unlocked = {} /\ [Next]_vars => [Promise!StreamNext]_(Promise!streamVars)
<1> SUFFICES ASSUME IInv, SlotReceipt, unlocked = {}, [Next]_vars
             PROVE  Promise!StreamNext \/ UNCHANGED Promise!streamVars
  OBVIOUS
<1>1. ASSUME NEW e \in Events, Producer(e) PROVE Promise!StreamNext
  BY <1>1, ProducerMaps
<1>2. ASSUME NEW s \in Slots, SlotStep(s) \/ Lost(s)
      PROVE  Promise!StreamNext \/ UNCHANGED Promise!streamVars
  BY <1>2, SlotMaps
<1>3. ASSUME NEW k \in Insts, Admin(k) PROVE Promise!StreamNext
  BY <1>3, ReleaseMaps DEF Admin, Promise!StreamNext
<1>4. CASE UNCHANGED vars \/ \E e \in Events : BackoffOver(e)
  <2>1. UNCHANGED <<status, result, inst, before>>
    BY <1>4 DEF vars, BackoffOver
  <2> QED
    BY <2>1, Stutters DEF FaultOf
<1> QED
  BY <1>1, <1>2, <1>3, <1>4 DEF Next, Quiet

\* As long as no slot goes on with no row to lock (RelockFindsNone), the
\* pipeline keeps the kernel's promise: whatever its slots, snapshots, locks,
\* timeouts, faults, releases and lost transactions do, each committed event is
\* decided in one step, in its instance's order, against everything accepted
\* before it, and a retry is answered from its original.
THEOREM PipelineImplementsStream == Spec /\ [](unlocked = {}) => ImplementsStream
<1>1. Init => Promise!StreamInit /\ SlotReceipt
  BY InitMaps DEF Init, SlotReceipt, Idle
<1>2. IInv /\ SlotReceipt /\ [Next]_vars => SlotReceipt'
  BY SlotReceiptKept
<1>3. IInv /\ SlotReceipt /\ unlocked = {} /\ [Next]_vars => [Promise!StreamNext]_(Promise!streamVars)
  BY NextMaps
<1> QED
  BY <1>1, <1>2, <1>3, Invariant, PTL DEF Spec, ImplementsStream, Promise!StreamSpec
=============================================================================
