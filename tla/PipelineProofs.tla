--------------------------- MODULE PipelineProofs ---------------------------
(***************************************************************************)
(* Proofs about the transition pipeline, for any number of slots,          *)
(* instances, events, builds, timeouts, releases and lost transactions.    *)
(***************************************************************************)
EXTENDS Pipeline, FiniteSetTheorems, TLAPS

\* The typed values that the actions write.
LEMMA RowTypes ==
  /\ Absent \in Rows
  /\ \A s \in Slots : Placeholder(s) \in Rows
  /\ Idle \in SlotStates
BY SlotsAssumption DEF Absent, Placeholder, Rows, Flags, NoEvent, Idle, SlotStates, Steps

\* The initial state is typed.
LEMMA InitTyped == Init => TypeOK
BY RowTypes, BoundsAssumption
  DEF Init, TypeOK, Statuses, Results, NoEvent

\* The fields of a slot's record.
LEMMA SlotFields ==
  ASSUME NEW r \in SlotStates
  PROVE  /\ r.at \in Steps /\ r.ev \in Events \cup {NoEvent} /\ r.rcpt \in Events \cup {NoEvent}
         /\ r.tries \in Nat /\ r.view \in Rows
BY DEF SlotStates

\* Every step keeps the types.
LEMMA NextTyped == TypeOK /\ SlotHasEvent /\ [Next]_vars => TypeOK'
<1> SUFFICES ASSUME TypeOK, SlotHasEvent, [Next]_vars PROVE TypeOK'
  OBVIOUS
<1> USE StreamAssumption, EventsAssumption, SlotsAssumption, BoundsAssumption, RowTypes
<1>1. ASSUME NEW e \in Events, Producer(e) PROVE TypeOK'
  <2>1. CASE AppendEvent(e)
    BY <2>1 DEF AppendEvent, TypeOK, Statuses, streamOnly
  <2>2. CASE Commit(e)
    BY <2>2 DEF Commit, TypeOK, Statuses, streamOnly
  <2>3. CASE Rollback(e)
    BY <2>3 DEF Rollback, TypeOK, Statuses, streamOnly
  <2>4. CASE Refuse(e)
    BY <2>4 DEF Refuse, TypeOK, Statuses, Results, streamOnly
  <2> QED
    BY <1>1, <2>1, <2>2, <2>3, <2>4 DEF Producer
<1>2. ASSUME NEW e \in Events, BackoffOver(e) PROVE TypeOK'
  BY <1>2 DEF BackoffOver, TypeOK
<1>3. ASSUME NEW s \in Slots, Lost(s) PROVE TypeOK'
  <2>1. lost' \in 0..MaxLost
    BY <1>3 DEF Lost, TypeOK
  <2> QED
    BY <1>3, <2>1 DEF Lost, TypeOK, Unlocked
<1>4. ASSUME NEW k \in Insts, Admin(k) PROVE TypeOK'
  <2> PICK mode \in {"retry", "skip"} : Release(k, mode)
    BY <1>4 DEF Admin
  <2>1. inst[k] \in Rows
    BY DEF TypeOK
  <2>2. [inst[k] EXCEPT !.flag = "none", !.blame = NoEvent] \in Rows
    BY <2>1 DEF Rows, Flags, NoEvent
  <2>3. inst' = [inst EXCEPT ![k] = [inst[k] EXCEPT !.flag = "none", !.blame = NoEvent]]
    BY <2>1 DEF Release, TypeOK
  <2>4. inst' \in [Insts -> Rows]
    BY <2>2, <2>3 DEF TypeOK
  <2>5. releases' \in 0..MaxReleases
    BY DEF Release, TypeOK
  <2> QED
    BY <2>4, <2>5 DEF Release, TypeOK, Statuses, Results
<1>5. ASSUME NEW s \in Slots, SlotStep(s) PROVE TypeOK'
  <2>0. slot[s] \in SlotStates
    BY DEF TypeOK
  <2>1. CASE Pick(s)
    <3> PICK e \in Ready(s) :
          slot' = [slot EXCEPT ![s] =
            [Idle EXCEPT !.at = IF inst[InstOf[e]].row THEN "picked" ELSE "claiming",
                         !.ev = e,
                         !.seen = IF inst[InstOf[e]].row THEN inst[InstOf[e]].ver ELSE -1,
                         !.rcpt = receipt[InstOf[e]][ReqOf[e]],
                         !.tries = attempts[e]]]
      BY <2>1 DEF Pick
    <3>1. e \in Events
      BY DEF Ready, Heads, Pending
    <3>2. /\ inst[InstOf[e]].ver \in Nat
          /\ receipt[InstOf[e]][ReqOf[e]] \in Events \cup {NoEvent}
          /\ attempts[e] \in Nat
      BY <3>1 DEF TypeOK, Rows
    <3>3. slot' \in [Slots -> SlotStates]
      BY <3>1, <3>2 DEF TypeOK, SlotStates, Steps, Idle
    <3> QED
      BY <2>1, <3>3 DEF Pick, unpicked, TypeOK
  <2>2. CASE NothingReady(s)
    BY <2>2 DEF NothingReady, unpicked, TypeOK
  <2> SUFFICES ASSUME slot[s].at # "idle", ~Pick(s), ~NothingReady(s) PROVE TypeOK'
    BY <1>5, <2>1, <2>2
      DEF SlotStep, LockInstance, RowGone, InsertPlaceholder, InsertConflicts, Relock,
          RelockFindsNone, LockTimeout, PassOver, Accept, Reject, Replay, Fail, DealtWith,
          RecordTimeout, RecordFault, Deciding, Failed
  <2> DEFINE e == slot[s].ev
             k == KeyOf(s)
  <2>3. e \in Events /\ k \in Insts /\ inst[k] \in Rows /\ Receipt(s) \in Events \cup {NoEvent}
    <3>1. e \in Events
      BY DEF SlotHasEvent
    <3>2. k \in Insts /\ ReqOf[e] \in Reqs
      BY <3>1 DEF KeyOf
    <3> QED
      BY <3>1, <3>2 DEF Receipt, TypeOK
  <2>4. ASSUME NEW waited \in BOOLEAN, Lock(s, waited)
        PROVE  slot' \in [Slots -> SlotStates] /\ lock' \in [Insts -> Slots \cup {NoSlot}]
    <3>1. slot' = [slot EXCEPT ![s] = [slot[s] EXCEPT !.at = "locked", !.view = inst[k],
                     !.rcpt = IF waited THEN Receipt(s) ELSE slot[s].rcpt]]
      BY <2>4, <2>0 DEF Lock, TypeOK, SlotStates
    <3>2. [slot[s] EXCEPT !.at = "locked", !.view = inst[k],
             !.rcpt = IF waited THEN Receipt(s) ELSE slot[s].rcpt] \in SlotStates
      BY <2>0, <2>3 DEF SlotStates, Steps
    <3> QED
      BY <2>4, <2>3, <3>1, <3>2 DEF Lock, TypeOK
  <2>5. CASE LockInstance(s)
    BY <2>5, <2>4 DEF LockInstance, unpicked, TypeOK
  <2>6. CASE Relock(s)
    BY <2>6, <2>4 DEF Relock, unpicked, TypeOK
  <2>7. CASE RowGone(s)
    <3>1. slot' = [slot EXCEPT ![s] = [slot[s] EXCEPT !.at = "claiming"]]
      BY <2>7, <2>0 DEF RowGone, TypeOK, SlotStates
    <3>2. [slot[s] EXCEPT !.at = "claiming"] \in SlotStates
      BY <2>0, <2>3 DEF SlotStates, Steps
    <3> QED
      BY <2>7, <2>3, <3>1, <3>2 DEF RowGone, unpicked, TypeOK
  <2>8. CASE InsertPlaceholder(s)
    <3>1. slot' = [slot EXCEPT ![s] = [slot[s] EXCEPT !.at = "locked", !.view = Placeholder(s)]]
      BY <2>8, <2>0 DEF InsertPlaceholder, TypeOK, SlotStates
    <3>2. [slot[s] EXCEPT !.at = "locked", !.view = Placeholder(s)] \in SlotStates
      BY <2>0, <2>3 DEF SlotStates, Steps
    <3> QED
      BY <2>8, <2>3, <3>1, <3>2 DEF InsertPlaceholder, unpicked, TypeOK
  <2>9. CASE InsertConflicts(s)
    <3>1. slot' = [slot EXCEPT ![s] = [slot[s] EXCEPT !.at = "relocking"]]
      BY <2>9, <2>0 DEF InsertConflicts, TypeOK, SlotStates
    <3>2. [slot[s] EXCEPT !.at = "relocking"] \in SlotStates
      BY <2>0, <2>3 DEF SlotStates, Steps
    <3> QED
      BY <2>9, <2>3, <3>1, <3>2 DEF InsertConflicts, unpicked, TypeOK
  <2>10. CASE RelockFindsNone(s)
    <3>1. slot' = [slot EXCEPT ![s] = [slot[s] EXCEPT !.at = "bare", !.rcpt = Receipt(s)]]
      BY <2>10, <2>0 DEF RelockFindsNone, TypeOK, SlotStates
    <3>2. [slot[s] EXCEPT !.at = "bare", !.rcpt = Receipt(s)] \in SlotStates
      BY <2>0, <2>3 DEF SlotStates, Steps
    <3> QED
      BY <2>10, <2>3, <3>1, <3>2 DEF RelockFindsNone, unpicked, TypeOK
  <2>11. CASE LockTimeout(s)
    BY <2>11, <2>3 DEF LockTimeout, unpicked, TypeOK
  <2>12. CASE PassOver(s)
    BY <2>12, <2>3 DEF PassOver, unpicked, TypeOK, Unlocked
  <2>13. ASSUME NEW how \in Results, Finish(s, how), inst' \in [Insts -> Rows],
                receipt' \in [Insts -> [Reqs -> Events \cup {NoEvent}]]
         PROVE  TypeOK'
    BY <2>13, <2>3 DEF Finish, TypeOK, Unlocked, Statuses
  <2>14. CASE Accept(s)
    <3>1. [row |-> TRUE, ver |-> slot[s].view.ver + 1, data |-> slot[s].view.data \cup {e},
           mver |-> Version[s], flag |-> "none", blame |-> NoEvent] \in Rows
      BY <2>0, <2>3, SlotFields DEF Rows, Flags, NoEvent
    <3>2. inst' \in [Insts -> Rows]
      BY <2>14, <3>1 DEF Accept, TypeOK
    <3>3. receipt' \in [Insts -> [Reqs -> Events \cup {NoEvent}]]
      BY <2>14, <2>3 DEF Accept, TypeOK
    <3> QED
      BY <2>14, <2>13, <3>2, <3>3 DEF Accept, Results
  <2>15. Unchanged(s) \in Rows
    BY <2>3 DEF Unchanged, Rows, Flags, NoEvent, Absent
  <2>16. CASE Reject(s)
    BY <2>16, <2>13, <2>15 DEF Reject, Results, TypeOK
  <2>17. CASE Replay(s)
    BY <2>17, <2>13, <2>15 DEF Replay, Results, TypeOK
  <2>18. ASSUME NEW how \in {"threw", "timedOut"}, Fail(s, how) PROVE TypeOK'
    <3>1. [slot[s] EXCEPT !.at = how, !.seen = -1, !.rcpt = NoEvent, !.view = Absent] \in SlotStates
      BY <2>0 DEF SlotStates, Steps
    <3>2. /\ slot' \in [Slots -> SlotStates]
          /\ lock' \in [Insts -> Slots \cup {NoSlot}]
      BY <2>18, <3>1 DEF Fail, TypeOK, Unlocked
    <3>3. UNCHANGED <<status, result, attempts, backoff, inst, receipt, lost, releases, before,
                      passed, unlocked>>
      BY <2>18 DEF Fail, unpicked
    <3> QED
      BY <3>2, <3>3 DEF TypeOK
  <2>19. CASE DealtWith(s)
    BY <2>19 DEF DealtWith, EndFailure, TypeOK
  <2>20. \A flag \in Flags : Flagged(s, flag) \in Rows
    <3>1. \A flag \in Flags, r \in Rows : [r EXCEPT !.flag = flag, !.blame = e] \in Rows
      BY <2>3 DEF Rows
    <3> QED
      BY <2>3, <3>1 DEF Flagged
  <2>21. CASE RecordTimeout(s)
    <3>1. inst' \in [Insts -> Rows]
      BY <2>21, <2>20 DEF RecordTimeout, TypeOK, Flags
    <3>2. attempts' \in [Events -> Nat]
      <4>. HIDE DEF e, k
      <4>0. attempts[e] \in Nat
        BY <2>3 DEF TypeOK
      <4>1. attempts[e] + 1 \in Nat
        BY <4>0
      <4>2. attempts' = [attempts EXCEPT ![e] = attempts[e] + 1]
        BY <2>21 DEF RecordTimeout, e
      <4> QED
        BY <4>1, <4>2 DEF TypeOK
    <3> QED
      BY <2>21, <2>3, <3>1, <3>2 DEF RecordTimeout, EndFailure, TypeOK
  <2>22. CASE RecordFault(s)
    BY <2>22, <2>3, <2>20 DEF RecordFault, EndFailure, TypeOK, Flags, Statuses, Results
  <2> QED
    BY <1>5, <2>5, <2>6, <2>7, <2>8, <2>9, <2>10, <2>11, <2>12, <2>14, <2>16, <2>17, <2>18,
       <2>19, <2>21, <2>22 DEF SlotStep
<1>6. CASE UNCHANGED vars
  BY <1>6 DEF vars, TypeOK
<1> QED
  BY <1>1, <1>2, <1>3, <1>4, <1>5, <1>6 DEF Next, Quiet
-----------------------------------------------------------------------------
(* What a slot holds *)

\* A step of one slot changes no other's state.
LEMMA OtherSlots ==
  ASSUME TypeOK, NEW s \in Slots, SlotStep(s) \/ Lost(s)
  PROVE  \A t \in Slots \ {s} : slot'[t] = slot[t]
BY DEF TypeOK, SlotStep, Lost, Pick, NothingReady, LockInstance, Lock, RowGone, InsertPlaceholder,
       InsertConflicts, Relock, RelockFindsNone, LockTimeout, PassOver, Accept, Reject, Replay,
       Finish, Fail, DealtWith, RecordTimeout, RecordFault, EndFailure

\* A step of a slot that was busy leaves it idle or at the same event.
LEMMA SameEvent ==
  ASSUME TypeOK, NEW s \in Slots, SlotStep(s) \/ Lost(s), ~Pick(s)
  PROVE  slot'[s].at = "idle" \/ (slot[s].at # "idle" /\ slot'[s].ev = slot[s].ev)
<1> DEFINE Goal == slot'[s].at = "idle" \/ (slot[s].at # "idle" /\ slot'[s].ev = slot[s].ev)
<1>1. slot \in [Slots -> SlotStates] /\ slot[s] \in SlotStates
  BY DEF TypeOK
<1>2. ASSUME NEW how \in {"threw", "timedOut"}, Fail(s, how) PROVE Goal
  BY <1>1, <1>2 DEF SlotStates, Fail, Deciding
<1>3. CASE LockInstance(s) \/ Relock(s)
  BY <1>1, <1>3 DEF SlotStates, LockInstance, Relock, Lock
<1>4. CASE RowGone(s) \/ InsertPlaceholder(s) \/ InsertConflicts(s) \/ RelockFindsNone(s)
  BY <1>1, <1>4 DEF SlotStates, RowGone, InsertPlaceholder, InsertConflicts, RelockFindsNone
<1>5. CASE NothingReady(s)
  BY <1>1, <1>5 DEF NothingReady, unpicked
<1>6. CASE LockTimeout(s) \/ PassOver(s) \/ Lost(s)
  BY <1>1, <1>6 DEF LockTimeout, PassOver, Lost, Idle
<1>7. CASE Accept(s) \/ Reject(s) \/ Replay(s)
  BY <1>1, <1>7 DEF Accept, Reject, Replay, Finish, Idle
<1>8. CASE DealtWith(s) \/ RecordTimeout(s) \/ RecordFault(s)
  BY <1>1, <1>8 DEF DealtWith, RecordTimeout, RecordFault, EndFailure, Idle
<1> QED
  BY <1>2, <1>3, <1>4, <1>5, <1>6, <1>7, <1>8 DEF SlotStep
\* The locks a slot has over events: they come with the pick alone, and an
\* event so locked changes only at the hands of its slot.
LEMMA EventLockFromPick ==
  ASSUME TypeOK, NEW s \in Slots, SlotStep(s) \/ Lost(s), ~Pick(s), HasEvent(s)'
  PROVE  HasEvent(s) /\ UNCHANGED <<status, result>>
<1>1. slot \in [Slots -> SlotStates] /\ slot[s] \in SlotStates
  BY DEF TypeOK
<1>2. ASSUME NEW how \in {"threw", "timedOut"}, Fail(s, how) PROVE FALSE
  BY <1>1, <1>2 DEF SlotStates, Fail, HasEvent
<1>3. CASE LockInstance(s) \/ Relock(s)
  BY <1>1, <1>3 DEF SlotStates, LockInstance, Relock, Lock, HasEvent, unpicked
<1>4. CASE RowGone(s) \/ InsertPlaceholder(s) \/ InsertConflicts(s) \/ RelockFindsNone(s)
  BY <1>1, <1>4 DEF RowGone, InsertPlaceholder, InsertConflicts, RelockFindsNone, HasEvent, unpicked
<1>5. CASE NothingReady(s)
  BY <1>1, <1>5 DEF NothingReady, unpicked, HasEvent
<1>6. CASE LockTimeout(s) \/ PassOver(s) \/ Lost(s)
  BY <1>1, <1>6 DEF LockTimeout, PassOver, Lost, Idle, HasEvent
<1>7. CASE Accept(s) \/ Reject(s) \/ Replay(s)
  BY <1>1, <1>7 DEF Accept, Reject, Replay, Finish, Idle, HasEvent
<1>8. CASE DealtWith(s) \/ RecordTimeout(s) \/ RecordFault(s)
  BY <1>1, <1>8 DEF DealtWith, RecordTimeout, RecordFault, EndFailure, Idle, HasEvent
<1> QED
  BY <1>2, <1>3, <1>4, <1>5, <1>6, <1>7, <1>8 DEF SlotStep

\* What a slot's step does to the status of events.
LEMMA StatusOfSlotStep ==
  ASSUME TypeOK, SlotHasEvent, NEW s \in Slots, SlotStep(s) \/ Lost(s)
  PROVE  \/ UNCHANGED <<status, result>>
         \/ /\ HasEvent(s) /\ Deciding(s) /\ slot'[s] = Idle
            /\ \E how \in {"accepted", "rejected", "replayed"} :
                 /\ status' = [status EXCEPT ![slot[s].ev] = "processed"]
                 /\ result' = [result EXCEPT ![slot[s].ev] = how]
         \/ /\ RecordFault(s) /\ slot'[s] = Idle
<1>1. slot \in [Slots -> SlotStates]
  BY DEF TypeOK
<1>2. CASE Accept(s) \/ Reject(s) \/ Replay(s)
  BY <1>1, <1>2 DEF Accept, Reject, Replay, Finish, Deciding, HasEvent
<1>3. CASE RecordFault(s)
  BY <1>1, <1>3 DEF RecordFault, EndFailure
<1>4. CASE DealtWith(s) \/ RecordTimeout(s)
  BY <1>4 DEF DealtWith, RecordTimeout
<1> QED
  BY <1>2, <1>3, <1>4 DEF SlotStep, Lost, Pick, NothingReady, LockInstance, RowGone,
     InsertPlaceholder, InsertConflicts, Relock, RelockFindsNone, LockTimeout, PassOver, Fail, unpicked

\* A slot's event stays committed, and pending while the slot has its lock.
LEMMA SlotHasEventKept == TypeOK /\ SlotHasEvent /\ OneSlotPerEvent /\ [Next]_vars => SlotHasEvent'
<1> SUFFICES ASSUME TypeOK, SlotHasEvent, OneSlotPerEvent, [Next]_vars PROVE SlotHasEvent'
  OBVIOUS
<1> USE StreamAssumption, EventsAssumption, SlotsAssumption
<1>0. status \in [Events -> Statuses] /\ slot \in [Slots -> SlotStates]
  BY DEF TypeOK
<1>1. ASSUME NEW e \in Events, Producer(e) PROVE SlotHasEvent'
  <2>1. slot' = slot
    BY <1>1 DEF Producer, AppendEvent, Commit, Rollback, Refuse, streamOnly
  <2>2. \A d \in Events : d # e => status'[d] = status[d]
    BY <1>0, <1>1 DEF Producer, AppendEvent, Commit, Rollback, Refuse
  <2>3. status[e] \in Settled => status'[e] \in Settled
    BY <1>0, <1>1 DEF Producer, AppendEvent, Commit, Rollback, Refuse, Settled
  <2>4. \A s \in Slots : HasEvent(s) /\ slot[s].ev = e => status'[e] # "processed" \/ status[e] # "pending"
    BY <1>0, <1>1 DEF Producer, AppendEvent, Commit, Rollback, Refuse, EventLocks
  <2>5. status[e] = "pending" => status'[e] \in {"pending", "processed"}
    BY <1>0, <1>1 DEF Producer, AppendEvent, Commit, Rollback, Refuse
  <2> QED
    BY <2>1, <2>2, <2>3, <2>4, <2>5 DEF SlotHasEvent, HasEvent
<1>2. ASSUME NEW e \in Events, BackoffOver(e) PROVE SlotHasEvent'
  BY <1>2 DEF BackoffOver, SlotHasEvent, HasEvent
<1>3. ASSUME NEW k \in Insts, Admin(k) PROVE SlotHasEvent'
  BY <1>0, <1>3 DEF Admin, Release, SlotHasEvent, Settled, HasEvent
<1>4. ASSUME NEW s \in Slots, SlotStep(s) \/ Lost(s) PROVE SlotHasEvent'
  <2>1. SUFFICES ASSUME NEW t \in Slots, slot'[t].at # "idle"
        PROVE  /\ slot'[t].ev \in Events /\ status'[slot'[t].ev] \in Settled
               /\ HasEvent(t)' => status'[slot'[t].ev] = "pending"
    BY DEF SlotHasEvent
  <2>2. CASE t = s /\ Pick(s)
    BY <1>0, <2>2 DEF Pick, Ready, Heads, Pending, Settled, unpicked, Idle
  <2>3. CASE t = s /\ ~Pick(s)
    BY <1>0, <1>4, <2>1, <2>3, SameEvent, EventLockFromPick, StatusOfSlotStep
      DEF SlotHasEvent, Idle
  <2>4. CASE t # s
    <3>1. slot'[t] = slot[t] /\ (HasEvent(t)' <=> HasEvent(t))
      BY <1>4, <2>4, OtherSlots DEF HasEvent
    <3>2. CASE UNCHANGED <<status, result>>
      BY <2>1, <3>1, <3>2 DEF SlotHasEvent
    <3>3. CASE HasEvent(s) /\ \E how \in {"accepted", "rejected", "replayed"} :
                 status' = [status EXCEPT ![slot[s].ev] = "processed"]
      BY <1>0, <2>1, <2>4, <3>1, <3>3 DEF SlotHasEvent, OneSlotPerEvent, Settled
    <3>4. CASE RecordFault(s)
      BY <1>0, <2>1, <2>4, <3>1, <3>4 DEF RecordFault, SlotHasEvent, Settled, EventLocks, Later, Pending
    <3> QED
      BY <1>4, <3>2, <3>3, <3>4, StatusOfSlotStep
  <2> QED
    BY <2>2, <2>3, <2>4
<1>5. CASE UNCHANGED vars
  BY <1>5 DEF vars, SlotHasEvent, HasEvent
<1> QED
  BY <1>1, <1>2, <1>3, <1>4, <1>5 DEF Next, Quiet

\* Two slots never have the same event: SKIP LOCKED.
LEMMA OneSlotPerEventKept == TypeOK /\ SlotHasEvent /\ OneSlotPerEvent /\ [Next]_vars => OneSlotPerEvent'
<1> SUFFICES ASSUME TypeOK, SlotHasEvent, OneSlotPerEvent, [Next]_vars PROVE OneSlotPerEvent'
  OBVIOUS
<1>1. ASSUME NEW s \in Slots, SlotStep(s) \/ Lost(s) PROVE OneSlotPerEvent'
  <2>1. \A t \in Slots \ {s} : slot'[t] = slot[t] /\ (HasEvent(t)' <=> HasEvent(t))
    BY <1>1, OtherSlots DEF HasEvent
  <2>2. CASE Pick(s)
    <3>1. slot'[s].ev \notin EventLocks
      BY <2>2 DEF Pick, Ready, TypeOK, Idle
    <3> QED
      BY <2>1, <3>1 DEF OneSlotPerEvent, EventLocks
  <2>3. CASE ~Pick(s)
    <3>1. HasEvent(s)' => HasEvent(s) /\ slot'[s].ev = slot[s].ev
      BY <1>1, <2>3, EventLockFromPick, SameEvent DEF HasEvent
    <3> QED
      BY <2>1, <3>1 DEF OneSlotPerEvent
  <2> QED
    BY <2>2, <2>3
<1>2. CASE UNCHANGED slot
  BY <1>2 DEF OneSlotPerEvent, HasEvent
<1> QED
  BY <1>1, <1>2 DEF Next, Quiet, vars, Producer, AppendEvent, Commit, Rollback, Refuse, streamOnly,
     BackoffOver, Admin, Release
-----------------------------------------------------------------------------
(* The instance's row lock *)

\* A step of a slot takes its instance's lock, gives up what it has, or
\* leaves the locks alone and has none.
LEMMA LockOfSlotStep ==
  ASSUME TypeOK, SlotHasEvent, LockIsSlots, NEW s \in Slots, SlotStep(s) \/ Lost(s)
  PROVE  \/ slot[s].at # "locked" /\ slot'[s].at # "locked" /\ UNCHANGED lock
         \/ /\ slot[s].at \in {"picked", "claiming", "relocking"} /\ slot'[s].at = "locked"
            /\ lock[KeyOf(s)] = NoSlot /\ lock' = [lock EXCEPT ![KeyOf(s)] = s]
            /\ slot'[s].ev = slot[s].ev /\ UNCHANGED inst
            /\ (LockInstance(s) \/ InsertPlaceholder(s) \/ Relock(s))
         \/ slot'[s].at # "locked" /\ lock' = Unlocked(s)
<1> DEFINE Goal == \/ slot[s].at # "locked" /\ slot'[s].at # "locked" /\ UNCHANGED lock
                   \/ /\ slot[s].at \in {"picked", "claiming", "relocking"} /\ slot'[s].at = "locked"
                      /\ lock[KeyOf(s)] = NoSlot /\ lock' = [lock EXCEPT ![KeyOf(s)] = s]
                      /\ slot'[s].ev = slot[s].ev /\ UNCHANGED inst
                      /\ (LockInstance(s) \/ InsertPlaceholder(s) \/ Relock(s))
                   \/ slot'[s].at # "locked" /\ lock' = Unlocked(s)
<1>1. slot \in [Slots -> SlotStates] /\ slot[s] \in SlotStates
  BY DEF TypeOK
<1>2. ASSUME NEW how \in {"threw", "timedOut"}, Fail(s, how) PROVE Goal
  <2>1. slot'[s].at = how
    BY <1>1, <1>2 DEF Fail, SlotStates
  <2> QED
    BY <1>2, <2>1 DEF Fail
<1>3. CASE LockInstance(s) \/ Relock(s)
  BY <1>1, <1>3 DEF SlotStates, LockInstance, Relock, Lock, unpicked
<1>4. CASE InsertPlaceholder(s)
  BY <1>1, <1>4 DEF SlotStates, InsertPlaceholder, unpicked
<1>5. CASE RowGone(s) \/ InsertConflicts(s) \/ RelockFindsNone(s)
  BY <1>1, <1>5 DEF SlotStates, RowGone, InsertConflicts, RelockFindsNone
<1>6. CASE NothingReady(s) \/ Pick(s)
  <2>1. CASE NothingReady(s)
    BY <2>1 DEF NothingReady
  <2>2. CASE Pick(s)
    <3>1. slot[s].at # "locked" /\ UNCHANGED lock
      BY <2>2 DEF Pick
    <3>2. slot'[s].at # "locked"
      BY <1>1, <2>2 DEF Pick, Idle
    <3> QED
      BY <3>1, <3>2
  <2> QED
    BY <1>6, <2>1, <2>2
<1>7. CASE LockTimeout(s) \/ PassOver(s) \/ Lost(s)
  BY <1>1, <1>7 DEF LockTimeout, PassOver, Lost, Idle
<1>8. CASE Accept(s) \/ Reject(s) \/ Replay(s)
  BY <1>1, <1>8 DEF Accept, Reject, Replay, Finish, Idle
<1>9. CASE DealtWith(s) \/ RecordTimeout(s) \/ RecordFault(s)
  BY <1>1, <1>9 DEF DealtWith, RecordTimeout, RecordFault, EndFailure, Idle, Failed
<1> QED
  BY <1>2, <1>3, <1>4, <1>5, <1>6, <1>7, <1>8, <1>9 DEF SlotStep

\* Nothing but a slot's step changes a slot or a lock.
LEMMA SlotsOnlyStep ==
  ASSUME [Next]_vars, \A s \in Slots : ~(SlotStep(s) \/ Lost(s))
  PROVE  UNCHANGED <<slot, lock, receipt, unlocked>>
BY DEF Next, Quiet, vars, Producer, AppendEvent, Commit, Rollback, Refuse, streamOnly, BackoffOver,
       Admin, Release

\* A locked row is locked by the one slot that is deciding about it.
LEMMA LockIsSlotsKept == TypeOK /\ SlotHasEvent /\ LockIsSlots /\ [Next]_vars => LockIsSlots'
<1> SUFFICES ASSUME TypeOK, SlotHasEvent, LockIsSlots, [Next]_vars PROVE LockIsSlots'
  OBVIOUS
<1>1. ASSUME NEW s \in Slots, SlotStep(s) \/ Lost(s) PROVE LockIsSlots'
  <2>1. \A t \in Slots \ {s} : slot'[t] = slot[t] /\ KeyOf(t)' = KeyOf(t)
    BY <1>1, OtherSlots DEF KeyOf
  <2>2. lock \in [Insts -> Slots \cup {NoSlot}]
    BY DEF TypeOK
  <2>3. CASE slot[s].at # "locked" /\ slot'[s].at # "locked" /\ UNCHANGED lock
    BY <2>1, <2>2, <2>3, SlotsAssumption DEF LockIsSlots
  <2>4. CASE /\ slot[s].at # "locked" /\ slot'[s].at = "locked" /\ slot[s].at # "idle"
             /\ lock[KeyOf(s)] = NoSlot /\ lock' = [lock EXCEPT ![KeyOf(s)] = s]
             /\ slot'[s].ev = slot[s].ev
    <3>1. KeyOf(s) \in Insts /\ KeyOf(s)' = KeyOf(s)
      BY <2>4, StreamAssumption DEF KeyOf, SlotHasEvent
    <3> QED
      BY <2>1, <2>2, <2>4, <3>1, SlotsAssumption DEF LockIsSlots
  <2>5. CASE slot'[s].at # "locked" /\ lock' = Unlocked(s)
    <3>1. ASSUME NEW t \in Slots, slot'[t].at = "locked" PROVE lock'[KeyOf(t)'] = t
      <4>1. t # s /\ slot[t].at = "locked" /\ KeyOf(t)' = KeyOf(t) /\ lock[KeyOf(t)] = t
        BY <2>1, <2>5, <3>1 DEF LockIsSlots
      <4>2. KeyOf(t) \in Insts
        BY <4>1, StreamAssumption DEF KeyOf, SlotHasEvent
      <4> QED
        BY <2>5, <4>1, <4>2 DEF Unlocked
    <3> QED
      BY <2>1, <2>2, <2>5, <3>1, SlotsAssumption DEF LockIsSlots, Unlocked
  <2> QED
    BY <1>1, <2>3, <2>4, <2>5, LockOfSlotStep
<1>2. CASE UNCHANGED <<slot, lock>>
  BY <1>2 DEF LockIsSlots, KeyOf
<1> QED
  BY <1>1, <1>2, SlotsOnlyStep

\* A slot writes one row at most, its instance's, which no other has locked.
LEMMA RowOfSlotStep ==
  ASSUME TypeOK, SlotHasEvent, LockIsSlots, NEW s \in Slots, SlotStep(s) \/ Lost(s)
  PROVE  \/ UNCHANGED inst
         \/ /\ \A j \in Insts \ {KeyOf(s)} : inst'[j] = inst[j]
            /\ lock[KeyOf(s)] \in {NoSlot, s} /\ slot'[s].at = "idle"
            /\ Accept(s) \/ Reject(s) \/ Replay(s) \/ RecordTimeout(s) \/ RecordFault(s)
<1>1. inst \in [Insts -> Rows] /\ slot \in [Slots -> SlotStates] /\ slot[s] \in SlotStates
  BY DEF TypeOK
<1>2. CASE Accept(s)
  BY <1>1, <1>2 DEF Accept, Finish, MayWrite, Idle
<1>3. CASE Reject(s) \/ Replay(s)
  <2>1. KeyOf(s) \in Insts
    BY <1>3, StreamAssumption DEF Reject, Replay, Deciding, SlotHasEvent, KeyOf
  <2>2. CASE slot[s].at = "bare"
    BY <1>1, <1>3, <2>1, <2>2 DEF Reject, Replay, Unchanged
  <2>3. CASE slot[s].at = "locked"
    BY <1>1, <1>3, <2>3 DEF Reject, Replay, Finish, LockIsSlots, Idle
  <2> QED
    BY <1>3, <2>2, <2>3 DEF Reject, Replay, Deciding
<1>4. CASE RecordTimeout(s)
  BY <1>1, <1>4 DEF RecordTimeout, EndFailure, Idle, KeyOf
<1>5. CASE RecordFault(s)
  BY <1>1, <1>5 DEF RecordFault, EndFailure, Idle, KeyOf
<1> QED
  BY <1>2, <1>3, <1>4, <1>5 DEF SlotStep, Lost, Pick, NothingReady, LockInstance, RowGone,
     InsertPlaceholder, InsertConflicts, Relock, RelockFindsNone, LockTimeout, PassOver, Fail,
     DealtWith, unpicked

\* An admin's release writes a flagged row that no slot has locked.
LEMMA RowOfRelease ==
  ASSUME TypeOK, NEW k \in Insts, Admin(k)
  PROVE  /\ lock[k] = NoSlot /\ inst[k].flag = "faulted"
         /\ \A j \in Insts \ {k} : inst'[j] = inst[j]
         /\ inst'[k] = [inst[k] EXCEPT !.flag = "none", !.blame = NoEvent]
         /\ UNCHANGED <<slot, lock, receipt, unlocked, before>>
<1>1. inst[k] \in Rows
  BY DEF TypeOK
<1> QED
  BY <1>1 DEF Admin, Release, TypeOK, Rows

\* Nothing but a slot's step or a release changes a row.
LEMMA RowsOnlyStep ==
  ASSUME [Next]_vars, \A s \in Slots : ~(SlotStep(s) \/ Lost(s)), \A k \in Insts : ~Admin(k)
  PROVE  UNCHANGED <<inst, slot, lock, receipt, unlocked>>
BY DEF Next, Quiet, vars, Producer, AppendEvent, Commit, Rollback, Refuse, streamOnly, BackoffOver

\* A slot with the lock decides on the row as it is.
LEMMA ViewIsRowKept ==
  TypeOK /\ SlotHasEvent /\ LockIsSlots /\ ViewIsRow /\ [Next]_vars => ViewIsRow'
<1> SUFFICES ASSUME TypeOK, SlotHasEvent, LockIsSlots, ViewIsRow, [Next]_vars PROVE ViewIsRow'
  OBVIOUS
<1> USE StreamAssumption, SlotsAssumption
<1>1. inst \in [Insts -> Rows] /\ slot \in [Slots -> SlotStates]
  BY DEF TypeOK
<1>2. ASSUME NEW s \in Slots, SlotStep(s) \/ Lost(s) PROVE ViewIsRow'
  <2>1. ASSUME NEW t \in Slots \ {s}, slot'[t].at = "locked"
        PROVE  \/ inst'[KeyOf(t)'].row /\ slot'[t].view = inst'[KeyOf(t)']
               \/ ~inst'[KeyOf(t)'].row /\ slot'[t].view = Placeholder(t)
    <3>1. slot'[t] = slot[t] /\ KeyOf(t)' = KeyOf(t) /\ KeyOf(t) \in Insts
      BY <1>2, <2>1, OtherSlots DEF KeyOf, SlotHasEvent
    <3>2. lock[KeyOf(t)] = t
      BY <2>1, <3>1 DEF LockIsSlots
    <3>3. inst'[KeyOf(t)] = inst[KeyOf(t)]
      BY <1>2, <2>1, <3>1, <3>2, RowOfSlotStep
    <3> QED
      BY <2>1, <3>1, <3>3 DEF ViewIsRow
  <2>2. ASSUME slot'[s].at = "locked"
        PROVE  \/ inst'[KeyOf(s)'].row /\ slot'[s].view = inst'[KeyOf(s)']
               \/ ~inst'[KeyOf(s)'].row /\ slot'[s].view = Placeholder(s)
    <3>1. /\ LockInstance(s) \/ InsertPlaceholder(s) \/ Relock(s)
          /\ UNCHANGED inst /\ KeyOf(s)' = KeyOf(s)
      BY <1>2, <2>2, LockOfSlotStep DEF KeyOf
    <3>2. CASE LockInstance(s) \/ Relock(s)
      BY <1>1, <3>1, <3>2 DEF LockInstance, Relock, Lock, SlotStates
    <3>3. CASE InsertPlaceholder(s)
      BY <1>1, <3>1, <3>3 DEF InsertPlaceholder, SlotStates
    <3> QED
      BY <3>1, <3>2, <3>3
  <2> QED
    BY <2>1, <2>2 DEF ViewIsRow, Placeholder
<1>3. ASSUME NEW k \in Insts, Admin(k) PROVE ViewIsRow'
  <2>0. lock[k] = NoSlot /\ slot' = slot /\ \A j \in Insts \ {k} : inst'[j] = inst[j]
    BY <1>3, RowOfRelease
  <2>1. ASSUME NEW t \in Slots, slot[t].at = "locked" PROVE inst'[KeyOf(t)] = inst[KeyOf(t)]
    <3>1. KeyOf(t) \in Insts /\ lock[KeyOf(t)] = t
      BY <2>1 DEF LockIsSlots, KeyOf, SlotHasEvent
    <3> QED
      BY <2>0, <3>1
  <2>2. \A t \in Slots : KeyOf(t)' = KeyOf(t)
    BY <2>0 DEF KeyOf
  <2> QED
    BY <2>0, <2>1, <2>2 DEF ViewIsRow, Placeholder
<1> QED
  BY <1>2, <1>3, RowsOnlyStep DEF ViewIsRow, KeyOf, Placeholder

\* No row is no state, and a slot without the lock keeps no copy of one.
LEMMA NoRowIsAbsentKept ==
  TypeOK /\ SlotHasEvent /\ LockIsSlots /\ ViewIsRow /\ NoRowIsAbsent /\ [Next]_vars => NoRowIsAbsent'
<1> SUFFICES ASSUME TypeOK, SlotHasEvent, LockIsSlots, ViewIsRow, NoRowIsAbsent, [Next]_vars
             PROVE  NoRowIsAbsent'
  OBVIOUS
<1> USE StreamAssumption, SlotsAssumption
<1>1. inst \in [Insts -> Rows] /\ slot \in [Slots -> SlotStates] /\ inst' \in [Insts -> Rows]
  BY NextTyped DEF TypeOK
<1>2. ASSUME NEW s \in Slots, SlotStep(s) \/ Lost(s) PROVE NoRowIsAbsent'
  <2> DEFINE k == KeyOf(s)
  <2>1. \A t \in Slots \ {s} : slot'[t] = slot[t] /\ KeyOf(t)' = KeyOf(t)
    BY <1>2, OtherSlots DEF KeyOf
  <2>2. unlocked \subseteq unlocked'
    BY <1>2 DEF SlotStep, Lost, Pick, NothingReady, LockInstance, RowGone,
         InsertPlaceholder, InsertConflicts, Relock, RelockFindsNone, LockTimeout, PassOver, Fail,
         Accept, Reject, Replay, Finish, DealtWith, RecordTimeout, RecordFault, EndFailure, unpicked
  <2>3. slot[s].at # "idle" => k \in Insts
    BY DEF KeyOf, SlotHasEvent
  <2>4. \A j \in Insts : ~inst'[j].row => inst'[j] = Absent
    <3>1. CASE UNCHANGED inst
      BY <3>1 DEF NoRowIsAbsent
    <3>2. CASE Accept(s)
      BY <1>1, <3>2 DEF Accept, NoRowIsAbsent
    <3>3. CASE Reject(s) \/ Replay(s)
      <4>1. ~Unchanged(s).row => Unchanged(s) = Absent
        <5>1. k \in Insts /\ inst[k] \in Rows
          BY <1>1, <2>3, <3>3 DEF Reject, Replay, Deciding
        <5>2. CASE slot[s].at = "bare"
          BY <5>1, <5>2 DEF Unchanged, NoRowIsAbsent
        <5>3. CASE slot[s].at # "bare" /\ slot[s].view.ver = 0
          BY <5>3 DEF Unchanged
        <5>4. CASE slot[s].at # "bare" /\ slot[s].view.ver # 0
          <6>1. slot[s].at = "locked"
            BY <3>3, <5>4 DEF Reject, Replay, Deciding
          <6>2. inst[k].row
            BY <5>4, <6>1 DEF ViewIsRow, Placeholder, Absent
          <6> QED
            BY <5>1, <5>4, <6>2 DEF Unchanged, Rows
        <5> QED
          BY <5>2, <5>3, <5>4
      <4> QED
        BY <1>1, <3>3, <4>1 DEF Reject, Replay, NoRowIsAbsent
    <3>4. \A flag \in Flags : k \in Insts => Flagged(s, flag).row
      BY <1>1 DEF Flagged, Rows, Placeholder, Absent
    <3>5. CASE RecordTimeout(s)
      BY <1>1, <3>4, <3>5 DEF RecordTimeout, NoRowIsAbsent, Flags, KeyOf
    <3>6. CASE RecordFault(s)
      BY <1>1, <3>4, <3>6 DEF RecordFault, NoRowIsAbsent, Flags, KeyOf
    <3> QED
      BY <1>2, <3>1, <3>2, <3>3, <3>5, <3>6, RowOfSlotStep
  <2> DEFINE Goal == /\ slot'[s].at = "bare" => KeyOf(s)' \in unlocked'
                     /\ slot'[s].at # "locked" => slot'[s].view = Absent
  <2>5. Goal
    <3>1. slot[s] \in SlotStates
      BY <1>1
    <3>2. CASE slot'[s] = Idle
      BY <3>2 DEF Idle
    <3>3. CASE LockInstance(s) \/ Relock(s)
      BY <1>1, <3>1, <3>3 DEF LockInstance, Relock, Lock, SlotStates
    <3>4. CASE InsertPlaceholder(s) \/ InsertConflicts(s) \/ RowGone(s)
      BY <1>1, <3>1, <3>4 DEF InsertPlaceholder, InsertConflicts, RowGone, SlotStates, NoRowIsAbsent
    <3>5. CASE RelockFindsNone(s)
      BY <1>1, <3>1, <3>5 DEF RelockFindsNone, SlotStates, NoRowIsAbsent, KeyOf
    <3>6. CASE Pick(s)
      BY <1>1, <3>6 DEF Pick, Idle
    <3>7. ASSUME NEW how \in {"threw", "timedOut"}, Fail(s, how) PROVE Goal
      BY <1>1, <3>1, <3>7 DEF Fail, SlotStates
    <3>8. CASE NothingReady(s)
      BY <1>1, <3>8 DEF NothingReady, NoRowIsAbsent
    <3> QED
      BY <1>1, <1>2, <3>2, <3>3, <3>4, <3>5, <3>6, <3>7, <3>8
        DEF SlotStep, Lost, LockTimeout, PassOver, Accept, Reject, Replay, Finish,
            DealtWith, RecordTimeout, RecordFault, EndFailure
  <2> QED
    BY <2>1, <2>2, <2>4, <2>5 DEF NoRowIsAbsent
<1>3. ASSUME NEW k \in Insts, Admin(k) PROVE NoRowIsAbsent'
  <2>0. inst[k].flag = "faulted"
    BY <1>3, RowOfRelease
  <2>1. inst[k].row
    BY <2>0 DEF NoRowIsAbsent, Absent
  <2>2. inst'[k].row
    <3>1. inst'[k] = [inst[k] EXCEPT !.flag = "none", !.blame = NoEvent]
      BY <1>3, RowOfRelease
    <3>2. inst[k] \in Rows
      BY <1>1
    <3> QED
      BY <2>1, <3>1, <3>2 DEF Rows
  <2>3. \A j \in Insts : ~inst'[j].row => inst'[j] = Absent
    <3>1. \A j \in Insts \ {k} : inst'[j] = inst[j]
      BY <1>3, RowOfRelease
    <3>2. \A j \in Insts : ~inst[j].row => inst[j] = Absent
      BY DEF NoRowIsAbsent
    <3> QED
      BY <2>2, <3>1, <3>2
  <2>4. UNCHANGED <<slot, unlocked>>
    BY <1>3, RowOfRelease
  <2> QED
    BY <2>3, <2>4 DEF NoRowIsAbsent, KeyOf
<1>4. CASE UNCHANGED <<inst, slot, unlocked>>
  BY <1>4 DEF NoRowIsAbsent, KeyOf
<1> QED
  BY <1>2, <1>3, <1>4, RowsOnlyStep
-----------------------------------------------------------------------------
(* Decisions and receipts *)

\* What a producer or a release does to the status and result of events.
LEMMA StatusOfOthers ==
  ASSUME TypeOK, [Next]_vars, \A s \in Slots : ~(SlotStep(s) \/ Lost(s))
  PROVE  \/ UNCHANGED <<status, result>>
         \/ \E e \in Events :
              \/ /\ status[e] = "unsent" /\ result' = result
                 /\ status' = [status EXCEPT ![e] = "open"]
              \/ /\ status[e] = "open" /\ result' = result
                 /\ \E to \in {"pending", "dropped"} : status' = [status EXCEPT ![e] = to]
              \/ /\ status[e] = "pending" /\ e \notin EventLocks
                 /\ status' = [status EXCEPT ![e] = "processed"]
                 /\ result' = [result EXCEPT ![e] = "refused"]
         \/ \E k \in Insts, mode \in {"retry", "skip"} : Release(k, mode)
<1>1. CASE \E e \in Events : Producer(e)
  BY <1>1 DEF Producer, AppendEvent, Commit, Rollback, Refuse
<1>2. CASE \E e \in Events : BackoffOver(e)
  BY <1>2 DEF BackoffOver
<1>3. CASE \E k \in Insts : Admin(k)
  BY <1>3 DEF Admin
<1> QED
  BY <1>1, <1>2, <1>3 DEF Next, Quiet, vars

\* Only a processed event has a result.
LEMMA ResultIsStatusKept ==
  TypeOK /\ SlotHasEvent /\ ResultIsStatus /\ [Next]_vars => ResultIsStatus'
<1> SUFFICES ASSUME TypeOK, SlotHasEvent, ResultIsStatus, [Next]_vars PROVE ResultIsStatus'
  OBVIOUS
<1>0. status \in [Events -> Statuses] /\ result \in [Events -> Results]
  BY DEF TypeOK
<1>1. CASE UNCHANGED <<status, result>>
  BY <1>1 DEF ResultIsStatus
<1>2. ASSUME NEW s \in Slots, SlotStep(s) \/ Lost(s) PROVE ResultIsStatus'
  <2>1. CASE RecordFault(s)
    BY <1>0, <2>1 DEF RecordFault, ResultIsStatus, Later, Pending
  <2> QED
    BY <1>0, <1>1, <1>2, <2>1, StatusOfSlotStep DEF ResultIsStatus
<1>3. ASSUME NEW k \in Insts, NEW mode \in {"retry", "skip"}, Release(k, mode) PROVE ResultIsStatus'
  BY <1>0, <1>3 DEF Release, ResultIsStatus
<1>4. ASSUME NEW e \in Events, status[e] \in {"unsent", "open"}, result' = result,
             NEW to \in {"open", "pending", "dropped"}, status' = [status EXCEPT ![e] = to]
      PROVE  ResultIsStatus'
  BY <1>0, <1>4 DEF ResultIsStatus
<1>5. ASSUME NEW e \in Events, status' = [status EXCEPT ![e] = "processed"],
             result' = [result EXCEPT ![e] = "refused"]
      PROVE  ResultIsStatus'
  BY <1>0, <1>5 DEF ResultIsStatus
<1> QED
  BY <1>1, <1>2, <1>3, <1>4, <1>5, StatusOfOthers

\* A decision stands: no step changes the result of an event that is
\* accepted, rejected, replayed or refused.
LEMMA DecisionStands ==
  ASSUME TypeOK, SlotHasEvent, ResultIsStatus, [Next]_vars,
         NEW e \in Events, result[e] \notin {"none", "faulted"}
  PROVE  result'[e] = result[e] /\ status'[e] = "processed"
<1>0. status \in [Events -> Statuses] /\ result \in [Events -> Results] /\ status[e] = "processed"
  BY DEF TypeOK, ResultIsStatus
<1>1. ASSUME NEW s \in Slots, SlotStep(s) \/ Lost(s) PROVE result'[e] = result[e] /\ status'[e] = "processed"
  <2>1. CASE RecordFault(s)
    BY <1>0, <2>1 DEF RecordFault, Later, Pending, Current
  <2>2. ASSUME HasEvent(s), NEW how \in {"accepted", "rejected", "replayed"},
               status' = [status EXCEPT ![slot[s].ev] = "processed"],
               result' = [result EXCEPT ![slot[s].ev] = how]
        PROVE  result'[e] = result[e] /\ status'[e] = "processed"
    <3>1. slot[s].ev # e
      BY <1>0, <2>2 DEF SlotHasEvent, HasEvent
    <3> QED
      BY <1>0, <2>2, <3>1
  <2> QED
    BY <1>0, <1>1, <2>1, <2>2, StatusOfSlotStep
<1>2. ASSUME NEW k \in Insts, NEW mode \in {"retry", "skip"}, Release(k, mode)
      PROVE  result'[e] = result[e] /\ status'[e] = "processed"
  BY <1>0, <1>2 DEF Release
<1> QED
  BY <1>0, <1>1, <1>2, StatusOfOthers

\* An event is accepted by the slot that has it and by no other step.
LEMMA AcceptedBySlot ==
  ASSUME TypeOK, SlotHasEvent, ResultIsStatus, [Next]_vars,
         NEW e \in Events, result'[e] = "accepted", result[e] # "accepted"
  PROVE  \E s \in Slots : Accept(s) /\ slot[s].ev = e
<1>0. status \in [Events -> Statuses] /\ result \in [Events -> Results]
  BY DEF TypeOK
<1>1. ASSUME NEW s \in Slots, SlotStep(s) \/ Lost(s) PROVE Accept(s) /\ slot[s].ev = e
  <2>1. ASSUME NEW how \in {"rejected", "replayed"}, Finish(s, how) PROVE FALSE
    BY <1>0, <2>1 DEF Finish
  <2>2. CASE RecordFault(s)
    BY <1>0, <2>2 DEF RecordFault
  <2>3. CASE Accept(s)
    BY <1>0, <2>3 DEF Accept, Finish
  <2> QED
    BY <1>1, <2>1, <2>2, <2>3 DEF SlotStep, Lost, Pick, NothingReady, LockInstance, RowGone,
       InsertPlaceholder, InsertConflicts, Relock, RelockFindsNone, LockTimeout, PassOver, Fail,
       DealtWith, RecordTimeout, unpicked, Reject, Replay
<1>2. ASSUME NEW k \in Insts, NEW mode \in {"retry", "skip"}, Release(k, mode) PROVE FALSE
  BY <1>0, <1>2 DEF Release
<1> QED
  BY <1>0, <1>1, <1>2, StatusOfOthers

\* Receipts are written by an accepted event alone, under its own key.
LEMMA ReceiptWrite ==
  ASSUME TypeOK, [Next]_vars
  PROVE  \/ UNCHANGED receipt
         \/ \E s \in Slots :
              /\ Accept(s)
              /\ receipt' = [receipt EXCEPT ![KeyOf(s)][ReqOf[slot[s].ev]] = slot[s].ev]
<1>1. ASSUME NEW s \in Slots, SlotStep(s) \/ Lost(s), ~Accept(s) PROVE UNCHANGED receipt
  BY <1>1 DEF SlotStep, Lost, Pick, NothingReady, LockInstance, RowGone,
       InsertPlaceholder, InsertConflicts, Relock, RelockFindsNone, LockTimeout, PassOver, Fail,
       DealtWith, RecordTimeout, RecordFault, EndFailure, unpicked, Reject, Replay
<1> QED
  BY <1>1, SlotsOnlyStep DEF Accept

\* What Accept does to its event and its instance.
LEMMA AcceptSteps ==
  ASSUME TypeOK, SlotHasEvent, ResultIsStatus, NEW s \in Slots, Accept(s)
  PROVE  /\ slot[s].ev \in Events /\ KeyOf(s) \in Insts /\ ReqOf[slot[s].ev] \in Reqs
         /\ InstOf[slot[s].ev] = KeyOf(s)
         /\ status[slot[s].ev] = "pending" /\ result[slot[s].ev] = "none"
         /\ result' = [result EXCEPT ![slot[s].ev] = "accepted"]
         /\ receipt[KeyOf(s)][ReqOf[slot[s].ev]] = NoEvent
         /\ unlocked' = unlocked
<1>1. slot[s].at \in {"locked", "bare"}
  BY DEF Accept, Deciding
<1>2. slot[s].ev \in Events /\ status[slot[s].ev] = "pending"
  BY <1>1 DEF SlotHasEvent, HasEvent
<1>3. result[slot[s].ev] = "none"
  BY <1>2 DEF ResultIsStatus
<1> QED
  BY <1>2, <1>3, StreamAssumption DEF Accept, Finish, Receipt, KeyOf

\* A receipt names the one event accepted under its key.
LEMMA ReceiptIsAcceptedKept ==
  TypeOK /\ SlotHasEvent /\ ResultIsStatus /\ ReceiptIsAccepted /\ [Next]_vars => ReceiptIsAccepted'
<1> SUFFICES ASSUME TypeOK, SlotHasEvent, ResultIsStatus, ReceiptIsAccepted, [Next]_vars
             PROVE  ReceiptIsAccepted'
  OBVIOUS
<1> USE StreamAssumption, EventsAssumption DEF NoEvent
<1>0. result \in [Events -> Results] /\ receipt \in [Insts -> [Reqs -> Events \cup {NoEvent}]]
  BY DEF TypeOK
<1>1. \A e \in Events : result[e] = "accepted" => result'[e] = "accepted"
  BY DecisionStands
<1>2. CASE \E s \in Slots : Accept(s)
  <2> PICK s \in Slots : Accept(s)
    BY <1>2
  <2> DEFINE e == slot[s].ev
  <2>1. /\ e \in Events /\ KeyOf(s) \in Insts /\ ReqOf[e] \in Reqs /\ InstOf[e] = KeyOf(s)
        /\ result[e] = "none" /\ result' = [result EXCEPT ![e] = "accepted"]
        /\ receipt[KeyOf(s)][ReqOf[e]] = NoEvent
        /\ receipt' = [receipt EXCEPT ![KeyOf(s)][ReqOf[e]] = e]
    BY AcceptSteps DEF Accept
  <2> HIDE DEF e
  <2>2. \A d \in Events : result'[d] = "accepted" => receipt'[InstOf[d]][ReqOf[d]] = d
    <3> SUFFICES ASSUME NEW d \in Events, result'[d] = "accepted"
                 PROVE  receipt'[InstOf[d]][ReqOf[d]] = d
      OBVIOUS
    <3>1. CASE d = e
      BY <1>0, <2>1, <3>1
    <3>2. CASE d # e
      <4>1. result[d] = "accepted" /\ receipt[InstOf[d]][ReqOf[d]] = d /\ d # NoEvent
        BY <1>0, <2>1, <3>2 DEF ReceiptIsAccepted
      <4>2. ~(InstOf[d] = KeyOf(s) /\ ReqOf[d] = ReqOf[e])
        BY <2>1, <4>1
      <4> QED
        BY <1>0, <2>1, <4>1, <4>2
    <3> QED
      BY <3>1, <3>2
  <2>3. ASSUME NEW k \in Insts, NEW r \in Reqs, receipt'[k][r] # NoEvent
        PROVE  /\ InstOf[receipt'[k][r]] = k /\ ReqOf[receipt'[k][r]] = r
               /\ result'[receipt'[k][r]] = "accepted"
    <3>1. CASE k = KeyOf(s) /\ r = ReqOf[e]
      BY <1>0, <2>1, <3>1
    <3>2. CASE ~(k = KeyOf(s) /\ r = ReqOf[e])
      <4>1. receipt'[k][r] = receipt[k][r] /\ receipt[k][r] \in Events
        BY <1>0, <2>1, <2>3, <3>2
      <4>2. /\ InstOf[receipt[k][r]] = k /\ ReqOf[receipt[k][r]] = r
            /\ result[receipt[k][r]] = "accepted"
        BY <2>3, <4>1 DEF ReceiptIsAccepted
      <4> QED
        BY <1>1, <4>1, <4>2
    <3> QED
      BY <3>1, <3>2
  <2> QED
    BY <2>2, <2>3 DEF ReceiptIsAccepted
<1>3. CASE ~\E s \in Slots : Accept(s)
  <2>1. receipt' = receipt /\ \A e \in Events : result'[e] = "accepted" <=> result[e] = "accepted"
    BY <1>1, <1>3, ReceiptWrite, AcceptedBySlot
  <2>2. \A k \in Insts, r \in Reqs : receipt[k][r] \in Events \cup {NoEvent}
    BY <1>0
  <2> QED
    BY <2>1, <2>2 DEF ReceiptIsAccepted
<1> QED
  BY <1>2, <1>3
-----------------------------------------------------------------------------
(* No update is lost *)

\* An instance on the unlocked list stays on it.
LEMMA UnlockedGrows == ASSUME [Next]_vars PROVE unlocked \subseteq unlocked'
<1>1. ASSUME NEW s \in Slots, SlotStep(s) \/ Lost(s) PROVE unlocked \subseteq unlocked'
  BY <1>1 DEF SlotStep, Lost, Pick, NothingReady, LockInstance, RowGone,
       InsertPlaceholder, InsertConflicts, Relock, RelockFindsNone, LockTimeout, PassOver, Fail,
       Accept, Reject, Replay, Finish, DealtWith, RecordTimeout, RecordFault, EndFailure, unpicked
<1> QED
  BY <1>1, SlotsOnlyStep

\* What a slot that has the lock decides from is the instance's content, and
\* the flag its row carries; its placeholder stands for no row at all.
LEMMA ViewContent ==
  ASSUME TypeOK, SlotHasEvent, ViewIsRow, NoRowIsAbsent, NEW s \in Slots, slot[s].at = "locked"
  PROVE  /\ slot[s].view.data = inst[KeyOf(s)].data /\ slot[s].view.ver = inst[KeyOf(s)].ver
         /\ slot[s].view.flag = inst[KeyOf(s)].flag
         /\ KeyOf(s) \in Insts
<1>1. KeyOf(s) \in Insts
  BY StreamAssumption DEF SlotHasEvent, KeyOf
<1>2. CASE slot[s].view = inst[KeyOf(s)]
  BY <1>1, <1>2
<1>3. CASE ~inst[KeyOf(s)].row /\ slot[s].view = Placeholder(s)
  <2>1. inst[KeyOf(s)] = Absent
    BY <1>1, <1>3 DEF NoRowIsAbsent
  <2> QED
    BY <1>1, <1>3, <2>1 DEF Placeholder, Absent
<1> QED
  BY <1>2, <1>3 DEF ViewIsRow

\* But for an accepted event, no step changes the content of a row.
LEMMA ContentKept ==
  ASSUME TypeOK, SlotInv, NoLostUpdate, AcceptedAreFinite, [Next]_vars,
         NEW k \in Insts, k \notin unlocked, \A s \in Slots : ~(Accept(s) /\ KeyOf(s) = k)
  PROVE  inst'[k].data = inst[k].data /\ inst'[k].ver = inst[k].ver
<1> USE StreamAssumption DEF SlotInv
<1>0. inst \in [Insts -> Rows] /\ inst[k] \in Rows
  BY DEF TypeOK
<1>1. ASSUME NEW s \in Slots, SlotStep(s) \/ Lost(s)
      PROVE  inst'[k].data = inst[k].data /\ inst'[k].ver = inst[k].ver
  <2>1. CASE inst'[k] = inst[k]
    BY <2>1
  <2>2. CASE inst'[k] # inst[k]
    <3>1. /\ KeyOf(s) = k
          /\ Reject(s) \/ Replay(s) \/ RecordTimeout(s) \/ RecordFault(s)
      BY <1>1, <2>2, RowOfSlotStep
    <3>2. ASSUME NEW flag \in Flags
          PROVE  Flagged(s, flag).data = inst[k].data /\ Flagged(s, flag).ver = inst[k].ver
      BY <1>0, <3>1 DEF Flagged, Rows, Placeholder, Absent, NoRowIsAbsent
    <3>3. CASE Reject(s) \/ Replay(s)
      <4>1. slot[s].at = "locked" /\ inst'[k] = Unchanged(s)
        BY <1>0, <3>1, <3>3 DEF Reject, Replay, Deciding, NoRowIsAbsent
      <4>2. slot[s].view.ver = inst[k].ver
        BY <3>1, <4>1, ViewContent
      <4>3. CASE inst[k].ver = 0
        <5>1. AcceptedOf(k) = {} /\ inst[k].data = AcceptedOf(k)
          BY <4>3, FS_EmptySet DEF NoLostUpdate, AcceptedAreFinite
        <5> QED
          BY <3>1, <4>1, <4>2, <4>3, <5>1 DEF Unchanged, Absent
      <4>4. CASE inst[k].ver # 0
        BY <1>0, <3>1, <4>1, <4>2, <4>4 DEF Unchanged, Rows
      <4> QED
        BY <4>3, <4>4
    <3>4. CASE RecordTimeout(s)
      BY <1>0, <3>1, <3>2, <3>4 DEF RecordTimeout, Flags, KeyOf
    <3>5. CASE RecordFault(s)
      BY <1>0, <3>1, <3>2, <3>5 DEF RecordFault, Flags, KeyOf
    <3> QED
      BY <3>1, <3>3, <3>4, <3>5
  <2> QED
    BY <2>1, <2>2
<1>2. ASSUME NEW j \in Insts, Admin(j)
      PROVE  inst'[k].data = inst[k].data /\ inst'[k].ver = inst[k].ver
  <2>1. \/ inst'[k] = inst[k]
        \/ inst'[k] = [inst[k] EXCEPT !.flag = "none", !.blame = NoEvent]
    BY <1>2, RowOfRelease
  <2> QED
    BY <1>0, <2>1 DEF Rows
<1> QED
  BY <1>1, <1>2, RowsOnlyStep

\* Accepting an event on the row it has adds that event to the content.
LEMMA AcceptContent ==
  ASSUME TypeOK, SlotInv, ResultIsStatus, NEW s \in Slots, Accept(s), KeyOf(s) \notin unlocked
  PROVE  /\ slot[s].at = "locked"
         /\ inst'[KeyOf(s)].data = inst[KeyOf(s)].data \cup {slot[s].ev}
         /\ inst'[KeyOf(s)].ver = inst[KeyOf(s)].ver + 1
         /\ inst'[KeyOf(s)].mver = Version[s] /\ inst'[KeyOf(s)].flag = "none"
<1> USE DEF SlotInv
<1>1. slot[s].at = "locked"
  BY DEF Accept, Deciding, NoRowIsAbsent
<1>2. inst \in [Insts -> Rows]
  BY DEF TypeOK
<1> QED
  BY <1>1, <1>2, ViewContent DEF Accept

\* How the accepted events of an instance grow.
LEMMA AcceptedGrow ==
  ASSUME TypeOK, SlotHasEvent, ResultIsStatus, [Next]_vars, NEW k \in Insts
  PROVE  \/ AcceptedOf(k)' = AcceptedOf(k) /\ \A s \in Slots : ~(Accept(s) /\ KeyOf(s) = k)
         \/ \E s \in Slots : /\ Accept(s) /\ KeyOf(s) = k
                             /\ slot[s].ev \in Events \ AcceptedOf(k)
                             /\ AcceptedOf(k)' = AcceptedOf(k) \cup {slot[s].ev}
<1>0. result \in [Events -> Results]
  BY DEF TypeOK
<1>1. CASE \E s \in Slots : Accept(s) /\ KeyOf(s) = k
  <2> PICK s \in Slots : Accept(s) /\ KeyOf(s) = k
    BY <1>1
  <2> QED
    BY <1>0, AcceptSteps DEF AcceptedOf
<1>2. CASE \A s \in Slots : ~(Accept(s) /\ KeyOf(s) = k)
  <2>1. ASSUME NEW e \in Events, InstOf[e] = k PROVE result'[e] = "accepted" <=> result[e] = "accepted"
    BY <1>2, <2>1, DecisionStands, AcceptedBySlot DEF KeyOf
  <2> QED
    BY <1>2, <2>1 DEF AcceptedOf
<1> QED
  BY <1>1, <1>2

\* The accepted events of an instance are finitely many.
LEMMA AcceptedAreFiniteKept ==
  TypeOK /\ SlotHasEvent /\ ResultIsStatus /\ AcceptedAreFinite /\ [Next]_vars => AcceptedAreFinite'
<1> SUFFICES ASSUME TypeOK, SlotHasEvent, ResultIsStatus, AcceptedAreFinite, [Next]_vars,
                    NEW k \in Insts
             PROVE  IsFiniteSet(AcceptedOf(k)')
  BY DEF AcceptedAreFinite
<1>1. IsFiniteSet(AcceptedOf(k))
  BY DEF AcceptedAreFinite
<1> HIDE DEF AcceptedOf
<1> QED
  BY <1>1, AcceptedGrow, FS_AddElement

\* An instance's row keeps every accepted event.
LEMMA NoLostUpdateKept ==
  TypeOK /\ SlotInv /\ ResultIsStatus /\ AcceptedAreFinite /\ NoLostUpdate /\ [Next]_vars
    => NoLostUpdate'
<1> SUFFICES ASSUME TypeOK, SlotInv, ResultIsStatus, AcceptedAreFinite, NoLostUpdate, [Next]_vars,
                    NEW k \in Insts, k \notin unlocked'
             PROVE  inst'[k].data = AcceptedOf(k)' /\ inst'[k].ver = Cardinality(AcceptedOf(k)')
  BY DEF NoLostUpdate
<1>1. /\ k \notin unlocked /\ SlotHasEvent
      /\ inst[k].data = AcceptedOf(k) /\ inst[k].ver = Cardinality(AcceptedOf(k))
      /\ IsFiniteSet(AcceptedOf(k))
  BY UnlockedGrows DEF NoLostUpdate, AcceptedAreFinite, SlotInv
<1>2. CASE AcceptedOf(k)' = AcceptedOf(k) /\ \A s \in Slots : ~(Accept(s) /\ KeyOf(s) = k)
  BY <1>1, <1>2, ContentKept
<1>3. ASSUME NEW s \in Slots, Accept(s), KeyOf(s) = k, slot[s].ev \in Events \ AcceptedOf(k),
             AcceptedOf(k)' = AcceptedOf(k) \cup {slot[s].ev}
      PROVE  inst'[k].data = AcceptedOf(k)' /\ inst'[k].ver = Cardinality(AcceptedOf(k)')
  <2>1. inst'[k].data = AcceptedOf(k) \cup {slot[s].ev} /\ inst'[k].ver = Cardinality(AcceptedOf(k)) + 1
    BY <1>1, <1>3, AcceptContent
  <2>2. Cardinality(AcceptedOf(k) \cup {slot[s].ev}) = Cardinality(AcceptedOf(k)) + 1
    BY <1>1, <1>3, FS_AddElement
  <2> QED
    BY <1>3, <2>1, <2>2
<1> QED
  BY <1>1, <1>2, <1>3, AcceptedGrow
-----------------------------------------------------------------------------
(* Receipts are read in time *)

\* A slot waiting for a row can tell whether a receipt was written meanwhile.
LEMMA SnapshotTellsKept ==
  TypeOK /\ SlotInv /\ EventInv /\ NoLostUpdate /\ SnapshotTells /\ [Next]_vars => SnapshotTells'
<1> SUFFICES ASSUME TypeOK, SlotInv, EventInv, NoLostUpdate, SnapshotTells, [Next]_vars,
                    NEW t \in Slots, slot'[t].at = "picked", KeyOf(t)' \notin unlocked'
             PROVE  /\ slot'[t].seen <= inst'[KeyOf(t)'].ver
                    /\ (slot'[t].rcpt = NoEvent /\ Receipt(t)' # NoEvent)
                         => slot'[t].seen < inst'[KeyOf(t)'].ver
  BY DEF SnapshotTells
<1> USE StreamAssumption DEF SlotInv, EventInv
<1>0. /\ slot \in [Slots -> SlotStates] /\ inst \in [Insts -> Rows] /\ inst' \in [Insts -> Rows]
      /\ receipt \in [Insts -> [Reqs -> Events \cup {NoEvent}]]
  BY NextTyped DEF TypeOK
<1>1. CASE Pick(t)
  BY <1>0, <1>1 DEF Pick, unpicked, KeyOf, Receipt, Idle, Rows, Ready, Heads, Pending
<1>2. CASE ~Pick(t)
  <2>1. slot'[t] = slot[t]
    <3>1. CASE \E s \in Slots \ {t} : SlotStep(s) \/ Lost(s)
      BY <3>1, OtherSlots
    <3>2. CASE SlotStep(t) \/ Lost(t)
      <4>1. slot[t] \in SlotStates
        BY <1>0
      <4>2. ~(LockInstance(t) \/ Relock(t) \/ InsertPlaceholder(t))
        BY <1>0, <4>1 DEF LockInstance, Relock, Lock, InsertPlaceholder, SlotStates
      <4>3. ~(RowGone(t) \/ InsertConflicts(t) \/ RelockFindsNone(t))
        BY <1>0, <4>1 DEF RowGone, InsertConflicts, RelockFindsNone, SlotStates
      <4>4. ASSUME NEW how \in {"threw", "timedOut"}, Fail(t, how) PROVE FALSE
        BY <1>0, <4>1, <4>4 DEF Fail, SlotStates
      <4>5. slot'[t] # Idle
        BY DEF Idle
      <4> QED
        BY <1>0, <1>2, <3>2, <4>2, <4>3, <4>4, <4>5 DEF SlotStep, Lost, NothingReady, LockTimeout,
           PassOver, Accept, Reject, Replay, Finish, DealtWith, RecordTimeout, RecordFault, EndFailure
    <3> QED
      BY <3>1, <3>2, SlotsOnlyStep
  <2> DEFINE k == KeyOf(t)
             r == ReqOf[slot[t].ev]
  <2>2. /\ KeyOf(t)' = k /\ k \in Insts /\ r \in Reqs /\ slot[t].at = "picked" /\ k \notin unlocked
        /\ Receipt(t) = receipt[k][r] /\ Receipt(t)' = receipt'[k][r]
        /\ slot[t].seen \in Nat \cup {-1} /\ inst[k].ver \in Nat
        /\ slot[t].seen <= inst[k].ver
        /\ (slot[t].rcpt = NoEvent /\ Receipt(t) # NoEvent) => slot[t].seen < inst[k].ver
    <3>1. slot[t].at = "picked" /\ slot[t].ev \in Events /\ KeyOf(t)' = k
      BY <2>1 DEF SlotHasEvent, KeyOf
    <3>2. k \in Insts /\ r \in Reqs /\ k \notin unlocked
      BY <3>1, UnlockedGrows DEF KeyOf
    <3>3. slot[t].seen \in Nat \cup {-1} /\ inst[k].ver \in Nat
      BY <1>0, <3>2 DEF SlotStates, Rows
    <3> QED
      BY <2>1, <3>1, <3>2, <3>3 DEF SnapshotTells, Receipt, KeyOf
  <2> HIDE DEF k, r
  <2>3. CASE \E s \in Slots : Accept(s) /\ KeyOf(s) = k
    <3> PICK s \in Slots : Accept(s) /\ KeyOf(s) = k
      BY <2>3
    <3>1. inst'[k].ver = inst[k].ver + 1
      BY <2>2, AcceptContent
    <3> QED
      BY <2>1, <2>2, <3>1
  <2>4. CASE \A s \in Slots : ~(Accept(s) /\ KeyOf(s) = k)
    <3>1. inst'[k].ver = inst[k].ver
      BY <2>2, <2>4, ContentKept
    <3>2. receipt'[k] = receipt[k]
      BY <1>0, <2>2, <2>4, ReceiptWrite
    <3> QED
      BY <2>1, <2>2, <3>1, <3>2
  <2> QED
    BY <2>3, <2>4
<1> QED
  BY <1>1, <1>2

\* A slot with the lock that saw no receipt has none to see.
LEMMA ReceiptIsCurrentKept ==
  TypeOK /\ SlotInv /\ EventInv /\ NoLostUpdate /\ SnapshotTells /\ ReceiptIsCurrent /\ [Next]_vars
    => ReceiptIsCurrent'
<1> SUFFICES ASSUME TypeOK, SlotInv, EventInv, NoLostUpdate, SnapshotTells, ReceiptIsCurrent,
                    [Next]_vars, NEW t \in Slots, slot'[t].at = "locked",
                    slot'[t].rcpt = NoEvent, KeyOf(t)' \notin unlocked'
             PROVE  Receipt(t)' = NoEvent
  BY DEF ReceiptIsCurrent
<1> USE StreamAssumption, SlotsAssumption DEF SlotInv, EventInv
<1>0. /\ slot \in [Slots -> SlotStates] /\ inst \in [Insts -> Rows]
      /\ receipt \in [Insts -> [Reqs -> Events \cup {NoEvent}]]
  BY DEF TypeOK
<1>1. CASE SlotStep(t) \/ Lost(t)
  <2>1. /\ slot[t].at \in {"picked", "claiming", "relocking"}
        /\ slot'[t].ev = slot[t].ev /\ UNCHANGED inst
        /\ LockInstance(t) \/ InsertPlaceholder(t) \/ Relock(t)
    <3>1. slot'[t].at = "locked" /\ lock'[KeyOf(t)'] = t
      BY LockIsSlotsKept DEF LockIsSlots
    <3> QED
      BY <1>1, <3>1, LockOfSlotStep
  <2>2. /\ KeyOf(t)' = KeyOf(t) /\ KeyOf(t) \in Insts /\ KeyOf(t) \notin unlocked
        /\ ReqOf[slot[t].ev] \in Reqs
        /\ receipt' = receipt /\ Receipt(t)' = Receipt(t)
    <3>1. receipt' = receipt
      BY <2>1 DEF LockInstance, InsertPlaceholder, Relock, unpicked
    <3>2. slot[t].ev \in Events
      BY <2>1 DEF SlotHasEvent
    <3> QED
      BY <2>1, <3>1, <3>2, UnlockedGrows DEF KeyOf, Receipt
  <2>3. CASE LockInstance(t)
    <3>1. slot'[t].rcpt = IF inst[KeyOf(t)].ver # slot[t].seen THEN Receipt(t) ELSE slot[t].rcpt
      BY <1>0, <2>3 DEF LockInstance, Lock, SlotStates
    <3>2. slot[t].at = "picked"
      BY <2>3 DEF LockInstance
    <3>3. CASE inst[KeyOf(t)].ver = slot[t].seen
      <4>1. inst[KeyOf(t)].ver \in Nat
        BY <1>0, <2>2 DEF Rows
      <4> QED
        BY <2>2, <3>1, <3>2, <3>3, <4>1 DEF SnapshotTells
    <3> QED
      BY <2>2, <3>1, <3>3
  <2>4. CASE Relock(t)
    BY <1>0, <2>2, <2>4 DEF Relock, Lock, SlotStates
  <2>5. CASE InsertPlaceholder(t)
    <3>1. inst[KeyOf(t)] = Absent
      BY <2>2, <2>5 DEF InsertPlaceholder, NoRowIsAbsent
    <3>2. AcceptedOf(KeyOf(t)) = {}
      BY <2>2, <3>1 DEF NoLostUpdate, Absent
    <3>3. ~\E e \in Events : InstOf[e] = KeyOf(t) /\ result[e] = "accepted"
      BY <3>2 DEF AcceptedOf
    <3>4. Receipt(t) \in Events \cup {NoEvent}
      BY <1>0, <2>2 DEF Receipt
    <3> QED
      BY <2>2, <3>3, <3>4 DEF ReceiptIsAccepted, Receipt
  <2> QED
    BY <2>1, <2>3, <2>4, <2>5
<1>2. CASE ~(SlotStep(t) \/ Lost(t))
  <2>1. slot'[t] = slot[t]
    BY <1>2, OtherSlots, SlotsOnlyStep
  <2>2. /\ slot[t].at = "locked" /\ slot[t].rcpt = NoEvent /\ KeyOf(t)' = KeyOf(t)
        /\ KeyOf(t) \in Insts /\ KeyOf(t) \notin unlocked /\ lock[KeyOf(t)] = t
        /\ Receipt(t) = NoEvent
    BY <2>1, UnlockedGrows DEF KeyOf, SlotHasEvent, LockIsSlots, ReceiptIsCurrent
  <2>3. receipt'[KeyOf(t)] = receipt[KeyOf(t)]
    <3>1. ASSUME NEW s \in Slots, Accept(s), KeyOf(s) = KeyOf(t) PROVE FALSE
      <4>1. s = t
        BY <2>2, <3>1 DEF Accept, MayWrite
      <4> QED
        BY <1>2, <3>1, <4>1 DEF SlotStep
    <3> QED
      BY <1>0, <2>2, <3>1, ReceiptWrite
  <2> QED
    BY <2>1, <2>2, <2>3 DEF Receipt, KeyOf
<1> QED
  BY <1>1, <1>2
-----------------------------------------------------------------------------
(* Order *)

\* An event that was committed stays so, and what came before it stays known.
LEMMA SettledStays ==
  ASSUME TypeOK, SlotHasEvent, [Next]_vars
  PROVE  /\ \A e \in Events : status[e] \in Settled => status'[e] \in Settled
         /\ \A e \in Events : \/ before'[e] = before[e]
                              \/ /\ status[e] = "open"
                                 /\ before'[e] = {d \in Events : status[d] \in Settled}
<1> USE DEF Settled
<1>0. status \in [Events -> Statuses] /\ before \in [Events -> SUBSET Events]
  BY DEF TypeOK
<1>1. ASSUME NEW e \in Events, Producer(e)
      PROVE  /\ \A d \in Events : status[d] \in Settled => status'[d] \in Settled
             /\ \A d \in Events : \/ before'[d] = before[d]
                                  \/ /\ status[d] = "open"
                                     /\ before'[d] = {c \in Events : status[c] \in Settled}
  BY <1>0, <1>1 DEF Producer, AppendEvent, Commit, Rollback, Refuse
<1>2. ASSUME NEW e \in Events, BackoffOver(e) PROVE UNCHANGED <<status, before>>
  BY <1>2 DEF BackoffOver
<1>3. ASSUME NEW k \in Insts, Admin(k)
      PROVE  before' = before /\ \A e \in Events : status[e] \in Settled => status'[e] \in Settled
  BY <1>0, <1>3 DEF Admin, Release
<1>4. ASSUME NEW s \in Slots, SlotStep(s) \/ Lost(s)
      PROVE  before' = before /\ \A e \in Events : status[e] \in Settled => status'[e] \in Settled
  <2>1. before' = before
    BY <1>4 DEF SlotStep, Lost, Pick, NothingReady, LockInstance, RowGone,
       InsertPlaceholder, InsertConflicts, Relock, RelockFindsNone, LockTimeout, PassOver, Fail,
       Accept, Reject, Replay, Finish, DealtWith, RecordTimeout, RecordFault, EndFailure, unpicked
  <2>2. CASE RecordFault(s)
    BY <1>0, <2>1, <2>2 DEF RecordFault
  <2> QED
    BY <1>0, <1>4, <2>1, <2>2, StatusOfSlotStep
<1>5. CASE UNCHANGED vars
  BY <1>5 DEF vars
<1> DEFINE Stay == \A e \in Events : status[e] \in Settled => status'[e] \in Settled
           Known == \A e \in Events : \/ before'[e] = before[e]
                                      \/ /\ status[e] = "open"
                                         /\ before'[e] = {d \in Events : status[d] \in Settled}
<1>6. \A e \in Events : Producer(e) \/ BackoffOver(e) => Stay /\ Known
  BY <1>1, <1>2
<1>7. \A k \in Insts : Admin(k) => Stay /\ Known
  BY <1>3
<1>8. \A s \in Slots : SlotStep(s) \/ Lost(s) => Stay /\ Known
  BY <1>4
<1>9. UNCHANGED vars => Stay /\ Known
  BY <1>5
<1>10. SUFFICES Stay /\ Known
  OBVIOUS
<1> HIDE DEF Stay, Known
<1> QED
  BY <1>6, <1>7, <1>8, <1>9 DEF Next, Quiet

\* What was committed before an event stays committed.
LEMMA BeforeIsSettledKept == TypeOK /\ SlotHasEvent /\ BeforeIsSettled /\ [Next]_vars => BeforeIsSettled'
<1> SUFFICES ASSUME TypeOK, SlotHasEvent, BeforeIsSettled, [Next]_vars,
                    NEW e \in Events, NEW d \in before'[e]
             PROVE  status'[d] \in Settled
  BY DEF BeforeIsSettled
<1>1. before \in [Events -> SUBSET Events]
  BY DEF TypeOK
<1>2. CASE before'[e] = before[e]
  BY <1>1, <1>2, SettledStays DEF BeforeIsSettled
<1>3. CASE before'[e] = {c \in Events : status[c] \in Settled}
  BY <1>3, SettledStays
<1> QED
  BY <1>2, <1>3, SettledStays

\* A held event has its fault to wait for.
LEMMA HeldBehindFaultKept ==
  TypeOK /\ SlotInv /\ HeldBehindFault /\ [Next]_vars => HeldBehindFault'
<1> SUFFICES ASSUME TypeOK, SlotInv, HeldBehindFault, [Next]_vars,
                    NEW e \in Events, status'[e] = "held", InstOf[e] \notin unlocked'
             PROVE  inst'[InstOf[e]].flag = "faulted"
  BY DEF HeldBehindFault
<1> USE StreamAssumption DEF SlotInv
<1> DEFINE k == InstOf[e]
<1>0. /\ status \in [Events -> Statuses] /\ inst \in [Insts -> Rows]
      /\ k \in Insts /\ inst[k] \in Rows /\ k \notin unlocked
  BY UnlockedGrows DEF TypeOK
<1>1. ASSUME NEW s \in Slots, SlotStep(s) \/ Lost(s) PROVE inst'[k].flag = "faulted"
  <2>1. CASE RecordFault(s)
    <3>1. CASE KeyOf(s) = k
      BY <1>0, <2>1, <3>1 DEF RecordFault, Flagged, Rows, Placeholder, Absent
    <3>2. CASE KeyOf(s) # k
      <4>1. status[e] = "held" /\ inst'[k] = inst[k]
        BY <1>0, <2>1, <3>2 DEF RecordFault, Later, Same, KeyOf
      <4> QED
        BY <1>0, <4>1 DEF HeldBehindFault
    <3> QED
      BY <3>1, <3>2
  <2>2. CASE ~RecordFault(s)
    <3>1. status[e] = "held"
      BY <1>0, <1>1, <2>2, StatusOfSlotStep
    <3>2. inst[k].flag = "faulted"
      BY <1>0, <3>1 DEF HeldBehindFault
    <3>3. CASE inst'[k] = inst[k]
      BY <3>2, <3>3
    <3>4. CASE inst'[k] # inst[k]
      <4>1. KeyOf(s) = k /\ (Accept(s) \/ Reject(s) \/ Replay(s) \/ RecordTimeout(s))
        BY <1>0, <1>1, <2>2, <3>4, RowOfSlotStep
      <4>2. CASE RecordTimeout(s)
        BY <3>2, <3>4, <4>1, <4>2 DEF RecordTimeout, KeyOf
      <4>3. CASE Accept(s) \/ Reject(s) \/ Replay(s)
        <5>1. slot[s].at = "locked" /\ slot[s].view.flag # "faulted"
          BY <1>0, <4>1, <4>3 DEF Accept, Reject, Replay, Deciding, Overtaken, NoRowIsAbsent
        <5> QED
          BY <3>2, <4>1, <5>1, ViewContent
      <4> QED
        BY <4>1, <4>2, <4>3
    <3> QED
      BY <3>3, <3>4
  <2> QED
    BY <2>1, <2>2
<1>2. ASSUME NEW j \in Insts, NEW mode \in {"retry", "skip"}, Release(j, mode)
      PROVE  inst'[k].flag = "faulted"
  <2>1. status[e] = "held" /\ j # k
    BY <1>0, <1>2 DEF Release
  <2> QED
    BY <1>0, <1>2, <2>1 DEF Release, HeldBehindFault
<1>3. CASE (\A s \in Slots : ~(SlotStep(s) \/ Lost(s))) /\ ~\E j \in Insts : Admin(j)
  <2>1. inst' = inst
    BY <1>3, RowsOnlyStep
  <2>2. status[e] = "held"
    BY <1>0, <1>3, StatusOfOthers DEF Admin
  <2> QED
    BY <1>0, <2>1, <2>2 DEF HeldBehindFault
<1> QED
  BY <1>1, <1>2, <1>3 DEF Admin
\* How a row comes to blame an event: it did, or a slot records its fault.
LEMMA BlameStep ==
  ASSUME TypeOK, SlotInv, [Next]_vars, NEW k \in Insts, inst'[k].flag = "faulted"
  PROVE  \/ inst[k].flag = "faulted" /\ inst'[k].blame = inst[k].blame
         \/ \E s \in Slots : /\ RecordFault(s) /\ KeyOf(s) = k /\ slot[s].ev \in Events
                             /\ inst'[k].blame = slot[s].ev
                             /\ status[slot[s].ev] = "pending"
<1> USE StreamAssumption DEF SlotInv
<1>0. inst \in [Insts -> Rows] /\ inst[k] \in Rows
  BY DEF TypeOK
<1>1. CASE inst'[k] = inst[k]
  BY <1>1
<1>2. ASSUME NEW s \in Slots, SlotStep(s) \/ Lost(s), inst'[k] # inst[k]
      PROVE  \/ inst[k].flag = "faulted" /\ inst'[k].blame = inst[k].blame
             \/ /\ RecordFault(s) /\ KeyOf(s) = k /\ slot[s].ev \in Events
                /\ inst'[k].blame = slot[s].ev /\ status[slot[s].ev] = "pending"
  <2>1. KeyOf(s) = k /\ (Accept(s) \/ Reject(s) \/ Replay(s) \/ RecordTimeout(s) \/ RecordFault(s))
    BY <1>2, RowOfSlotStep
  <2>2. CASE RecordFault(s)
    <3>1. slot[s].ev \in Events
      BY <2>2 DEF RecordFault, SlotHasEvent
    <3> QED
      BY <1>0, <2>1, <2>2, <3>1 DEF RecordFault, Flagged, Rows, Placeholder, Absent, Current
  <2>3. CASE RecordTimeout(s)
    <3>1. inst'[k] = Flagged(s, "stalled")
      BY <1>0, <1>2, <2>1, <2>3 DEF RecordTimeout, KeyOf
    <3>2. Flagged(s, "stalled").flag = "stalled"
      BY <1>0, <2>1 DEF Flagged, Rows, Placeholder, Absent
    <3> QED
      BY <3>1, <3>2
  <2>4. CASE Accept(s)
    BY <1>0, <2>1, <2>4 DEF Accept
  <2>5. CASE Reject(s) \/ Replay(s)
    <3>1. inst'[k] = Unchanged(s) /\ slot[s].at = "locked"
      BY <1>0, <1>2, <2>1, <2>5 DEF Reject, Replay, Deciding, Unchanged
    <3>2. Unchanged(s) = Absent \/ Unchanged(s).flag = "none" \/ Unchanged(s) = inst[k]
      BY <1>0, <2>1 DEF Unchanged, Rows
    <3> QED
      BY <1>2, <3>1, <3>2 DEF Absent
  <2> QED
    BY <2>1, <2>2, <2>3, <2>4, <2>5
<1>3. ASSUME NEW j \in Insts, Admin(j), inst'[k] # inst[k] PROVE FALSE
  <2>1. k = j
    BY <1>3, RowOfRelease
  <2>2. inst'[k].flag = "none"
    BY <1>0, <1>3, <2>1, RowOfRelease DEF Rows
  <2> QED
    BY <2>2
<1> QED
  BY <1>1, <1>2, <1>3, RowsOnlyStep

\* A faulted row names an event of its own.
LEMMA BlameIsOwnKept == TypeOK /\ SlotInv /\ BlameIsOwn /\ [Next]_vars => BlameIsOwn'
<1> SUFFICES ASSUME TypeOK, SlotInv, BlameIsOwn, [Next]_vars,
                    NEW k \in Insts, inst'[k].flag = "faulted"
             PROVE  inst'[k].blame \in Events /\ InstOf[inst'[k].blame] = k
  BY DEF BlameIsOwn
<1> QED
  BY BlameStep DEF BlameIsOwn, KeyOf

\* A processed event stays so, unless a release takes up the fault its row names.
LEMMA ProcessedStays ==
  ASSUME TypeOK, SlotHasEvent, BlameIsOwn, [Next]_vars, NEW d \in Events, status[d] = "processed",
         ~Blames(InstOf[d], d)
  PROVE  status'[d] = "processed"
<1>0. status \in [Events -> Statuses]
  BY DEF TypeOK
<1>1. ASSUME NEW s \in Slots, SlotStep(s) \/ Lost(s) PROVE status'[d] = "processed"
  <2>1. CASE RecordFault(s)
    BY <1>0, <2>1 DEF RecordFault, Later, Pending
  <2> QED
    BY <1>0, <1>1, <2>1, StatusOfSlotStep
<1>2. ASSUME NEW j \in Insts, NEW mode \in {"retry", "skip"}, Release(j, mode)
      PROVE  status'[d] = "processed"
  BY <1>0, <1>2 DEF Release, BlameIsOwn, Blames
<1> QED
  BY <1>0, <1>1, <1>2, StatusOfOthers

\* An event newly decided by the pipeline was a busy slot's.
LEMMA DecidedBySlot ==
  ASSUME TypeOK, SlotHasEvent, ResultIsStatus, [Next]_vars,
         NEW e \in Events, result'[e] \in Decisions, result[e] \notin Decisions
  PROVE  /\ \E s \in Slots : slot[s].at # "idle" /\ slot[s].ev = e
         /\ status[e] \in Settled
<1> USE DEF Decisions
<1>0. status \in [Events -> Statuses] /\ result \in [Events -> Results]
  BY DEF TypeOK
<1>1. ASSUME NEW s \in Slots, SlotStep(s) \/ Lost(s) PROVE slot[s].at # "idle" /\ slot[s].ev = e
  <2>1. CASE RecordFault(s)
    BY <1>0, <2>1 DEF RecordFault
  <2>2. CASE HasEvent(s) /\ \E how \in Results : result' = [result EXCEPT ![slot[s].ev] = how]
    BY <1>0, <2>2 DEF HasEvent
  <2> QED
    BY <1>1, <2>1, <2>2, StatusOfSlotStep DEF Results
<1>2. ASSUME NEW k \in Insts, NEW mode \in {"retry", "skip"}, Release(k, mode) PROVE FALSE
  BY <1>0, <1>2 DEF Release
<1> QED
  BY <1>0, <1>1, <1>2, StatusOfOthers DEF SlotHasEvent

\* What comes before a slot's event is done with for good.
LEMMA OrderOfSlotsKept ==
  TypeOK /\ SlotInv /\ BeforeIsSettled /\ HeldBehindFault /\ BlameIsOwn /\ OrderOfSlots /\ [Next]_vars
    => OrderOfSlots'
<1> SUFFICES ASSUME TypeOK, SlotInv, BeforeIsSettled, HeldBehindFault, BlameIsOwn, OrderOfSlots,
                    [Next]_vars, NEW t \in Slots, slot'[t].at # "idle", KeyOf(t)' \notin unlocked',
                    NEW d \in before'[slot'[t].ev], Same(d, slot'[t].ev), d < slot'[t].ev
             PROVE  status'[d] = "processed" /\ ~Blames(KeyOf(t), d)'
  BY DEF OrderOfSlots, Same
<1> USE StreamAssumption DEF SlotInv
<1>0. /\ slot \in [Slots -> SlotStates] /\ status \in [Events -> Statuses]
      /\ before \in [Events -> SUBSET Events]
      /\ slot'[t].ev \in Events /\ SlotHasEvent'
  <2>1. SlotHasEvent'
    BY SlotHasEventKept
  <2> QED
    BY <2>1 DEF TypeOK, SlotHasEvent
<1>1. CASE Pick(t)
  <2> DEFINE e == slot'[t].ev
  <2>1. e \in Ready(t) /\ UNCHANGED <<status, inst, before, unlocked>>
    BY <1>0, <1>1 DEF Pick, unpicked, Idle
  <2>2. d \in Events /\ status[d] \in Settled /\ InstOf[d] = InstOf[e] /\ KeyOf(t)' = InstOf[e]
    BY <1>0, <2>1 DEF BeforeIsSettled, Same, KeyOf
  <2> HIDE DEF e
  <2>3. inst[InstOf[e]].flag # "faulted" /\ status[d] # "pending"
    <3>1. e \in Events /\ d \in Nat /\ e \in Nat /\ d < e
      BY <1>0, <2>2, EventsAssumption DEF e
    <3>2. inst[InstOf[e]].flag # "faulted" /\ (d \in Pending => e <= d)
      BY <2>1, <2>2 DEF Ready, Heads, Same
    <3> QED
      BY <2>2, <3>1, <3>2 DEF Pending
  <2>4. status[d] # "held"
    BY <2>1, <2>2, <2>3 DEF HeldBehindFault
  <2> QED
    BY <2>1, <2>2, <2>3, <2>4 DEF Settled, Blames
<1>2. CASE ~Pick(t)
  <2>1. slot[t].at # "idle" /\ slot'[t].ev = slot[t].ev
    BY <1>2, SameEvent, OtherSlots, SlotsOnlyStep
  <2>2. /\ KeyOf(t)' = KeyOf(t) /\ KeyOf(t) \notin unlocked
        /\ slot[t].ev \in Events /\ status[slot[t].ev] \in Settled
    BY <2>1, UnlockedGrows DEF KeyOf, SlotHasEvent
  <2>3. d \in before[slot[t].ev] /\ d \in Events /\ InstOf[d] = KeyOf(t) /\ KeyOf(t) \in Insts
    BY <1>0, <2>1, <2>2, SettledStays DEF Settled, Same, KeyOf
  <2>4. status[d] = "processed" /\ ~Blames(KeyOf(t), d)
    BY <2>1, <2>2, <2>3 DEF OrderOfSlots
  <2>5. status'[d] = "processed"
    BY <2>3, <2>4, ProcessedStays
  <2>6. ASSUME inst'[KeyOf(t)].flag = "faulted", inst'[KeyOf(t)].blame = d PROVE FALSE
    <3>1. status[d] # "pending" /\ ~(inst[KeyOf(t)].flag = "faulted" /\ inst[KeyOf(t)].blame = d)
      BY <2>4 DEF Blames
    <3> QED
      BY <2>3, <2>6, <3>1, BlameStep
  <2> QED
    BY <2>2, <2>5, <2>6 DEF Blames
<1> QED
  BY <1>1, <1>2

\* No release brings back what a decided event came after, and what the
\* pipeline decides it decides in order.
LEMMA InOrderKept ==
  TypeOK /\ SlotInv /\ ResultIsStatus /\ BeforeIsSettled /\ BlameIsOwn
  /\ OrderOfSlots /\ OrderOfRelease /\ InOrder /\ [Next]_vars
    => OrderOfRelease' /\ InOrder'
<1> SUFFICES ASSUME TypeOK, SlotInv, ResultIsStatus, BeforeIsSettled, BlameIsOwn,
                    OrderOfSlots, OrderOfRelease, InOrder, [Next]_vars
             PROVE  OrderOfRelease' /\ InOrder'
  OBVIOUS
<1> SUFFICES \A e \in Events : \A d \in before'[e] :
               Same(d, e) /\ d < e /\ InstOf[e] \notin unlocked' /\ result'[e] \in Decisions
                 => ~Blames(InstOf[e], d)' /\ status'[d] = "processed"
  <2> USE DEF Decisions, Same, Blames
  <2>1. OrderOfRelease'
    BY DEF OrderOfRelease
  <2>2. InOrder'
    BY DEF InOrder
  <2> QED
    BY <2>1, <2>2
<1> SUFFICES ASSUME NEW e \in Events, NEW d \in before'[e], Same(d, e), d < e,
                    InstOf[e] \notin unlocked', result'[e] \in Decisions
             PROVE  ~Blames(InstOf[e], d)' /\ status'[d] = "processed"
  OBVIOUS
<1> USE StreamAssumption DEF SlotInv
<1> DEFINE k == InstOf[e]
<1>0. before \in [Events -> SUBSET Events] /\ k \in Insts /\ k \notin unlocked
  BY UnlockedGrows DEF TypeOK
<1>1. status[e] \in Settled
  BY DecidedBySlot DEF ResultIsStatus, Decisions, Settled
<1>2. d \in before[e] /\ d \in Events /\ InstOf[d] = k
  BY <1>0, <1>1, SettledStays DEF Settled, Same
<1>3. status[d] = "processed" /\ ~Blames(k, d)
  <2>1. CASE result[e] \in Decisions
    BY <1>0, <1>2, <2>1 DEF InOrder, OrderOfRelease
  <2>2. CASE result[e] \notin Decisions
    <3> PICK s \in Slots : slot[s].at # "idle" /\ slot[s].ev = e
      BY <2>2, DecidedBySlot
    <3> QED
      BY <1>0, <1>2 DEF OrderOfSlots, KeyOf
  <2> QED
    BY <2>1, <2>2
<1>4. status'[d] = "processed"
  BY <1>2, <1>3, ProcessedStays
<1>5. ASSUME inst'[k].flag = "faulted", inst'[k].blame = d PROVE FALSE
  <2>1. status[d] # "pending" /\ ~(inst[k].flag = "faulted" /\ inst[k].blame = d)
    BY <1>3 DEF Blames
  <2> HIDE DEF k
  <2> QED
    BY <1>0, <1>5, <2>1, BlameStep
<1> QED
  BY <1>4, <1>5 DEF Blames

\* The initial state satisfies the inductive invariant.
LEMMA InitIInv == Init => IInv
<1> SUFFICES ASSUME Init PROVE IInv
  OBVIOUS
<1> USE DEF Init
<1>1. TypeOK
  BY InitTyped
<1>2. SlotInv
  <2>1. \A s \in Slots : slot[s].at = "idle" /\ slot[s].view = Absent
    BY DEF Idle
  <2>2. SlotHasEvent /\ OneSlotPerEvent /\ ViewIsRow
    BY <2>1 DEF SlotHasEvent, OneSlotPerEvent, HasEvent, ViewIsRow
  <2>3. LockIsSlots /\ NoRowIsAbsent
    BY <2>1 DEF LockIsSlots, NoRowIsAbsent
  <2> QED
    BY <2>2, <2>3 DEF SlotInv
<1>3. \A k \in Insts : AcceptedOf(k) = {}
  BY DEF AcceptedOf
<1>4. EventInv
  <2>1. AcceptedAreFinite
    BY <1>3, FS_EmptySet DEF AcceptedAreFinite
  <2>2. ResultIsStatus /\ BeforeIsSettled
    BY DEF ResultIsStatus, BeforeIsSettled
  <2>3. ReceiptIsAccepted
    BY DEF ReceiptIsAccepted
  <2> QED
    BY <2>1, <2>2, <2>3 DEF EventInv
<1>5. NoLostUpdate
  BY <1>3, FS_EmptySet DEF NoLostUpdate, Absent
<1>6. SnapshotTells /\ ReceiptIsCurrent /\ OrderOfSlots
  BY DEF SnapshotTells, ReceiptIsCurrent, OrderOfSlots, Idle
<1>7. HeldBehindFault /\ BlameIsOwn /\ OrderOfRelease /\ InOrder
  BY DEF HeldBehindFault, BlameIsOwn, OrderOfRelease, InOrder, Absent
<1> QED
  BY <1>1, <1>2, <1>4, <1>5, <1>6, <1>7 DEF IInv
-----------------------------------------------------------------------------
(* The theorems *)

LEMMA IInvKept == IInv /\ [Next]_vars => IInv'
<1> SUFFICES ASSUME IInv, [Next]_vars PROVE IInv'
  OBVIOUS
<1> USE DEF IInv, SlotInv, EventInv
<1>1. TypeOK'
  BY NextTyped
<1>2. SlotInv'
  BY SlotHasEventKept, OneSlotPerEventKept, LockIsSlotsKept, ViewIsRowKept, NoRowIsAbsentKept
<1>3. EventInv'
  BY ResultIsStatusKept, ReceiptIsAcceptedKept, BeforeIsSettledKept, AcceptedAreFiniteKept
<1>4. NoLostUpdate'
  BY NoLostUpdateKept
<1>5. SnapshotTells' /\ ReceiptIsCurrent'
  BY SnapshotTellsKept, ReceiptIsCurrentKept
<1>6. HeldBehindFault' /\ BlameIsOwn'
  BY HeldBehindFaultKept, BlameIsOwnKept
<1>7. OrderOfSlots' /\ OrderOfRelease' /\ InOrder'
  BY OrderOfSlotsKept, InOrderKept
<1> QED
  BY <1>1, <1>2, <1>3, <1>4, <1>5, <1>6, <1>7

\* The inductive invariant holds in every reachable state.
THEOREM Invariant == Spec => []IInv
<1>1. Init => IInv
  BY InitIInv
<1>2. IInv /\ [Next]_vars => IInv'
  BY IInvKept
<1> QED
  BY <1>1, <1>2, PTL DEF Spec

\* Every row, event and slot keeps its shape, whatever the slots interleave.
THEOREM TypeCorrect == Spec => []TypeOK
<1>1. IInv => TypeOK
  BY DEF IInv
<1> QED
  BY <1>1, Invariant, PTL

\* No slot overwrites what another wrote: wherever the row lock or the
\* placeholder was in force, an instance's state is computed from all of its
\* accepted events and from nothing else.
THEOREM NoUpdateIsLost == Spec => []NoLostUpdate
<1>1. IInv => NoLostUpdate
  BY DEF IInv
<1> QED
  BY <1>1, Invariant, PTL

\* A request key is accepted at most once, whatever slots its copies are in.
THEOREM AcceptsOnce == Spec => []AcceptedOnce
<1>1. IInv => AcceptedOnce
  <2> SUFFICES ASSUME IInv, NEW k \in Insts, NEW r \in Reqs
               PROVE  {e \in AcceptedOf(k) : ReqOf[e] = r} = {receipt[k][r]} \ {NoEvent}
    BY DEF AcceptedOnce
  <2>1. ReceiptIsAccepted /\ receipt[k][r] \in Events \cup {NoEvent} /\ NoEvent \notin Events
    BY EventsAssumption DEF IInv, EventInv, TypeOK, NoEvent
  <2>2. ASSUME NEW e \in AcceptedOf(k), ReqOf[e] = r PROVE e = receipt[k][r] /\ e # NoEvent
    BY <2>1, <2>2 DEF AcceptedOf, ReceiptIsAccepted
  <2>3. ASSUME receipt[k][r] # NoEvent
        PROVE  receipt[k][r] \in AcceptedOf(k) /\ ReqOf[receipt[k][r]] = r
    BY <2>1, <2>3 DEF AcceptedOf, ReceiptIsAccepted
  <2> QED
    BY <2>2, <2>3
<1> QED
  BY <1>1, Invariant, PTL

\* A slot that has the row locked never acts on a receipt it read too early.
THEOREM ReceiptsAreCurrent == Spec => []ReceiptIsCurrent
<1>1. IInv => ReceiptIsCurrent
  BY DEF IInv
<1> QED
  BY <1>1, Invariant, PTL

\* An instance's events are decided in the order they were committed in, across
\* timeouts, faults, releases and lost transactions.
THEOREM DecidesInOrder == Spec => []InOrder
<1>1. IInv => InOrder
  BY DEF IInv
<1> QED
  BY <1>1, Invariant, PTL

\* No event is held without a fault that an admin can release.
THEOREM NothingHeldForGood == Spec => []HeldBehindFault
<1>1. IInv => HeldBehindFault
  BY DEF IInv
<1> QED
  BY <1>1, Invariant, PTL

\* Two slots decide about one instance at a time only after claimNew went on
\* with no row to lock (RelockFindsNone): the row lock leaves no other way.
THEOREM OneAtATimeUnlessUnlocked == Spec => [](unlocked = {} => OneAtATime)
<1>1. IInv => (unlocked = {} => OneAtATime)
  <2> SUFFICES ASSUME SlotInv, unlocked = {}, NEW s \in Slots, NEW t \in Slots,
                      InHand(s), InHand(t), KeyOf(s) = KeyOf(t)
               PROVE  s = t
    BY DEF IInv, OneAtATime
  <2>1. slot[s].at = "locked" /\ slot[t].at = "locked"
    BY DEF SlotInv, NoRowIsAbsent, InHand
  <2> QED
    BY <2>1 DEF SlotInv, LockIsSlots
<1> QED
  BY <1>1, Invariant, PTL

\* What a waiting caller was told of its event stays true.
THEOREM DecisionsStand == Spec => DecidedForGood
<1>1. IInv /\ [Next]_vars
        => \A e \in Events : result[e] \in Results \ {"none", "faulted"}
                               => result'[e] = result[e] /\ status'[e] = "processed"
  BY DecisionStands DEF IInv, SlotInv, EventInv
<1>2. IInv /\ [Next]_vars
        => [\A e \in Events : result[e] \in Results \ {"none", "faulted"}
                               => result'[e] = result[e] /\ status'[e] = "processed"]_vars
  BY <1>1
<1> QED
  BY <1>2, Invariant, PTL DEF Spec, DecidedForGood

LEMMA RowGrows ==
  ASSUME IInv, [Next]_vars, NEW k \in Insts, k \notin unlocked', inst[k].ver > 0
  PROVE  inst'[k].ver >= inst[k].ver /\ inst'[k].mver >= inst[k].mver
<1> DEFINE Goal == inst'[k].ver >= inst[k].ver /\ inst'[k].mver >= inst[k].mver
<1>0. /\ inst \in [Insts -> Rows] /\ inst[k] \in Rows /\ k \notin unlocked
      /\ slot \in [Slots -> SlotStates] /\ SlotInv
  BY UnlockedGrows DEF IInv, TypeOK
<1>1. inst[k].ver \in Nat /\ inst[k].mver \in Nat /\ inst[k].row
  <2>1. inst[k].row
    BY <1>0 DEF SlotInv, NoRowIsAbsent, Absent
  <2> QED
    BY <1>0, <2>1, SlotsAssumption DEF Rows
<1>2. CASE inst'[k] = inst[k]
  BY <1>1, <1>2
<1>3. ASSUME NEW s \in Slots, SlotStep(s) \/ Lost(s), inst'[k] # inst[k] PROVE Goal
  <2>1. KeyOf(s) = k /\ (Accept(s) \/ Reject(s) \/ Replay(s) \/ RecordTimeout(s) \/ RecordFault(s))
    BY <1>0, <1>3, RowOfSlotStep DEF IInv, SlotInv
  <2>2. ASSUME slot[s].at = "locked"
        PROVE  slot[s].view = inst[k]
    BY <1>0, <1>1, <2>1, <2>2 DEF SlotInv, ViewIsRow
  <2>3. slot[s].at # "bare"
    BY <1>0, <2>1 DEF SlotInv, NoRowIsAbsent
  <2>4. CASE Accept(s)
    <3>1. slot[s].view = inst[k] /\ ~Overtaken(s)
      BY <2>2, <2>3, <2>4 DEF Accept, Deciding
    <3>2. inst[k].mver <= Version[s] /\ Version[s] \in Nat
      BY <1>1, <3>1, SlotsAssumption DEF Overtaken
    <3>3. inst'[k].ver = inst[k].ver + 1 /\ inst'[k].mver = Version[s]
      BY <1>0, <2>1, <2>4, <3>1 DEF Accept
    <3> QED
      BY <1>1, <3>2, <3>3
  <2>5. CASE Reject(s) \/ Replay(s)
    <3>1. slot[s].at = "locked" /\ slot[s].view = inst[k]
      BY <2>2, <2>3, <2>5 DEF Reject, Replay, Deciding
    <3>2. inst'[k] = Unchanged(s)
      BY <1>0, <2>1, <2>5 DEF Reject, Replay
    <3>3. inst'[k].ver = inst[k].ver /\ inst'[k].mver = inst[k].mver
      BY <1>0, <2>1, <3>1, <3>2 DEF Unchanged, Rows
    <3> QED
      BY <1>1, <3>3
  <2>6. CASE RecordTimeout(s) \/ RecordFault(s)
    <3>1. PICK flag \in Flags : inst'[k] = Flagged(s, flag)
      BY <1>0, <1>3, <2>1, <2>6 DEF RecordTimeout, RecordFault, Flags
    <3>2. inst'[k].ver = inst[k].ver /\ inst'[k].mver = inst[k].mver
      BY <1>0, <1>1, <2>1, <3>1 DEF Flagged, Rows
    <3> QED
      BY <1>1, <3>2
  <2> QED
    BY <2>1, <2>4, <2>5, <2>6
<1>4. ASSUME NEW j \in Insts, Admin(j), inst'[k] # inst[k] PROVE Goal
  <2>1. inst'[k] = [inst[k] EXCEPT !.flag = "none", !.blame = NoEvent]
    BY <1>4, RowOfRelease DEF IInv
  <2> QED
    BY <1>0, <1>1, <2>1 DEF Rows
<1> QED
  BY <1>2, <1>3, <1>4, RowsOnlyStep

\* An instance that a newer build has written stays the newer build's.
THEOREM NewerBuildStays == Spec => NeverOlderBuild
<1>1. IInv /\ [Next]_vars
        => [\A k \in Insts \ unlocked' :
              inst[k].ver > 0 => inst'[k].ver >= inst[k].ver /\ inst'[k].mver >= inst[k].mver]_vars
  BY RowGrows
<1> QED
  BY <1>1, Invariant, PTL DEF Spec, NeverOlderBuild

=============================================================================
