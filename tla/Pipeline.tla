------------------------------ MODULE Pipeline ------------------------------
(***************************************************************************)
(* The transition pipeline of the workflow kernel                          *)
(* (src/workflow/kernel/pipeline.ts): several slots, in one or more        *)
(* processes, take pending events from the stream and apply each to its    *)
(* instance in a PostgreSQL transaction of its own.                        *)
(*                                                                         *)
(* One step of a slot is one statement of its transaction that another     *)
(* slot can come between: the pick (a snapshot and the event's row lock),  *)
(* the instance's row lock, the placeholder of an instance that has no     *)
(* row, the end of the transaction, and the transaction that records a     *)
(* failure.  What a machine decides about an event is left open: it is     *)
(* accepted, rejected, throws or times out.                                *)
(***************************************************************************)
EXTENDS Integers, FiniteSets

CONSTANTS
  Slots,        \* pipeline slots, of every process
  Insts,        \* machine instances, the (machine, key) pairs
  Events,       \* event ids, in the order the sequence gives them out
  InstOf,       \* the instance an event is for
  Reqs, ReqOf,  \* request keys, and each event's
  HashOf,       \* an event's canonical hash: type, payload, actor
  Version,      \* the machine version of the build a slot runs
  StallAfter,   \* timeouts in a row before the instance is flagged stalled
  MaxAttempts,  \* bound: how often one event times out
  MaxReleases,  \* bound: how often an admin releases a faulted instance
  MaxLost,      \* bound: transactions lost with their connection or process
  NoSlot

ASSUME EventsAssumption == Events \subseteq Nat \ {0}
ASSUME StreamAssumption ==
  /\ InstOf \in [Events -> Insts]
  /\ ReqOf \in [Events -> Reqs]
  /\ DOMAIN HashOf = Events
ASSUME SlotsAssumption == NoSlot \notin Slots /\ Version \in [Slots -> Nat \ {0}]
ASSUME BoundsAssumption ==
  /\ StallAfter \in Nat \ {0}
  /\ MaxAttempts \in Nat /\ MaxReleases \in Nat /\ MaxLost \in Nat

VARIABLES
  status,    \* wf_events.status, and where the event is before it is committed
  result,    \* wf_events.result
  attempts,  \* wf_events.attempts
  backoff,   \* events whose retry_at is still to come
  inst,      \* the committed row of each instance
  receipt,   \* wf_receipts: the event accepted under each request key
  lock,      \* the slot that has the instance's row locked or its placeholder inserted
  slot,      \* what each slot is doing
  passed,    \* events a slot has passed over since it last finished a round
  lost, releases,
  before,    \* history: the events already committed when an event was
  unlocked   \* history: instances a slot has decided about with no row to lock

vars == <<status, result, attempts, backoff, inst, receipt, lock, slot, passed,
          lost, releases, before, unlocked>>

NoEvent == 0
Statuses == {"unsent", "open", "dropped", "pending", "held", "processed"}
Results == {"none", "accepted", "rejected", "replayed", "refused", "faulted"}
Flags == {"none", "stalled", "faulted"}

\* A row of wf_instances.  ver counts the accepted events and data holds those
\* the state was computed from; ver = 0 is the pseudo-state '(none)'.
Rows == [row : BOOLEAN, ver : Nat, data : SUBSET Events,
         mver : {0} \cup {Version[s] : s \in Slots}, flag : Flags,
         blame : Events \cup {NoEvent}]
Absent == [row |-> FALSE, ver |-> 0, data |-> {}, mver |-> 0, flag |-> "none",
           blame |-> NoEvent]
\* Defect: the placeholder claims the version after its build's.
PlaceholderOfNextBuild(s) == [Absent EXCEPT !.row = TRUE, !.mver = Version[s] + 1]
Placeholder(s) == [Absent EXCEPT !.row = TRUE, !.mver = Version[s]]

Steps == {"idle", "picked", "claiming", "relocking", "locked", "bare",
          "threw", "timedOut"}
SlotStates == [at : Steps, ev : Events \cup {NoEvent}, seen : Nat \cup {-1},
               rcpt : Events \cup {NoEvent}, tries : Nat, view : Rows]
Idle == [at |-> "idle", ev |-> NoEvent, seen |-> -1, rcpt |-> NoEvent,
         tries |-> 0, view |-> Absent]

Init ==
  /\ status = [e \in Events |-> "unsent"]
  /\ result = [e \in Events |-> "none"]
  /\ attempts = [e \in Events |-> 0]
  /\ backoff = {}
  /\ inst = [k \in Insts |-> Absent]
  /\ receipt = [k \in Insts |-> [r \in Reqs |-> NoEvent]]
  /\ lock = [k \in Insts |-> NoSlot]
  /\ slot = [s \in Slots |-> Idle]
  /\ passed = [s \in Slots |-> {}]
  /\ lost = 0 /\ releases = 0
  /\ before = [e \in Events |-> {}]
  /\ unlocked = {}
-----------------------------------------------------------------------------
(* Producers *)

streamOnly == <<attempts, backoff, inst, receipt, lock, slot, passed, lost, releases,
                unlocked>>

\* An event is inserted in its producer's transaction: it has its id and
\* nobody sees it yet.
AppendEvent(e) ==
  /\ status[e] = "unsent"
  /\ \A d \in Events : d < e => status[d] # "unsent"
  /\ status' = [status EXCEPT ![e] = "open"]
  /\ UNCHANGED <<result, before>> /\ UNCHANGED streamOnly

\* The producer's transaction commits, perhaps after one with a higher id.
Commit(e) ==
  /\ status[e] = "open"
  /\ status' = [status EXCEPT ![e] = "pending"]
  /\ before' = [before EXCEPT ![e] = {d \in Events : status[d] \in {"pending", "held", "processed"}}]
  /\ UNCHANGED result /\ UNCHANGED streamOnly

Rollback(e) ==
  /\ status[e] = "open"
  /\ status' = [status EXCEPT ![e] = "dropped"]
  /\ UNCHANGED <<result, before>> /\ UNCHANGED streamOnly

\* A slot between its pick and the end of its transaction has its event's row
\* locked; one that records a failure has given the lock up.
HasEvent(s) == slot[s].at \in {"picked", "claiming", "relocking", "locked", "bare"}
EventLocks == {slot[s].ev : s \in {t \in Slots : HasEvent(t)}}

\* The caller that gave up waiting refuses its event unless it is decided.
Refuse(e) ==
  /\ status[e] = "pending"
  /\ e \notin EventLocks
  /\ status' = [status EXCEPT ![e] = "processed"]
  /\ result' = [result EXCEPT ![e] = "refused"]
  /\ UNCHANGED before /\ UNCHANGED streamOnly
-----------------------------------------------------------------------------
(* Taking an event and its instance *)

unpicked == <<status, result, attempts, backoff, inst, receipt, lost, releases, before>>

Same(d, e) == InstOf[d] = InstOf[e]
Pending == {e \in Events : status[e] = "pending"}
Heads == {e \in Pending : \A d \in Pending : Same(d, e) => e <= d}
\* Defect: a stream's head is looked for among the ready events, past a backoff.
ReadyPastBackoff(s) ==
  LET due == Pending \ (backoff \cup EventLocks \cup passed[s]) IN
  {e \in due : /\ \A d \in due : Same(d, e) => e <= d
               /\ inst[InstOf[e]].flag # "faulted" /\ inst[InstOf[e]].mver <= Version[s]}
Ready(s) == {e \in Heads \ (backoff \cup EventLocks \cup passed[s]) :
               /\ inst[InstOf[e]].flag # "faulted"
               /\ inst[InstOf[e]].mver <= Version[s]}

\* The pick: the lowest id that is ready, and what the snapshot shows of its
\* instance's version and of its receipt.
Pick(s) ==
  /\ slot[s].at = "idle"
  /\ \E e \in Ready(s) :
       LET k == InstOf[e] IN
       /\ \A d \in Ready(s) : e <= d
       /\ slot' = [slot EXCEPT ![s] =
            [Idle EXCEPT !.at = IF inst[k].row THEN "picked" ELSE "claiming",
                         !.ev = e,
                         !.seen = IF inst[k].row THEN inst[k].ver ELSE -1,
                         !.rcpt = receipt[k][ReqOf[e]],
                         !.tries = attempts[e]]]
  /\ UNCHANGED unpicked /\ UNCHANGED <<lock, passed, unlocked>>

NothingReady(s) ==
  /\ slot[s].at = "idle" /\ Ready(s) = {} /\ passed[s] # {}
  /\ passed' = [passed EXCEPT ![s] = {}]
  /\ UNCHANGED unpicked /\ UNCHANGED <<lock, slot, unlocked>>

KeyOf(s) == InstOf[slot[s].ev]
\* Defect: the receipt is looked up under the event's id, which has none.
ReceiptOfNothing(s) == NoEvent
Receipt(s) == receipt[KeyOf(s)][ReqOf[slot[s].ev]]

\* Defect: the row is read without FOR UPDATE.
LockWithoutWaiting(s, waited) ==
  LET k == KeyOf(s) IN
  /\ inst[k].row
  /\ lock' = [lock EXCEPT ![k] = s]
  /\ slot' = [slot EXCEPT ![s].at = "locked", ![s].view = inst[k],
                          ![s].rcpt = IF waited THEN Receipt(s) ELSE @]

\* Defect: the snapshot's receipt is taken for the one of now.
LockWithoutReread(s, waited) ==
  LET k == KeyOf(s) IN
  /\ inst[k].row /\ lock[k] = NoSlot
  /\ lock' = [lock EXCEPT ![k] = s]
  /\ slot' = [slot EXCEPT ![s].at = "locked", ![s].view = inst[k]]

\* The slot has the row: it reads it as it is now, and the receipt again if
\* an event was applied since its snapshot.
Lock(s, waited) ==
  LET k == KeyOf(s) IN
  /\ inst[k].row /\ lock[k] = NoSlot
  /\ lock' = [lock EXCEPT ![k] = s]
  /\ slot' = [slot EXCEPT ![s].at = "locked", ![s].view = inst[k],
                          ![s].rcpt = IF waited THEN Receipt(s) ELSE @]

LockInstance(s) ==
  /\ slot[s].at = "picked"
  /\ Lock(s, inst[KeyOf(s)].ver # slot[s].seen)
  /\ UNCHANGED unpicked /\ UNCHANGED <<passed, unlocked>>

\* The row the snapshot showed was deleted meanwhile: the join finds none.
RowGone(s) ==
  /\ slot[s].at = "picked" /\ ~inst[KeyOf(s)].row
  /\ slot' = [slot EXCEPT ![s].at = "claiming"]
  /\ UNCHANGED unpicked /\ UNCHANGED <<lock, passed, unlocked>>

InsertPlaceholder(s) ==
  LET k == KeyOf(s) IN
  /\ slot[s].at = "claiming"
  /\ ~inst[k].row /\ lock[k] = NoSlot
  /\ lock' = [lock EXCEPT ![k] = s]
  /\ slot' = [slot EXCEPT ![s].at = "locked", ![s].view = Placeholder(s)]
  /\ UNCHANGED unpicked /\ UNCHANGED <<passed, unlocked>>

InsertConflicts(s) ==
  /\ slot[s].at = "claiming" /\ inst[KeyOf(s)].row
  /\ slot' = [slot EXCEPT ![s].at = "relocking"]
  /\ UNCHANGED unpicked /\ UNCHANGED <<lock, passed, unlocked>>

Relock(s) ==
  /\ slot[s].at = "relocking"
  /\ Lock(s, TRUE)
  /\ UNCHANGED unpicked /\ UNCHANGED <<passed, unlocked>>

\* The row the insert conflicted with is gone when the next statement asks
\* for it: the slot goes on with no instance and no lock.
RelockFindsNone(s) ==
  LET k == KeyOf(s) IN
  /\ slot[s].at = "relocking" /\ ~inst[k].row
  /\ slot' = [slot EXCEPT ![s].at = "bare", ![s].rcpt = Receipt(s)]
  /\ unlocked' = unlocked \cup {k}
  /\ UNCHANGED unpicked /\ UNCHANGED <<lock, passed>>
-----------------------------------------------------------------------------
(* The end of the transaction *)

Unlocked(s) == [k \in Insts |-> IF lock[k] = s THEN NoSlot ELSE lock[k]]

\* The row stayed locked past the lock timeout.  The pick's own statement
\* reports nothing ready, the placeholder's passes over the event.
LockTimeout(s) ==
  /\ slot[s].at \in {"picked", "claiming", "relocking"}
  /\ lock[KeyOf(s)] # NoSlot
  /\ slot' = [slot EXCEPT ![s] = Idle]
  /\ passed' = [passed EXCEPT ![s] = IF slot[s].at = "picked" THEN {} ELSE @ \cup {slot[s].ev}]
  /\ UNCHANGED unpicked /\ UNCHANGED <<lock, unlocked>>

\* Defects: one of the two things that may happen before the lock is forgotten.
OvertakenByFault(s) == slot[s].view.flag = "faulted"
OvertakenByBuild(s) == slot[s].view.mver > Version[s]

\* Faulted, or written by a newer version, between the pick and the lock.
Overtaken(s) == slot[s].view.flag = "faulted" \/ slot[s].view.mver > Version[s]
PassOver(s) ==
  /\ slot[s].at = "locked" /\ Overtaken(s)
  /\ lock' = Unlocked(s)
  /\ slot' = [slot EXCEPT ![s] = Idle]
  /\ passed' = [passed EXCEPT ![s] = @ \cup {slot[s].ev}]
  /\ UNCHANGED unpicked /\ UNCHANGED unlocked

\* A slot with no row writes the instance only when no other has it locked.
Deciding(s) == \/ slot[s].at = "locked" /\ ~Overtaken(s)
               \/ slot[s].at = "bare"
MayWrite(s) == lock[KeyOf(s)] \in {NoSlot, s}

Finish(s, how) ==
  LET e == slot[s].ev IN
  /\ status' = [status EXCEPT ![e] = "processed"]
  /\ result' = [result EXCEPT ![e] = how]
  /\ backoff' = backoff \ {e}
  /\ lock' = Unlocked(s)
  /\ slot' = [slot EXCEPT ![s] = Idle]
  /\ passed' = [passed EXCEPT ![s] = {}]
  /\ UNCHANGED <<attempts, lost, releases, before, unlocked>>

\* The machine's transition, its row, its receipt and the event's result.
Accept(s) ==
  LET e == slot[s].ev
      k == KeyOf(s) IN
  /\ Deciding(s) /\ MayWrite(s)
  /\ slot[s].rcpt = NoEvent /\ Receipt(s) = NoEvent
  /\ inst' = [inst EXCEPT ![k] =
       [row |-> TRUE, ver |-> slot[s].view.ver + 1, data |-> slot[s].view.data \cup {e},
        mver |-> Version[s], flag |-> "none", blame |-> NoEvent]]
  /\ receipt' = [receipt EXCEPT ![k][ReqOf[e]] = e]
  /\ Finish(s, "accepted")

\* Anything but an accepted event leaves no '(none)' row and clears a stall.
Unchanged(s) ==
  IF slot[s].at = "bare" THEN inst[KeyOf(s)]
  ELSE IF slot[s].view.ver = 0 THEN Absent
  ELSE IF slot[s].view.flag = "stalled"
       THEN [inst[KeyOf(s)] EXCEPT !.flag = "none", !.blame = NoEvent]
  ELSE inst[KeyOf(s)]

\* Refused by admission, by a guard, or because its request key is taken.
Reject(s) ==
  /\ Deciding(s)
  /\ inst' = [inst EXCEPT ![KeyOf(s)] = Unchanged(s)]
  /\ Finish(s, "rejected")
  /\ UNCHANGED receipt

Replay(s) ==
  /\ Deciding(s)
  /\ slot[s].rcpt # NoEvent /\ HashOf[slot[s].rcpt] = HashOf[slot[s].ev]
  /\ inst' = [inst EXCEPT ![KeyOf(s)] = Unchanged(s)]
  /\ Finish(s, "replayed")
  /\ UNCHANGED receipt

\* An error rolls the transaction back, the placeholder included: a lock or
\* statement timeout, or anything else.
Fail(s, how) ==
  /\ Deciding(s)
  /\ how = "timedOut" => attempts[slot[s].ev] < MaxAttempts
  /\ lock' = Unlocked(s)
  /\ slot' = [slot EXCEPT ![s] = [@ EXCEPT !.at = how, !.seen = -1, !.rcpt = NoEvent, !.view = Absent]]
  /\ UNCHANGED unpicked /\ UNCHANGED <<passed, unlocked>>

\* The process dies, or its connection, or the transaction that records a
\* failure times out itself: its locks go and nothing is kept.
Lost(s) ==
  /\ slot[s].at # "idle" /\ lost < MaxLost
  /\ lost' = lost + 1
  /\ lock' = Unlocked(s)
  /\ slot' = [slot EXCEPT ![s] = Idle]
  /\ passed' = [passed EXCEPT ![s] = {}]
  /\ UNCHANGED <<status, result, attempts, backoff, inst, receipt, releases, before, unlocked>>
-----------------------------------------------------------------------------
(* The transaction that records a failure, and an admin's release *)

Failed(s) == slot[s].at \in {"threw", "timedOut"}

\* Defect: an event is taken for undecided when its attempts are the same.
CurrentByAttempts(s) == attempts[slot[s].ev] = slot[s].tries

\* Still pending, with the attempts this slot saw.
Current(s) == status[slot[s].ev] = "pending" /\ attempts[slot[s].ev] = slot[s].tries

EndFailure(s) ==
  /\ slot' = [slot EXCEPT ![s] = Idle]
  /\ passed' = [passed EXCEPT ![s] = {}]
  /\ UNCHANGED <<receipt, lock, lost, releases, before, unlocked>>

DealtWith(s) ==
  /\ Failed(s) /\ slot[s].ev \notin EventLocks /\ ~Current(s)
  /\ EndFailure(s)
  /\ UNCHANGED <<status, result, attempts, backoff, inst>>

\* The row that carries a flag: the instance's, or a '(none)' row made for it.
Flagged(s, flag) ==
  [(IF inst[KeyOf(s)].row THEN inst[KeyOf(s)] ELSE Placeholder(s))
     EXCEPT !.flag = flag, !.blame = slot[s].ev]

RecordTimeout(s) ==
  LET e == slot[s].ev
      k == KeyOf(s)
      stalls == attempts[e] + 1 >= StallAfter IN
  /\ slot[s].at = "timedOut" /\ e \notin EventLocks /\ Current(s)
  /\ stalls => lock[k] = NoSlot
  /\ attempts' = [attempts EXCEPT ![e] = @ + 1]
  /\ backoff' = backoff \cup {e}
  /\ inst' = IF stalls /\ inst[k].flag = "none"
             THEN [inst EXCEPT ![k] = Flagged(s, "stalled")] ELSE inst
  /\ EndFailure(s)
  /\ UNCHANGED <<status, result>>

\* The instance's events after this one, pending when it faults.
Later(e) == {d \in Pending : Same(d, e) /\ d > e}

RecordFault(s) ==
  LET e == slot[s].ev
      k == KeyOf(s) IN
  /\ slot[s].at = "threw" /\ e \notin EventLocks /\ Current(s)
  /\ lock[k] = NoSlot /\ Later(e) \cap EventLocks = {}
  /\ inst' = [inst EXCEPT ![k] = Flagged(s, "faulted")]
  /\ status' = [d \in Events |-> IF d = e THEN "processed"
                                 ELSE IF d \in Later(e) THEN "held" ELSE status[d]]
  /\ result' = [result EXCEPT ![e] = "faulted"]
  /\ EndFailure(s)
  /\ UNCHANGED <<attempts, backoff>>

\* 'retry' puts the faulted event back, 'skip' leaves it; what it held resumes.
Release(k, mode) ==
  LET e == inst[k].blame
      back == {d \in Events : \/ InstOf[d] = k /\ status[d] = "held"
                              \/ mode = "retry" /\ d = e /\ result[d] = "faulted"} IN
  /\ inst[k].flag = "faulted" /\ lock[k] = NoSlot
  /\ releases < MaxReleases
  /\ releases' = releases + 1
  /\ status' = [d \in Events |-> IF d \in back THEN "pending" ELSE status[d]]
  /\ result' = [d \in Events |-> IF d \in back THEN "none" ELSE result[d]]
  /\ backoff' = IF mode = "retry" THEN backoff \ {e} ELSE backoff
  /\ inst' = [inst EXCEPT ![k].flag = "none", ![k].blame = NoEvent]
  /\ UNCHANGED <<attempts, receipt, lock, slot, passed, lost, before, unlocked>>

\* Defect: nothing compares retry_at with the time.
BackoffForGood(e) == e \in backoff /\ UNCHANGED vars

BackoffOver(e) ==
  /\ e \in backoff
  /\ backoff' = backoff \ {e}
  /\ UNCHANGED <<status, result, attempts, inst, receipt, lock, slot, passed, lost,
                 releases, before, unlocked>>
-----------------------------------------------------------------------------
Producer(e) == AppendEvent(e) \/ Commit(e) \/ Rollback(e) \/ Refuse(e)

SlotStep(s) ==
  \/ Pick(s) \/ NothingReady(s)
  \/ LockInstance(s) \/ RowGone(s)
  \/ InsertPlaceholder(s) \/ InsertConflicts(s) \/ Relock(s) \/ RelockFindsNone(s)
  \/ LockTimeout(s) \/ PassOver(s)
  \/ Accept(s) \/ Reject(s) \/ Replay(s)
  \/ \E how \in {"threw", "timedOut"} : Fail(s, how)
  \/ DealtWith(s) \/ RecordTimeout(s) \/ RecordFault(s)

Admin(k) == \E mode \in {"retry", "skip"} : Release(k, mode)

\* Nothing more to do: every event is decided or waits behind a fault.
Quiet ==
  /\ \A s \in Slots : slot[s] = Idle /\ passed[s] = {}
  /\ \A e \in Events : \/ status[e] \in {"dropped", "processed"}
                       \/ inst[InstOf[e]].flag = "faulted"
  /\ UNCHANGED vars

Next ==
  \/ \E e \in Events : Producer(e) \/ BackoffOver(e)
  \/ \E s \in Slots : SlotStep(s) \/ Lost(s)
  \/ \E k \in Insts : Admin(k)
  \/ Quiet

Spec == Init /\ [][Next]_vars

\* A slot's loop goes on, and a backoff ends; nobody has to append or release.
Fairness == /\ \A s \in Slots : WF_vars(SlotStep(s))
            /\ \A e \in Events : WF_vars(BackoffOver(e))
FairSpec == Spec /\ Fairness
-----------------------------------------------------------------------------
(* Properties *)

\* The shape of every row and of every slot's state.
TypeOK ==
  /\ status \in [Events -> Statuses]
  /\ result \in [Events -> Results]
  /\ attempts \in [Events -> Nat]
  /\ backoff \subseteq Events
  /\ inst \in [Insts -> Rows]
  /\ receipt \in [Insts -> [Reqs -> Events \cup {NoEvent}]]
  /\ lock \in [Insts -> Slots \cup {NoSlot}]
  /\ slot \in [Slots -> SlotStates]
  /\ passed \in [Slots -> SUBSET Events]
  /\ lost \in 0..MaxLost /\ releases \in 0..MaxReleases
  /\ before \in [Events -> SUBSET Events]
  /\ unlocked \subseteq Insts

AcceptedOf(k) == {e \in Events : InstOf[e] = k /\ result[e] = "accepted"}

\* An instance's state is computed from every event accepted for it and from
\* no other, and its version counts them: no slot writes over what another
\* wrote (the row lock, the placeholder, the read under the lock).  Where a
\* slot found no row to lock this is lost: see OneAtATime.
NoLostUpdate ==
  \A k \in Insts \ unlocked :
    /\ inst[k].data = AcceptedOf(k)
    /\ inst[k].ver = Cardinality(AcceptedOf(k))

\* At most one slot is deciding an event of an instance at a time.
InHand(s) == slot[s].at \in {"locked", "bare"}
OneAtATime ==
  \A s, t \in Slots : InHand(s) /\ InHand(t) /\ KeyOf(s) = KeyOf(t) => s = t

\* A request key is accepted once, and its receipt names that event: a
\* retried or duplicated request is a replay or a conflict, whatever slots
\* its copies are in.
AcceptedOnce ==
  \A k \in Insts, r \in Reqs :
    {e \in AcceptedOf(k) : ReqOf[e] = r} = {receipt[k][r]} \ {NoEvent}

\* A slot that has the row and saw no receipt is right that there is none: a
\* retry that waited behind its original finds the receipt, instead of running
\* into its primary key and faulting the instance.
ReceiptIsCurrent ==
  \A s \in Slots :
    slot[s].at = "locked" /\ slot[s].rcpt = NoEvent /\ KeyOf(s) \notin unlocked
      => Receipt(s) = NoEvent

\* What the pipeline decides about an event is decided in the order the
\* events were committed in, as far as their ids agree: a timeout's backoff, a
\* fault and a crash keep the instance's later events behind the earlier one.
Decisions == {"accepted", "rejected", "replayed", "faulted"}
InOrder ==
  \A e \in Events : \A d \in before[e] :
    Same(d, e) /\ d < e /\ InstOf[e] \notin unlocked /\ result[e] \in Decisions
      => status[d] = "processed"

\* An event is held only behind a fault an admin can release: none waits for
\* a release that would answer "not faulted".
HeldBehindFault ==
  \A e \in Events :
    status[e] = "held" /\ InstOf[e] \notin unlocked => inst[InstOf[e]].flag = "faulted"

\* A decision stands: only a faulted event is ever taken up again, so what a
\* waiting caller was told stays true.
DecidedForGood ==
  [][\A e \in Events :
       result[e] \in Results \ {"none", "faulted"} =>
         result'[e] = result[e] /\ status'[e] = "processed"]_vars

\* An instance a newer build has written is never written by an older one,
\* though slots of both run side by side and a pick's snapshot may be stale.
NeverOlderBuild ==
  [][\A k \in Insts \ unlocked' :
       inst[k].ver > 0 => inst'[k].ver >= inst[k].ver /\ inst'[k].mver >= inst[k].mver]_vars

\* Every event its producer committed is decided, or waits behind a fault:
\* timeouts, backoffs, lock waits and lost processes only delay it.
EveryEventDecided ==
  \A e \in Events :
    status[e] = "pending" ~> status[e] = "processed" \/ inst[InstOf[e]].flag = "faulted"

-----------------------------------------------------------------------------
(* The inductive invariant behind these properties *)

Settled == {"pending", "held", "processed"}

\* A busy slot has an event that was committed; with its lock, a pending one.
SlotHasEvent ==
  \A s \in Slots : slot[s].at # "idle" =>
    /\ slot[s].ev \in Events /\ status[slot[s].ev] \in Settled
    /\ HasEvent(s) => status[slot[s].ev] = "pending"

OneSlotPerEvent ==
  \A s, t \in Slots : HasEvent(s) /\ HasEvent(t) /\ slot[s].ev = slot[t].ev => s = t

LockIsSlots ==
  /\ \A s \in Slots : slot[s].at = "locked" => lock[KeyOf(s)] = s
  /\ \A k \in Insts : lock[k] # NoSlot => slot[lock[k]].at = "locked" /\ KeyOf(lock[k]) = k

\* What a slot read under the lock is still the row, or its own placeholder.
ViewIsRow ==
  \A s \in Slots : slot[s].at = "locked" =>
    \/ inst[KeyOf(s)].row /\ slot[s].view = inst[KeyOf(s)]
    \/ ~inst[KeyOf(s)].row /\ slot[s].view = Placeholder(s)

NoRowIsAbsent ==
  /\ \A k \in Insts : ~inst[k].row => inst[k] = Absent
  /\ \A s \in Slots : slot[s].at = "bare" => KeyOf(s) \in unlocked
  /\ \A s \in Slots : slot[s].at # "locked" => slot[s].view = Absent

\* Only a processed event has a result, and a receipt names an accepted one.
ResultIsStatus == \A e \in Events : result[e] # "none" <=> status[e] = "processed"
ReceiptIsAccepted ==
  /\ \A e \in Events : result[e] = "accepted" => receipt[InstOf[e]][ReqOf[e]] = e
  /\ \A k \in Insts, r \in Reqs : receipt[k][r] # NoEvent =>
       /\ InstOf[receipt[k][r]] = k /\ ReqOf[receipt[k][r]] = r
       /\ result[receipt[k][r]] = "accepted"

\* A receipt written since a slot's snapshot shows in the row it will lock.
SnapshotTells ==
  \A s \in Slots : LET k == KeyOf(s) IN
    (slot[s].at = "picked" /\ k \notin unlocked) =>
      /\ slot[s].seen <= inst[k].ver
      /\ (slot[s].rcpt = NoEvent /\ Receipt(s) # NoEvent) => slot[s].seen < inst[k].ver

BeforeIsSettled == \A e \in Events : \A d \in before[e] : status[d] \in Settled

\* A faulted row names one of its instance's events.
BlameIsOwn ==
  \A k \in Insts : inst[k].flag = "faulted" =>
    inst[k].blame \in Events /\ InstOf[inst[k].blame] = k

Blames(k, d) == inst[k].flag = "faulted" /\ inst[k].blame = d

\* What comes before a slot's event is done with, and no release brings it back.
OrderOfSlots ==
  \A s \in Slots : slot[s].at # "idle" /\ KeyOf(s) \notin unlocked =>
    \A d \in before[slot[s].ev] :
      Same(d, slot[s].ev) /\ d < slot[s].ev =>
        status[d] = "processed" /\ ~Blames(KeyOf(s), d)

\* A release never brings an event back that a decided one came after.
OrderOfRelease ==
  \A e \in Events : \A d \in before[e] :
    Same(d, e) /\ d < e /\ InstOf[e] \notin unlocked /\ result[e] \in Decisions
      => ~Blames(InstOf[e], d)

AcceptedAreFinite == \A k \in Insts : IsFiniteSet(AcceptedOf(k))

SlotInv == SlotHasEvent /\ OneSlotPerEvent /\ LockIsSlots /\ ViewIsRow /\ NoRowIsAbsent
EventInv == ResultIsStatus /\ ReceiptIsAccepted /\ BeforeIsSettled /\ AcceptedAreFinite
IInv ==
  /\ TypeOK /\ SlotInv /\ EventInv
  /\ NoLostUpdate /\ SnapshotTells /\ ReceiptIsCurrent
  /\ HeldBehindFault /\ BlameIsOwn /\ OrderOfSlots /\ OrderOfRelease /\ InOrder
-----------------------------------------------------------------------------
(* Implementing the stream *)

\* The pipeline implements the stream the kernel promises: an instance's state
\* is its row's, its fault the one its flag names, and every slot's step is one
\* decision or none.
Promise == INSTANCE Stream WITH
  state <- [k \in Insts |-> inst[k].data],
  fault <- [k \in Insts |-> IF inst[k].flag = "faulted" THEN inst[k].blame ELSE NoEvent]
ImplementsStream == Promise!StreamSpec
=============================================================================
