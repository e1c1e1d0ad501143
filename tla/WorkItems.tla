----------------------------- MODULE WorkItems ------------------------------
(***************************************************************************)
(* Work items and the services that run them                               *)
(* (src/workflow/kernel/services.ts), for the items of one kind: a         *)
(* process claims due items under the kind's claim lock, runs each under a *)
(* lease, and reports one result as an event to the owning instance, which *)
(* settles the item or has cancelled it meanwhile.                         *)
(*                                                                         *)
(* A claim's id is the number of its attempt.  Time is left out: a lease   *)
(* is live until it lapses, which it may do under a running handler only   *)
(* when something went wrong (a process that hangs, a database out of      *)
(* reach), counted in `faults`.                                            *)
(***************************************************************************)
EXTENDS Integers, FiniteSets

CONSTANTS
  Procs,        \* processes that run services
  Items,        \* the kind's work items
  Limit,        \* the kind's concurrency, across every process
  Resumable,    \* whether its handler carries on from its checkpoint
  MaxAttempts,  \* its tries
  MaxLost,      \* the lost attempts a resumable handler is let have
  MaxClaims,    \* bound: how often one item is claimed
  MaxFaults,    \* bound: crashes, lapses, outages and refused reports
  MaxStops      \* bound: processes stopped

ASSUME KindAssumption ==
  /\ Limit \in Nat \ {0} /\ Resumable \in BOOLEAN
  /\ MaxAttempts \in Nat \ {0} /\ MaxLost \in Nat
\* Some process runs services; a table has finitely many rows.
ASSUME WorkSets == Procs # {} /\ IsFiniteSet(Items)
ASSUME WorkBounds ==
  MaxClaims \in Nat \ {0} /\ MaxFaults \in Nat /\ MaxStops \in Nat

VARIABLES
  item,      \* the rows of wf_work
  attempt,   \* wf_work_attempts.outcome, per item and number
  run,       \* what the process that made a claim is doing under it
  event,     \* the result event of an attempt
  claiming,  \* how many items a process in a claim's transaction may take
  stopping,  \* processes whose runtime is stopping
  ran,       \* history: how often an item's handler was started
  faults, stops

vars == <<item, attempt, run, event, claiming, stopping, ran, faults, stops>>

Claims == 1..MaxClaims
NoClaim == 0

\* The row: its claim and whether that claim's lease is live, whether it is
\* due, the attempts and those lost, the attempt that wrote the checkpoint.
Rows == [status : {"none", "queued", "running", "reported", "settled"},
         claim : {NoClaim} \cup Claims, live : BOOLEAN, due : BOOLEAN,
         attempts : {0} \cup Claims, lost : Nat, checkpoint : {0} \cup Claims,
         cancelled : BOOLEAN]
NoItem == [status |-> "none", claim |-> NoClaim, live |-> FALSE, due |-> FALSE,
           attempts |-> 0, lost |-> 0, checkpoint |-> 0, cancelled |-> FALSE]

Outcomes == {"succeeded", "failed", "retry", "exhausted"}

\* execute(): whether its handler's signal says the lease is lost or that the
\* process stops, and what it is about to report.
Runs == [at : {"none", "claimed", "exhausting", "handling", "reporting", "again",
               "givingUp", "ended"},
         proc : Procs, lost : Nat, leaseLost : BOOLEAN, told : BOOLEAN,
         report : Outcomes \cup {"none"}]
NoRun == [at |-> "none", proc |-> CHOOSE p \in Procs : TRUE, lost |-> 0, leaseLost |-> FALSE,
          told |-> FALSE, report |-> "none"]

Init ==
  /\ item = [i \in Items |-> NoItem]
  /\ attempt = [i \in Items |-> [n \in Claims |-> "none"]]
  /\ run = [i \in Items |-> [n \in Claims |-> NoRun]]
  /\ event = [i \in Items |-> [n \in Claims |-> "none"]]
  /\ claiming = [p \in Procs |-> 0]
  /\ stopping = {}
  /\ ran = [i \in Items |-> 0]
  /\ faults = 0 /\ stops = 0
-----------------------------------------------------------------------------
(* The pipeline: it asks for work, cancels it, and settles it *)

pipelineOnly == <<run, claiming, stopping, ran, faults, stops>>

\* A transition asks for an item; asked for again under its key, nothing is.
Emit(i, due) ==
  /\ item[i].status = "none"
  /\ item' = [item EXCEPT ![i].status = "queued", ![i].due = due]
  /\ UNCHANGED <<attempt, event>> /\ UNCHANGED pipelineOnly

Outstanding(i) == item[i].status \in {"queued", "running", "reported"}

\* Defect: an attempt that ends without a report is left as it is.
LeftOpen(i, outcome) == attempt

\* The attempt that has the item's claim, closed.
Closed(i, outcome) ==
  IF item[i].claim = NoClaim \/ attempt[i][item[i].claim] # "running" THEN attempt
  ELSE [attempt EXCEPT ![i][item[i].claim] = outcome]

Cancel(i) ==
  /\ Outstanding(i)
  /\ item' = [item EXCEPT ![i].status = "settled", ![i].claim = NoClaim, ![i].live = FALSE,
                          ![i].cancelled = TRUE]
  /\ attempt' = Closed(i, "lost")
  /\ UNCHANGED event /\ UNCHANGED pipelineOnly

\* A result is for an item that is out, reported or settled already.
Known(i) == item[i].status \in {"reported", "settled"}

\* Defect: a result is refused only when its item is unknown.
VerdictOnCancelled(i, how) == IF Known(i) THEN how ELSE "unknown"

\* Refused when the item was cancelled after it reported, or is not known;
\* otherwise it is as the machine decides.
Verdict(i, how) ==
  IF ~Known(i) THEN "unknown" ELSE IF item[i].cancelled THEN "cancelled" ELSE how

\* The pipeline applies the result event, and settles the item with it.
Settle(i, n) ==
  /\ event[i][n] = "pending"
  /\ \E how \in {"accepted", "rejected"} : event' = [event EXCEPT ![i][n] = Verdict(i, how)]
  /\ item' = IF Known(i) THEN [item EXCEPT ![i].status = "settled"] ELSE item
  /\ UNCHANGED attempt /\ UNCHANGED pipelineOnly

\* The machine threw on the result and an admin skipped it: it is never applied.
Skip(i, n) ==
  /\ event[i][n] = "pending"
  /\ event' = [event EXCEPT ![i][n] = "skipped"]
  /\ UNCHANGED <<item, attempt>> /\ UNCHANGED pipelineOnly
-----------------------------------------------------------------------------
(* Claiming *)

Active(r) == r.at \notin {"none", "ended"}
RunsOf(p) == {c \in Items \X Claims : run[c[1]][c[2]].proc = p /\ Active(run[c[1]][c[2]])}
Live == {i \in Items : item[i].status = "running" /\ item[i].live}

\* Defect: only queued items are looked for.
DueQueued == {i \in Items : /\ item[i].attempts < MaxClaims
                            /\ item[i].status = "queued" /\ item[i].due}

Due == {i \in Items : /\ item[i].attempts < MaxClaims
                      /\ \/ item[i].status = "queued" /\ item[i].due
                         \/ item[i].status = "running" /\ ~item[i].live}

Least(a, b) == IF a <= b THEN a ELSE b

\* Defect: the limit is counted per process.
TakeOfProcess(p) == Limit - Cardinality(RunsOf(p))

Take(p) == Least(Limit - Cardinality(RunsOf(p)), Limit - Cardinality(Live))

\* Under the kind's claim lock, which a process that finds it taken does not
\* wait for: the items running on a live lease anywhere are counted.
StartClaim(p) ==
  /\ p \notin stopping /\ Due # {}
  /\ \A q \in Procs : claiming[q] = 0
  /\ Take(p) > 0
  /\ claiming' = [claiming EXCEPT ![p] = Take(p)]
  /\ UNCHANGED <<item, attempt, run, event, stopping, ran, faults, stops>>

\* The row of an item claimed: one that was still running had its attempt lost.
Claimed(i) ==
  [item[i] EXCEPT !.status = "running", !.claim = item[i].attempts + 1, !.live = TRUE,
                  !.attempts = @ + 1, !.lost = IF item[i].status = "running" THEN @ + 1 ELSE @]

\* The items claimed commit, each with an attempt; its predecessor, if it is
\* still said to be running, lapsed.
EndClaim(p) ==
  /\ claiming[p] > 0
  /\ \E taken \in SUBSET Due :
       /\ Cardinality(taken) = Least(claiming[p], Cardinality(Due))
       /\ item' = [i \in Items |-> IF i \in taken THEN Claimed(i) ELSE item[i]]
       /\ attempt' = [i \in Items |-> IF i \notin taken THEN attempt[i]
                        ELSE [Closed(i, "lost")[i] EXCEPT ![item[i].attempts + 1] = "running"]]
       /\ run' = [i \in Items |-> IF i \notin taken THEN run[i]
                    ELSE [run[i] EXCEPT ![item[i].attempts + 1] =
                           [NoRun EXCEPT !.at = "claimed", !.proc = p, !.lost = Claimed(i).lost]]]
  /\ claiming' = [claiming EXCEPT ![p] = 0]
  /\ UNCHANGED <<event, stopping, ran, faults, stops>>
-----------------------------------------------------------------------------
(* Running one claimed item *)

runOnly == <<item, attempt, event, claiming, stopping, faults, stops>>

\* Defects: a write under the claim leaves out the claim's id, its lease, or
\* all but that the item is not settled.
HoldsWithoutId(i, n) == item[i].status = "running" /\ item[i].live
HoldsWithoutLease(i, n) == item[i].status = "running" /\ item[i].claim = n
HoldsUntilSettled(i, n) == item[i].status \in {"running", "reported"}

\* The claim is still this attempt's and its lease has not lapsed.
Holds(i, n) == item[i].status = "running" /\ item[i].claim = n /\ item[i].live

\* Attempts that count: of a resumable handler, only those not lost.
Tries(i, n) == IF Resumable THEN n - run[i][n].lost ELSE n

\* Defect: one too many.
SpentLate(i, n) == IF Resumable THEN run[i][n].lost > MaxLost + 1 ELSE n > MaxAttempts + 1

Spent(i, n) == IF Resumable THEN run[i][n].lost > MaxLost ELSE n > MaxAttempts

\* The listener for the process stopping is added here: one that stops later
\* tells the handler, one that has stopped already does not.
Execute(i, n) ==
  /\ run[i][n].at = "claimed"
  /\ IF Spent(i, n)
     THEN run' = [run EXCEPT ![i][n].at = "exhausting", ![i][n].report = "exhausted"] /\ UNCHANGED ran
     ELSE run' = [run EXCEPT ![i][n].at = "handling"] /\ ran' = [ran EXCEPT ![i] = @ + 1]
  /\ UNCHANGED runOnly

\* A write under the claim (a renewal or a checkpoint) that finds it gone
\* aborts the handler.
Renew(i, n) ==
  /\ run[i][n].at = "handling" /\ ~run[i][n].leaseLost /\ ~Holds(i, n)
  /\ run' = [run EXCEPT ![i][n].leaseLost = TRUE]
  /\ UNCHANGED ran /\ UNCHANGED runOnly

\* The checkpoint's write extends the lease as a renewal does.
Checkpoint(i, n) ==
  /\ run[i][n].at = "handling" /\ ~run[i][n].leaseLost /\ Holds(i, n)
  /\ item' = [item EXCEPT ![i].checkpoint = n, ![i].live = TRUE]
  /\ UNCHANGED <<attempt, run, event, claiming, stopping, ran, faults, stops>>

\* Defect: an error that is not permanent is taken for a lost attempt.
FailureAsLoss(i, n, permanent) == IF permanent THEN "failed" ELSE "lost"

\* What an attempt that ended in an error reports.
Failure(i, n, permanent) ==
  IF permanent THEN "failed" ELSE IF Tries(i, n) >= MaxAttempts THEN "exhausted" ELSE "retry"

HandlerReturns(i, n) ==
  /\ run[i][n].at = "handling"
  /\ run' = [run EXCEPT ![i][n].at = IF run[i][n].leaseLost THEN "ended" ELSE "reporting",
                        ![i][n].report = "succeeded"]
  /\ UNCHANGED ran /\ UNCHANGED runOnly

\* A handler that threw on its signal reports nothing; its process gives the
\* lease up if it threw because the process stops.
HandlerThrows(i, n) ==
  /\ run[i][n].at = "handling"
  /\ IF run[i][n].leaseLost THEN run' = [run EXCEPT ![i][n].at = "ended"]
     ELSE IF run[i][n].told THEN run' = [run EXCEPT ![i][n].at = "givingUp"]
     ELSE \E permanent \in BOOLEAN :
            run' = [run EXCEPT ![i][n].at = "reporting", ![i][n].report = Failure(i, n, permanent)]
  /\ UNCHANGED ran /\ UNCHANGED runOnly

GiveUp(i, n) ==
  /\ run[i][n].at = "givingUp"
  /\ run' = [run EXCEPT ![i][n].at = "ended"]
  /\ IF Holds(i, n)
     THEN item' = [item EXCEPT ![i].live = FALSE] /\ attempt' = Closed(i, "lost")
     ELSE UNCHANGED <<item, attempt>>
  /\ UNCHANGED <<event, claiming, stopping, ran, faults, stops>>

Reporting(r) == r.at \in {"exhausting", "reporting", "again"}

\* finish(), under the claim: the item is queued again, or reported with its
\* result event in the same transaction.
Written(i, n) ==
  LET outcome == run[i][n].report IN
  /\ item' = [item EXCEPT ![i].status = IF outcome = "retry" THEN "queued" ELSE "reported",
                          ![i].claim = NoClaim, ![i].live = FALSE, ![i].due = FALSE]
  /\ attempt' = [attempt EXCEPT ![i][n] = outcome]
  /\ event' = IF outcome = "retry" THEN event ELSE [event EXCEPT ![i][n] = "pending"]

Report(i, n) ==
  /\ Reporting(run[i][n])
  /\ IF Holds(i, n) THEN Written(i, n) ELSE UNCHANGED <<item, attempt, event>>
  /\ run' = [run EXCEPT ![i][n].at = "ended"]
  /\ UNCHANGED <<claiming, stopping, ran, faults, stops>>

\* The report throws: the database refused it, or could not be reached, before
\* or after it committed.  What it threw is reported instead, once.
ReportThrows(i, n) ==
  /\ Reporting(run[i][n]) /\ faults < MaxFaults
  /\ faults' = faults + 1
  /\ \/ UNCHANGED <<item, attempt, event>>
     \/ Holds(i, n) /\ Written(i, n)
  /\ IF run[i][n].at = "reporting"
     THEN \E permanent \in BOOLEAN :
            run' = [run EXCEPT ![i][n].at = "again", ![i][n].report = Failure(i, n, permanent)]
     ELSE run' = [run EXCEPT ![i][n].at = "ended"]
  /\ UNCHANGED <<claiming, stopping, ran, stops>>
-----------------------------------------------------------------------------
(* Time, processes that stop, and what goes wrong *)

BecomesDue(i) ==
  /\ item[i].status = "queued" /\ ~item[i].due
  /\ item' = [item EXCEPT ![i].due = TRUE]
  /\ UNCHANGED <<attempt, run, event, claiming, stopping, ran, faults, stops>>

Lapse(i) ==
  LET renewed == Active(run[i][item[i].claim]) IN
  /\ i \in Live
  /\ renewed => faults < MaxFaults
  /\ faults' = IF renewed THEN faults + 1 ELSE faults
  /\ item' = [item EXCEPT ![i].live = FALSE]
  /\ UNCHANGED <<attempt, run, event, claiming, stopping, ran, stops>>

\* Out of the database's reach for three quarters of a lease, the process
\* stops the handler itself.
SelfStop(i, n) ==
  /\ run[i][n].at = "handling" /\ ~run[i][n].leaseLost
  /\ faults < MaxFaults
  /\ faults' = faults + 1
  /\ run' = [run EXCEPT ![i][n].leaseLost = TRUE]
  /\ UNCHANGED <<item, attempt, event, claiming, stopping, ran, stops>>

\* The runtime's stop: its loops end, its handlers' signals abort.
Stop(p) ==
  /\ p \notin stopping /\ stops < MaxStops
  /\ stops' = stops + 1
  /\ stopping' = stopping \cup {p}
  /\ run' = [i \in Items |-> [n \in Claims |->
       IF run[i][n].proc = p /\ run[i][n].at = "handling"
       THEN [run[i][n] EXCEPT !.told = TRUE] ELSE run[i][n]]]
  /\ UNCHANGED <<item, attempt, event, claiming, ran, faults>>

Gone(p) == [i \in Items |-> [n \in Claims |->
  IF run[i][n].proc = p /\ Active(run[i][n]) THEN [run[i][n] EXCEPT !.at = "ended"] ELSE run[i][n]]]

\* The process dies, with its handlers and any claim it had not committed.
Crash(p) ==
  /\ RunsOf(p) # {} \/ claiming[p] > 0
  /\ faults < MaxFaults
  /\ faults' = faults + 1
  /\ run' = Gone(p)
  /\ claiming' = [claiming EXCEPT ![p] = 0]
  /\ UNCHANGED <<item, attempt, event, stopping, ran, stops>>

\* A process that has stopped is replaced.
Restart(p) ==
  /\ p \in stopping /\ RunsOf(p) = {} /\ claiming[p] = 0
  /\ stopping' = stopping \ {p}
  /\ UNCHANGED <<item, attempt, run, event, claiming, ran, faults, stops>>
-----------------------------------------------------------------------------
Handler(i, n) == HandlerReturns(i, n) \/ HandlerThrows(i, n)

RunStep(i, n) ==
  \/ Execute(i, n) \/ Renew(i, n) \/ Checkpoint(i, n) \/ Handler(i, n)
  \/ GiveUp(i, n) \/ Report(i, n) \/ ReportThrows(i, n) \/ SelfStop(i, n)

ProcStep(p) == StartClaim(p) \/ EndClaim(p) \/ Stop(p) \/ Crash(p) \/ Restart(p)

\* Every item asked for has ended.
Quiet == (\A i \in Items : ~Outstanding(i)) /\ UNCHANGED vars

Next ==
  \/ \E i \in Items : \/ \E due \in BOOLEAN : Emit(i, due)
                      \/ Cancel(i) \/ BecomesDue(i) \/ Lapse(i)
                      \/ \E n \in Claims : Settle(i, n) \/ Skip(i, n) \/ RunStep(i, n)
  \/ \E p \in Procs : ProcStep(p)
  \/ Quiet

Spec == Init /\ [][Next]_vars

\* Loops go on claiming, a claimed item's run goes on, a handler returns or
\* throws in the end, a lease nobody renews lapses, the pipeline decides a
\* result, and a stopped process is replaced.
Fairness ==
  /\ WF_vars(\E p \in Procs : StartClaim(p))
  /\ \A p \in Procs : WF_vars(EndClaim(p)) /\ WF_vars(Restart(p))
  /\ \A i \in Items :
       /\ WF_vars(BecomesDue(i))
       /\ WF_vars(Lapse(i) /\ UNCHANGED faults)
       /\ \A n \in Claims :
            /\ WF_vars(Settle(i, n))
            /\ WF_vars(Execute(i, n)) /\ WF_vars(Handler(i, n))
            /\ WF_vars(GiveUp(i, n)) /\ WF_vars(Report(i, n))
FairSpec == Spec /\ Fairness
-----------------------------------------------------------------------------
(* Properties *)

WorkTypeOK ==
  /\ item \in [Items -> Rows]
  /\ attempt \in [Items -> [Claims -> Outcomes \cup {"none", "running", "lost"}]]
  /\ run \in [Items -> [Claims -> Runs]]
  /\ event \in [Items -> [Claims -> {"none", "pending", "accepted", "rejected", "cancelled",
                                     "unknown", "skipped"}]]
  /\ claiming \in [Procs -> 0..Limit]
  /\ stopping \subseteq Procs
  /\ ran \in [Items -> Nat]
  /\ faults \in 0..MaxFaults /\ stops \in 0..MaxStops

\* The kind's concurrency holds across every process: however their claims
\* interleave with lapses, reports, cancels and crashes, no more items than
\* the limit are running on a live lease.
LimitHeld == Cardinality(Live) <= Limit

\* An item is reported once, by one attempt, whatever was lost, retried,
\* reported twice or claimed again; and its event waits for an item that can
\* be settled by it.
Results(i) == {n \in Claims : event[i][n] # "none"}
OneResult ==
  \A i \in Items :
    /\ Cardinality(Results(i)) <= 1
    /\ item[i].status = "reported" => Results(i) # {}
    /\ \A n \in Results(i) : event[i][n] = "pending" => item[i].status \in {"reported", "settled"}

\* An attempt is said to be running only while its item is, under its claim:
\* lapsed, stopped, cancelled and reported attempts are closed.
AttemptsClosed ==
  \A i \in Items, n \in Claims :
    attempt[i][n] = "running" => item[i].status = "running" /\ item[i].claim = n

\* A handler is started only so often, however its processes die: its tries,
\* and for a resumable one the attempts lost besides.
StartsBounded ==
  \A i \in Items : ran[i] <= IF Resumable THEN MaxAttempts + MaxLost ELSE MaxAttempts

\* A lease that lapsed or was given up never comes back: the item is claimed
\* anew, so no late renewal holds up the next process.
LeaseNotRevived ==
  [][\A i \in Items : item'[i].live /\ ~item[i].live => item'[i].claim > item[i].claim]_vars

\* What a later attempt has checkpointed is never written over by an earlier
\* one that does not know it lost its lease.
CheckpointsMoveOn ==
  [][\A i \in Items : item'[i].checkpoint >= item[i].checkpoint]_vars

\* Once an item is cancelled its result is never accepted, reported or not.
CancelledNotAccepted ==
  [][\A i \in Items, n \in Claims :
       item[i].cancelled /\ event[i][n] # "accepted" => event'[i][n] # "accepted"]_vars

\* Every item is settled in the end, unless its result was skipped.
EveryItemSettles ==
  \A i \in Items :
    item[i].status = "queued" ~>
      item[i].status = "settled" \/ \E n \in Claims : event[i][n] = "skipped"
-----------------------------------------------------------------------------
(* What the documentation says *)

\* A process that is stopping aborts the handlers it runs
\* (services.ts, "A process stopping aborts it too").
StopReachesHandlers ==
  \A i \in Items, n \in Claims :
    run[i][n].at = "handling" /\ run[i][n].proc \in stopping => run[i][n].told
=============================================================================
