----------------------------- MODULE WorkProofs -----------------------------
(***************************************************************************)
(* Proofs about work items, for any number of processes and items, any     *)
(* limit, tries and lost attempts, and any number of crashes, lapses,      *)
(* outages, refused reports and stops.                                     *)
(***************************************************************************)
EXTENDS WorkItems, FiniteSetTheorems, TLAPS

-----------------------------------------------------------------------------
(* The inductive invariant *)

\* A row has a claim while it is running and only then; it is that of its
\* last attempt, and nothing was checkpointed by an attempt not yet made.
RowsAgree ==
  \A i \in Items :
    /\ item[i].status # "running" => item[i].claim = NoClaim /\ ~item[i].live
    /\ item[i].status = "running" => item[i].claim = item[i].attempts /\ item[i].attempts \in Claims
    /\ item[i].status = "none" => item[i].attempts = 0 /\ item[i].lost = 0
    /\ item[i].checkpoint <= item[i].attempts

\* Nothing has happened under a claim not yet made.
Unclaimed ==
  \A i \in Items, n \in Claims :
    n > item[i].attempts =>
      run[i][n].at = "none" /\ attempt[i][n] = "none" /\ event[i][n] = "none"

\* One attempt at most has a result, whose item is out of reach of the others.
OneReported ==
  \A i \in Items :
    /\ \A m, n \in Claims : event[i][m] # "none" /\ event[i][n] # "none" => m = n
    /\ \A n \in Claims : event[i][n] # "none" => item[i].status \in {"reported", "settled"}
    /\ item[i].status = "reported" => \E n \in Claims : event[i][n] # "none"

\* One process at a time is in a claim's transaction, and what it may take
\* fits beside the items that are live: no other step adds to those.
OneClaims ==
  \A p, q \in Procs : claiming[p] > 0 /\ claiming[q] > 0 => p = q
RoomLeft ==
  /\ Cardinality(Live) <= Limit
  /\ \A p \in Procs : Cardinality(Live) + claiming[p] <= Limit

\* What is reported has an outcome.
HasReport == \A i \in Items, n \in Claims : Reporting(run[i][n]) => run[i][n].report # "none"

\* A try is left to an attempt that reports a retry, to an item that waits
\* for one, and so to the next claim; lost attempts of a resumable handler do
\* not count.
RetryHasTry ==
  \A i \in Items, n \in Claims : run[i][n].report = "retry" => Tries(i, n) < MaxAttempts
TriesLeft ==
  Resumable =>
    \A i \in Items :
      /\ item[i].status = "queued" => item[i].attempts - item[i].lost < MaxAttempts
      /\ item[i].status = "running" =>
           /\ item[i].attempts - item[i].lost <= MaxAttempts
           /\ run[i][item[i].attempts].lost = item[i].lost
      /\ \A n \in Claims : run[i][n].at # "none" => n - run[i][n].lost <= MaxAttempts

\* The attempts whose handler may have been started, each at most once.
Begun(i) == {n \in Claims : run[i][n].at \notin {"none", "claimed"} /\ ~Spent(i, n)}
StartsCounted == \A i \in Items : ran[i] <= Cardinality(Begun(i))

WorkInv ==
  /\ WorkTypeOK /\ HasReport /\ RowsAgree /\ Unclaimed /\ AttemptsClosed /\ OneReported
  /\ OneClaims /\ RoomLeft
  /\ RetryHasTry /\ TriesLeft /\ StartsCounted
-----------------------------------------------------------------------------
(* Sets of items and of claims *)

\* Any set of items is finite, and so is any set of claims.
LEMMA ItemSets ==
  ASSUME NEW S \in SUBSET Items
  PROVE  IsFiniteSet(S) /\ Cardinality(S) \in Nat
BY WorkSets, FS_Subset, FS_CardinalityType

LEMMA ClaimSets ==
  /\ \A S \in SUBSET Claims : IsFiniteSet(S) /\ Cardinality(S) \in Nat
  /\ \A S \in SUBSET (Items \X Claims) : IsFiniteSet(S) /\ Cardinality(S) \in Nat
<1>1. IsFiniteSet(Claims)
  BY WorkBounds, FS_Interval DEF Claims
<1>2. IsFiniteSet(Items \X Claims)
  BY <1>1, WorkSets, FS_Product
<1> QED
  BY <1>1, <1>2, FS_Subset, FS_CardinalityType

\* What a process may take is within the limit, beside the items that are live.
LEMMA TakeBounded ==
  ASSUME NEW p \in Procs, Take(p) > 0
  PROVE  Take(p) \in 0..Limit /\ Cardinality(Live) + Take(p) <= Limit
<1>1. Cardinality(Live) \in Nat
  BY ItemSets DEF Live
<1>2. Cardinality(RunsOf(p)) \in Nat
  BY ClaimSets DEF RunsOf
<1> QED
  BY <1>1, <1>2, KindAssumption DEF Take, Least
-----------------------------------------------------------------------------
(* Types *)

LEMMA Values ==
  /\ NoItem \in Rows /\ NoRun \in Runs
  /\ NoRun.at = "none" /\ NoRun.lost = 0 /\ NoRun.report = "none"
<1>1. (CHOOSE p \in Procs : TRUE) \in Procs
  BY WorkSets
<1> QED
  BY <1>1, WorkBounds DEF NoItem, Rows, NoRun, Runs, NoClaim, Claims, Outcomes

\* A change of one item, of one attempt or of one run keeps the tables typed.
LEMMA RowWritten ==
  ASSUME WorkTypeOK, NEW i \in Items, NEW r \in Rows, item' = [item EXCEPT ![i] = r]
  PROVE  item' \in [Items -> Rows]
BY DEF WorkTypeOK

\* Writing several columns of a row is writing the row.
LEMMA RowForms ==
  ASSUME WorkTypeOK, NEW i \in Items, NEW s, NEW c, NEW l, NEW d
  PROVE  /\ [item EXCEPT ![i].status = s, ![i].due = d]
           = [item EXCEPT ![i] = [item[i] EXCEPT !.status = s, !.due = d]]
         /\ [item EXCEPT ![i].status = s, ![i].claim = c, ![i].live = l, ![i].cancelled = d]
           = [item EXCEPT ![i] = [item[i] EXCEPT !.status = s, !.claim = c, !.live = l, !.cancelled = d]]
         /\ [item EXCEPT ![i].status = s, ![i].claim = c, ![i].live = l, ![i].due = d]
           = [item EXCEPT ![i] = [item[i] EXCEPT !.status = s, !.claim = c, !.live = l, !.due = d]]
         /\ [item EXCEPT ![i].checkpoint = c, ![i].live = l]
           = [item EXCEPT ![i] = [item[i] EXCEPT !.checkpoint = c, !.live = l]]
<1> USE DEF WorkTypeOK
<1>1. [item EXCEPT ![i].status = s, ![i].due = d]
    = [item EXCEPT ![i] = [item[i] EXCEPT !.status = s, !.due = d]]
  OBVIOUS
<1>2. [item EXCEPT ![i].status = s, ![i].claim = c, ![i].live = l, ![i].cancelled = d]
    = [item EXCEPT ![i] = [item[i] EXCEPT !.status = s, !.claim = c, !.live = l, !.cancelled = d]]
  OBVIOUS
<1>3. [item EXCEPT ![i].status = s, ![i].claim = c, ![i].live = l, ![i].due = d]
    = [item EXCEPT ![i] = [item[i] EXCEPT !.status = s, !.claim = c, !.live = l, !.due = d]]
  OBVIOUS
<1>4. [item EXCEPT ![i].checkpoint = c, ![i].live = l]
    = [item EXCEPT ![i] = [item[i] EXCEPT !.checkpoint = c, !.live = l]]
  OBVIOUS
<1> QED
  BY <1>1, <1>2, <1>3, <1>4

LEMMA InitTyped == Init => WorkTypeOK
BY Values, KindAssumption, WorkBounds DEF Init, WorkTypeOK

LEMMA ClosedTyped ==
  ASSUME WorkTypeOK, NEW i \in Items, NEW o \in Outcomes \cup {"lost"}
  PROVE  Closed(i, o) \in [Items -> [Claims -> Outcomes \cup {"none", "running", "lost"}]]
BY DEF WorkTypeOK, Closed

LEMMA FailureTyped ==
  ASSUME NEW i \in Items, NEW n \in Claims, NEW permanent \in BOOLEAN
  PROVE  Failure(i, n, permanent) \in Outcomes
BY DEF Failure, Outcomes

LEMMA WrittenTyped ==
  ASSUME WorkTypeOK, NEW i \in Items, NEW n \in Claims, Reporting(run[i][n]), Written(i, n),
         run[i][n].report # "none"
  PROVE  /\ item' \in [Items -> Rows]
         /\ attempt' \in [Items -> [Claims -> Outcomes \cup {"none", "running", "lost"}]]
         /\ event' \in [Items -> [Claims -> {"none", "pending", "accepted", "rejected", "cancelled",
                                     "unknown", "skipped"}]]
<1>1. run[i][n].report \in Outcomes
  BY DEF WorkTypeOK, Runs
<1>2. item' \in [Items -> Rows]
  <2> DEFINE st == IF run[i][n].report = "retry" THEN "queued" ELSE "reported"
  <2>1. item' = [item EXCEPT ![i].status = st, ![i].claim = NoClaim, ![i].live = FALSE,
                             ![i].due = FALSE]
    BY DEF Written
  <2>2. st \in {"queued", "reported"} /\ item[i] \in Rows
    BY DEF WorkTypeOK
  <2> HIDE DEF st
  <2>3. item' = [item EXCEPT ![i] = [item[i] EXCEPT !.status = st, !.claim = NoClaim,
                                                    !.live = FALSE, !.due = FALSE]]
    BY <2>1, RowForms, Zenon
  <2>4. [item[i] EXCEPT !.status = st, !.claim = NoClaim, !.live = FALSE, !.due = FALSE] \in Rows
    BY <2>2 DEF Rows, NoClaim
  <2> QED
    BY <2>3, <2>4, RowWritten
<1>3. attempt' \in [Items -> [Claims -> Outcomes \cup {"none", "running", "lost"}]]
  BY <1>1 DEF Written, WorkTypeOK
<1>4. event' \in [Items -> [Claims -> {"none", "pending", "accepted", "rejected", "cancelled",
                                     "unknown", "skipped"}]]
  BY DEF Written, WorkTypeOK
<1> QED
  BY <1>2, <1>3, <1>4

\* A step of the pipeline keeps the types.
LEMMA PipelineTyped ==
  ASSUME WorkTypeOK, NEW i \in Items,
         (\E due \in BOOLEAN : Emit(i, due)) \/ Cancel(i) \/ \E n \in Claims : Settle(i, n) \/ Skip(i, n)
  PROVE  WorkTypeOK'
<1>0. item[i] \in Rows
  BY DEF WorkTypeOK
<1>1. ASSUME NEW due \in BOOLEAN, Emit(i, due) PROVE WorkTypeOK'
  <2>1. item' = [item EXCEPT ![i] = [item[i] EXCEPT !.status = "queued", !.due = due]]
    BY <1>1, RowForms, Zenon DEF Emit
  <2>2. [item[i] EXCEPT !.status = "queued", !.due = due] \in Rows
    BY <1>0 DEF Rows, NoClaim
  <2>3. item' \in [Items -> Rows]
    BY <2>1, <2>2, RowWritten
  <2> QED
    BY <1>1, <2>3 DEF Emit, WorkTypeOK, pipelineOnly
<1>2. CASE Cancel(i)
  <2>1. item' = [item EXCEPT ![i] = [item[i] EXCEPT !.status = "settled", !.claim = NoClaim,
                                                    !.live = FALSE, !.cancelled = TRUE]]
    BY <1>2, RowForms, Zenon DEF Cancel
  <2>2. [item[i] EXCEPT !.status = "settled", !.claim = NoClaim, !.live = FALSE,
                        !.cancelled = TRUE] \in Rows
    BY <1>0 DEF Rows, NoClaim
  <2>3. item' \in [Items -> Rows]
    BY <2>1, <2>2, RowWritten
  <2>4. attempt' \in [Items -> [Claims -> Outcomes \cup {"none", "running", "lost"}]]
    BY <1>2, ClosedTyped DEF Cancel
  <2> QED
    BY <1>2, <2>3, <2>4 DEF Cancel, WorkTypeOK, pipelineOnly
<1>3. ASSUME NEW n \in Claims, Settle(i, n) PROVE WorkTypeOK'
  <2>1. [item EXCEPT ![i].status = "settled"] = [item EXCEPT ![i] = [item[i] EXCEPT !.status = "settled"]]
    BY DEF WorkTypeOK
  <2>2. [item[i] EXCEPT !.status = "settled"] \in Rows
    BY <1>0 DEF Rows, NoClaim
  <2>3. item' \in [Items -> Rows]
    BY <1>3, <2>1, <2>2, RowWritten DEF Settle, WorkTypeOK
  <2>4. PICK how \in {"accepted", "rejected"} : event' = [event EXCEPT ![i][n] = Verdict(i, how)]
    BY <1>3 DEF Settle
  <2>5. Verdict(i, how) \in {"accepted", "rejected", "cancelled", "unknown"}
    BY DEF Verdict
  <2> QED
    BY <1>3, <2>3, <2>4, <2>5 DEF Settle, WorkTypeOK, pipelineOnly
<1>4. ASSUME NEW n \in Claims, Skip(i, n) PROVE WorkTypeOK'
  BY <1>4 DEF Skip, WorkTypeOK, pipelineOnly
<1> QED
  BY <1>1, <1>2, <1>3, <1>4

\* What a claim writes for an item that is due.
LEMMA ClaimedTyped ==
  ASSUME WorkTypeOK, NEW i \in Due
  PROVE  /\ i \in Items /\ item[i].attempts + 1 \in Claims
         /\ Claimed(i) \in Rows
         /\ Claimed(i).status = "running" /\ Claimed(i).live
         /\ Claimed(i).claim = item[i].attempts + 1 /\ Claimed(i).attempts = item[i].attempts + 1
         /\ Claimed(i).checkpoint = item[i].checkpoint /\ Claimed(i).cancelled = item[i].cancelled
         /\ Claimed(i).lost = IF item[i].status = "running" THEN item[i].lost + 1 ELSE item[i].lost
<1>1. item[i] \in Rows /\ i \in Items /\ item[i].attempts < MaxClaims
  BY DEF Due, WorkTypeOK
<1>2. item[i].attempts + 1 \in Claims
  BY <1>1, WorkBounds DEF Rows, Claims
<1> DEFINE k == IF item[i].status = "running" THEN item[i].lost + 1 ELSE item[i].lost
<1>3. k \in Nat
  BY <1>1 DEF Rows
<1>4. Claimed(i) = [item[i] EXCEPT !.status = "running", !.claim = item[i].attempts + 1, !.live = TRUE,
                                   !.attempts = item[i].attempts + 1, !.lost = k]
  BY <1>1 DEF Claimed, Rows
<1> HIDE DEF k
<1>5. Claimed(i) \in Rows
  BY <1>1, <1>2, <1>3, <1>4 DEF Rows
<1>6. /\ Claimed(i).status = "running" /\ Claimed(i).live
      /\ Claimed(i).claim = item[i].attempts + 1 /\ Claimed(i).attempts = item[i].attempts + 1
      /\ Claimed(i).checkpoint = item[i].checkpoint /\ Claimed(i).cancelled = item[i].cancelled
      /\ Claimed(i).lost = k
  BY <1>1, <1>4 DEF Rows
<1> QED
  BY <1>1, <1>2, <1>5, <1>6 DEF k

\* The record of the run that a claim starts.
Started(p, i) == [NoRun EXCEPT !.at = "claimed", !.proc = p, !.lost = Claimed(i).lost]

LEMMA StartedTyped ==
  ASSUME WorkTypeOK, NEW p \in Procs, NEW i \in Due
  PROVE  /\ Started(p, i) \in Runs
         /\ Started(p, i).at = "claimed" /\ Started(p, i).lost = Claimed(i).lost
         /\ Started(p, i).report = "none"
<1>1. Claimed(i).lost \in Nat
  BY ClaimedTyped DEF Rows
<1> QED
  BY <1>1, Values DEF Started, Runs

\* What the end of a claim writes, item by item.
LEMMA EndClaimForms ==
  ASSUME WorkTypeOK, NEW p \in Procs, EndClaim(p)
  PROVE  \E taken \in SUBSET Due :
           /\ Cardinality(taken) <= claiming[p]
           /\ \A i \in Items : i \notin taken =>
                item'[i] = item[i] /\ attempt'[i] = attempt[i] /\ run'[i] = run[i]
           /\ \A i \in taken :
                /\ item'[i] = Claimed(i)
                /\ attempt'[i] = [Closed(i, "lost")[i] EXCEPT ![item[i].attempts + 1] = "running"]
                /\ run'[i] = [run[i] EXCEPT ![item[i].attempts + 1] = Started(p, i)]
           /\ item' \in [Items -> Rows] /\ run' \in [Items -> [Claims -> Runs]]
           /\ attempt' \in [Items -> [Claims -> Outcomes \cup {"none", "running", "lost"}]]
<1> PICK taken \in SUBSET Due :
       /\ Cardinality(taken) = Least(claiming[p], Cardinality(Due))
       /\ item' = [i \in Items |-> IF i \in taken THEN Claimed(i) ELSE item[i]]
       /\ attempt' = [i \in Items |-> IF i \notin taken THEN attempt[i]
                        ELSE [Closed(i, "lost")[i] EXCEPT ![item[i].attempts + 1] = "running"]]
       /\ run' = [i \in Items |-> IF i \notin taken THEN run[i]
                    ELSE [run[i] EXCEPT ![item[i].attempts + 1] = Started(p, i)]]
  BY DEF EndClaim, Started
<1>1. Cardinality(taken) <= claiming[p]
  <2>1. Cardinality(Due) \in Nat
    BY ItemSets DEF Due
  <2>2. claiming[p] \in Nat
    BY KindAssumption DEF WorkTypeOK
  <2> QED
    BY <2>1, <2>2 DEF Least
<1>2. taken \subseteq Items
  BY DEF Due
<1>3. item' \in [Items -> Rows]
  <2>1. \A i \in Items : (IF i \in taken THEN Claimed(i) ELSE item[i]) \in Rows
    BY ClaimedTyped DEF WorkTypeOK
  <2> QED
    BY <2>1
<1>4. run' \in [Items -> [Claims -> Runs]]
  <2>1. ASSUME NEW i \in taken
        PROVE  [run[i] EXCEPT ![item[i].attempts + 1] = Started(p, i)] \in [Claims -> Runs]
    BY <1>2, StartedTyped DEF WorkTypeOK
  <2> QED
    BY <2>1 DEF WorkTypeOK
<1>5. attempt' \in [Items -> [Claims -> Outcomes \cup {"none", "running", "lost"}]]
  <2>1. ASSUME NEW i \in taken
        PROVE  [Closed(i, "lost")[i] EXCEPT ![item[i].attempts + 1] = "running"]
                 \in [Claims -> Outcomes \cup {"none", "running", "lost"}]
    <3>1. Closed(i, "lost")[i] \in [Claims -> Outcomes \cup {"none", "running", "lost"}]
      BY <1>2, ClosedTyped
    <3> QED
      BY <3>1
  <2> QED
    BY <2>1 DEF WorkTypeOK
<1> QED
  BY <1>1, <1>2, <1>3, <1>4, <1>5

\* A process that stops or dies changes the records of its runs.
LEMMA RunValues ==
  ASSUME NEW r \in Runs
  PROVE  [r EXCEPT !.told = TRUE] \in Runs /\ [r EXCEPT !.at = "ended"] \in Runs
BY DEF Runs

\* A step of a process keeps the types.
LEMMA ProcessTyped ==
  ASSUME WorkTypeOK, NEW p \in Procs, ProcStep(p)
  PROVE  WorkTypeOK'
<1>0. 0 \in 0..Limit
  BY KindAssumption
<1>1. CASE StartClaim(p)
  <2>1. claiming' \in [Procs -> 0..Limit]
    BY <1>1, TakeBounded DEF StartClaim, WorkTypeOK
  <2> QED
    BY <1>1, <2>1 DEF StartClaim, WorkTypeOK
<1>2. CASE EndClaim(p)
  <2>1. /\ item' \in [Items -> Rows] /\ run' \in [Items -> [Claims -> Runs]]
        /\ attempt' \in [Items -> [Claims -> Outcomes \cup {"none", "running", "lost"}]]
    BY <1>2, EndClaimForms
  <2>2. claiming' \in [Procs -> 0..Limit]
    BY <1>2, <1>0 DEF EndClaim, WorkTypeOK
  <2> QED
    BY <1>2, <2>1, <2>2 DEF EndClaim, WorkTypeOK
<1>3. CASE Stop(p)
  <2>1. \A i \in Items, n \in Claims : run[i][n] \in Runs /\ [run[i][n] EXCEPT !.told = TRUE] \in Runs
    <3>1. \A i \in Items, n \in Claims : run[i][n] \in Runs
      BY DEF WorkTypeOK
    <3> QED
      BY <3>1, RunValues
  <2>2. run' \in [Items -> [Claims -> Runs]]
    BY <1>3, <2>1 DEF Stop
  <2>3. stops' \in 0..MaxStops
    BY <1>3, WorkBounds DEF Stop, WorkTypeOK
  <2> QED
    BY <1>3, <2>2, <2>3 DEF Stop, WorkTypeOK
<1>4. CASE Crash(p)
  <2>1. \A i \in Items, n \in Claims : run[i][n] \in Runs /\ [run[i][n] EXCEPT !.at = "ended"] \in Runs
    <3>1. \A i \in Items, n \in Claims : run[i][n] \in Runs
      BY DEF WorkTypeOK
    <3> QED
      BY <3>1, RunValues
  <2>2. run' \in [Items -> [Claims -> Runs]]
    BY <1>4, <2>1 DEF Crash, Gone
  <2>3. faults' \in 0..MaxFaults
    BY <1>4, WorkBounds DEF Crash, WorkTypeOK
  <2>4. claiming' \in [Procs -> 0..Limit]
    BY <1>4, <1>0 DEF Crash, WorkTypeOK
  <2> QED
    BY <1>4, <2>2, <2>3, <2>4 DEF Crash, WorkTypeOK
<1>5. CASE Restart(p)
  BY <1>5 DEF Restart, WorkTypeOK
<1> QED
  BY <1>1, <1>2, <1>3, <1>4, <1>5 DEF ProcStep

\* What a step of a run leaves in its record: the run has begun and goes on,
\* under the claim it had; what it reports has an outcome; and a retry is
\* reported only while a try is left.
Advanced(i, n, r) ==
  /\ run' = [run EXCEPT ![i][n] = r]
  /\ r \in Runs /\ r.lost = run[i][n].lost /\ r.proc = run[i][n].proc
  /\ run[i][n].at # "none" /\ r.at \notin {"none", "claimed"}
  /\ Reporting(r) => r.report # "none"
  /\ r.report = "retry" => run[i][n].report = "retry" \/ Tries(i, n) < MaxAttempts

LEMMA FailureRetries ==
  ASSUME WorkTypeOK, NEW i \in Items, NEW n \in Claims, NEW permanent \in BOOLEAN,
         Failure(i, n, permanent) = "retry"
  PROVE  Tries(i, n) < MaxAttempts
<1>1. Tries(i, n) \in Int
  BY WorkBounds DEF Tries, WorkTypeOK, Runs, Claims
<1> QED
  BY <1>1, KindAssumption DEF Failure

LEMMA RunStepForms ==
  ASSUME WorkTypeOK, HasReport, NEW i \in Items, NEW n \in Claims, RunStep(i, n)
  PROVE  \E r \in Runs : Advanced(i, n, r)
<1>0. run[i][n] \in Runs /\ run \in [Items -> [Claims -> Runs]]
  BY DEF WorkTypeOK
<1>1. CASE Execute(i, n)
  <2>1. CASE Spent(i, n)
    <3> DEFINE r == [run[i][n] EXCEPT !.at = "exhausting", !.report = "exhausted"]
    <3>1. run' = [run EXCEPT ![i][n] = r]
      BY <1>0, <1>1, <2>1 DEF Execute
    <3>2. Advanced(i, n, r)
      BY <1>0, <1>1, <3>1 DEF Execute, Advanced, Runs, Outcomes, Reporting
    <3> QED
      BY <3>2 DEF Advanced
  <2>2. CASE ~Spent(i, n)
    <3> DEFINE r == [run[i][n] EXCEPT !.at = "handling"]
    <3>1. run' = [run EXCEPT ![i][n] = r]
      BY <1>0, <1>1, <2>2 DEF Execute
    <3>2. Advanced(i, n, r)
      BY <1>0, <1>1, <3>1 DEF Execute, Advanced, Runs, Reporting
    <3> QED
      BY <3>2 DEF Advanced
  <2> QED
    BY <2>1, <2>2
<1>2. CASE Renew(i, n) \/ SelfStop(i, n)
  <2> DEFINE r == [run[i][n] EXCEPT !.leaseLost = TRUE]
  <2>1. run' = [run EXCEPT ![i][n] = r] /\ run[i][n].at = "handling"
    BY <1>0, <1>2 DEF Renew, SelfStop
  <2>2. Advanced(i, n, r)
    BY <1>0, <2>1 DEF Advanced, Runs, Reporting
  <2> QED
    BY <2>2 DEF Advanced
<1>3. CASE Checkpoint(i, n)
  <2>1. run' = [run EXCEPT ![i][n] = run[i][n]] /\ run[i][n].at = "handling"
    BY <1>0, <1>3 DEF Checkpoint
  <2>2. Advanced(i, n, run[i][n])
    BY <1>0, <2>1 DEF Advanced, Reporting
  <2> QED
    BY <1>0, <2>2
<1>4. CASE HandlerReturns(i, n)
  <2> DEFINE at == IF run[i][n].leaseLost THEN "ended" ELSE "reporting"
  <2> DEFINE r == [run[i][n] EXCEPT !.at = at, !.report = "succeeded"]
  <2>1. run[i][n].at = "handling" /\ at \in {"ended", "reporting"}
    BY <1>4 DEF HandlerReturns
  <2>2. run' = [run EXCEPT ![i][n] = r]
    <3>1. run' = [run EXCEPT ![i][n].at = at, ![i][n].report = "succeeded"]
      BY <1>4 DEF HandlerReturns
    <3> HIDE DEF at
    <3> QED
      BY <1>0, <3>1
  <2> HIDE DEF at
  <2>3. Advanced(i, n, r)
    BY <1>0, <2>1, <2>2 DEF Advanced, Runs, Reporting, Outcomes
  <2> QED
    BY <2>3 DEF Advanced
<1>5. CASE HandlerThrows(i, n)
  <2>1. run[i][n].at = "handling"
    BY <1>5 DEF HandlerThrows
  <2>2. ASSUME NEW at \in {"ended", "givingUp"}, run' = [run EXCEPT ![i][n].at = at]
        PROVE  \E r \in Runs : Advanced(i, n, r)
    <3> DEFINE r == [run[i][n] EXCEPT !.at = at]
    <3>1. run' = [run EXCEPT ![i][n] = r]
      BY <1>0, <2>2
    <3>2. Advanced(i, n, r)
      BY <1>0, <2>1, <2>2, <3>1 DEF Advanced, Runs, Reporting
    <3> QED
      BY <3>2 DEF Advanced
  <2>3. ASSUME NEW permanent \in BOOLEAN,
               run' = [run EXCEPT ![i][n].at = "reporting", ![i][n].report = Failure(i, n, permanent)]
        PROVE  \E r \in Runs : Advanced(i, n, r)
    <3> DEFINE o == Failure(i, n, permanent)
    <3> DEFINE r == [run[i][n] EXCEPT !.at = "reporting", !.report = o]
    <3>1. o \in Outcomes /\ (o = "retry" => Tries(i, n) < MaxAttempts)
      BY FailureTyped, FailureRetries
    <3>2. run' = [run EXCEPT ![i][n] = r]
      BY <1>0, <2>3
    <3> HIDE DEF o
    <3>3. Advanced(i, n, r)
      BY <1>0, <2>1, <3>1, <3>2 DEF Advanced, Runs, Outcomes, Reporting
    <3> QED
      BY <3>3 DEF Advanced
  <2> QED
    BY <1>5, <2>2, <2>3 DEF HandlerThrows
<1>6. CASE GiveUp(i, n) \/ Report(i, n)
  <2> DEFINE r == [run[i][n] EXCEPT !.at = "ended"]
  <2>1. run' = [run EXCEPT ![i][n] = r] /\ run[i][n].at # "none"
    BY <1>0, <1>6 DEF GiveUp, Report, Reporting
  <2>2. Advanced(i, n, r)
    BY <1>0, <2>1 DEF Advanced, Runs, Reporting
  <2> QED
    BY <2>2 DEF Advanced
<1>7. CASE ReportThrows(i, n)
  <2>1. run[i][n].at # "none"
    BY <1>7 DEF ReportThrows, Reporting
  <2>2. CASE run' = [run EXCEPT ![i][n].at = "ended"]
    <3> DEFINE r == [run[i][n] EXCEPT !.at = "ended"]
    <3>1. run' = [run EXCEPT ![i][n] = r]
      BY <1>0, <2>2
    <3>2. Advanced(i, n, r)
      BY <1>0, <2>1, <3>1 DEF Advanced, Runs, Reporting
    <3> QED
      BY <3>2 DEF Advanced
  <2>3. ASSUME NEW permanent \in BOOLEAN,
               run' = [run EXCEPT ![i][n].at = "again", ![i][n].report = Failure(i, n, permanent)]
        PROVE  \E r \in Runs : Advanced(i, n, r)
    <3> DEFINE o == Failure(i, n, permanent)
    <3> DEFINE r == [run[i][n] EXCEPT !.at = "again", !.report = o]
    <3>1. o \in Outcomes /\ (o = "retry" => Tries(i, n) < MaxAttempts)
      BY FailureTyped, FailureRetries
    <3>2. run' = [run EXCEPT ![i][n] = r]
      BY <1>0, <2>3
    <3> HIDE DEF o
    <3>3. Advanced(i, n, r)
      BY <1>0, <2>1, <3>1, <3>2 DEF Advanced, Runs, Outcomes, Reporting
    <3> QED
      BY <3>3 DEF Advanced
  <2> QED
    BY <1>7, <2>2, <2>3 DEF ReportThrows
<1> QED
  BY <1>1, <1>2, <1>3, <1>4, <1>5, <1>6, <1>7 DEF RunStep, Handler

\* What a step of a run does to the other tables.
LEMMA RunStepRows ==
  ASSUME WorkTypeOK, NEW i \in Items, NEW n \in Claims, RunStep(i, n)
  PROVE  /\ UNCHANGED <<claiming, stopping, stops>>
         /\ \/ UNCHANGED <<item, attempt, event>>
            \/ Checkpoint(i, n)
            \/ /\ Holds(i, n) /\ item' = [item EXCEPT ![i].live = FALSE]
               /\ attempt' = Closed(i, "lost") /\ UNCHANGED event
            \/ Holds(i, n) /\ Reporting(run[i][n]) /\ Written(i, n)
         /\ \/ UNCHANGED ran
            \/ /\ run[i][n].at = "claimed" /\ ~Spent(i, n) /\ ran' = [ran EXCEPT ![i] = @ + 1]
               /\ run' = [run EXCEPT ![i][n].at = "handling"]
         /\ faults' \in 0..MaxFaults
<1>1. faults \in 0..MaxFaults /\ (faults < MaxFaults => faults + 1 \in 0..MaxFaults)
  BY WorkBounds DEF WorkTypeOK
<1>2. CASE Execute(i, n)
  BY <1>1, <1>2 DEF Execute, runOnly
<1>3. CASE Renew(i, n) \/ Handler(i, n)
  BY <1>1, <1>3 DEF Renew, Handler, HandlerReturns, HandlerThrows, runOnly
<1>4. CASE Checkpoint(i, n)
  BY <1>1, <1>4 DEF Checkpoint
<1>5. CASE GiveUp(i, n)
  BY <1>1, <1>5 DEF GiveUp
<1>6. CASE Report(i, n)
  BY <1>1, <1>6 DEF Report
<1>7. CASE ReportThrows(i, n)
  BY <1>1, <1>7 DEF ReportThrows
<1>8. CASE SelfStop(i, n)
  BY <1>1, <1>8 DEF SelfStop
<1> QED
  BY <1>2, <1>3, <1>4, <1>5, <1>6, <1>7, <1>8 DEF RunStep

LEMMA RunTyped ==
  ASSUME WorkTypeOK, HasReport, NEW i \in Items, NEW n \in Claims, RunStep(i, n)
  PROVE  WorkTypeOK'
<1>0. item[i] \in Rows
  BY DEF WorkTypeOK
<1>1. run' \in [Items -> [Claims -> Runs]]
  <2> PICK r \in Runs : run' = [run EXCEPT ![i][n] = r]
    BY RunStepForms DEF Advanced
  <2> QED
    BY DEF WorkTypeOK
<1>2. ran' \in [Items -> Nat]
  BY RunStepRows DEF WorkTypeOK
<1>3. /\ item' \in [Items -> Rows]
      /\ attempt' \in [Items -> [Claims -> Outcomes \cup {"none", "running", "lost"}]]
      /\ event' \in [Items -> [Claims -> {"none", "pending", "accepted", "rejected", "cancelled",
                                     "unknown", "skipped"}]]
  <2>1. CASE UNCHANGED <<item, attempt, event>>
    BY <2>1 DEF WorkTypeOK
  <2>2. CASE Checkpoint(i, n)
    <3>1. item' = [item EXCEPT ![i] = [item[i] EXCEPT !.checkpoint = n, !.live = TRUE]]
      BY <2>2, RowForms, Zenon DEF Checkpoint
    <3>2. [item[i] EXCEPT !.checkpoint = n, !.live = TRUE] \in Rows
      BY <1>0 DEF Rows
    <3>3. item' \in [Items -> Rows]
      BY <3>1, <3>2, RowWritten
    <3> QED
      BY <2>2, <3>3 DEF Checkpoint, WorkTypeOK
  <2>3. CASE /\ item' = [item EXCEPT ![i].live = FALSE]
             /\ attempt' = Closed(i, "lost") /\ UNCHANGED event
    <3>1. item' = [item EXCEPT ![i] = [item[i] EXCEPT !.live = FALSE]]
      BY <2>3 DEF WorkTypeOK
    <3>2. [item[i] EXCEPT !.live = FALSE] \in Rows
      BY <1>0 DEF Rows
    <3>3. item' \in [Items -> Rows]
      BY <3>1, <3>2, RowWritten
    <3> QED
      BY <2>3, <3>3, ClosedTyped DEF WorkTypeOK
  <2>4. CASE Reporting(run[i][n]) /\ Written(i, n)
    BY <2>4, WrittenTyped DEF HasReport
  <2> QED
    BY <2>1, <2>2, <2>3, <2>4, RunStepRows
<1> QED
  BY <1>1, <1>2, <1>3, RunStepRows DEF WorkTypeOK

LEMMA TimeTyped ==
  ASSUME WorkTypeOK, NEW i \in Items, BecomesDue(i) \/ Lapse(i)
  PROVE  WorkTypeOK'
<1>0. item[i] \in Rows
  BY DEF WorkTypeOK
<1>1. CASE BecomesDue(i)
  <2>1. item' = [item EXCEPT ![i] = [item[i] EXCEPT !.due = TRUE]]
    BY <1>1 DEF BecomesDue, WorkTypeOK
  <2>2. [item[i] EXCEPT !.due = TRUE] \in Rows
    BY <1>0 DEF Rows
  <2>3. item' \in [Items -> Rows]
    BY <2>1, <2>2, RowWritten
  <2> QED
    BY <1>1, <2>3 DEF BecomesDue, WorkTypeOK
<1>2. CASE Lapse(i)
  <2>1. item' = [item EXCEPT ![i] = [item[i] EXCEPT !.live = FALSE]]
    BY <1>2 DEF Lapse, WorkTypeOK
  <2>2. [item[i] EXCEPT !.live = FALSE] \in Rows
    BY <1>0 DEF Rows
  <2>3. item' \in [Items -> Rows]
    BY <2>1, <2>2, RowWritten
  <2>4. faults' \in 0..MaxFaults
    BY <1>2, WorkBounds DEF Lapse, WorkTypeOK
  <2> QED
    BY <1>2, <2>3, <2>4 DEF Lapse, WorkTypeOK
<1> QED
  BY <1>1, <1>2

LEMMA NextTyped == WorkTypeOK /\ HasReport /\ [Next]_vars => WorkTypeOK'
<1> SUFFICES ASSUME WorkTypeOK, HasReport, [Next]_vars PROVE WorkTypeOK'
  OBVIOUS
<1>1. CASE UNCHANGED vars
  BY <1>1 DEF vars, WorkTypeOK
<1>2. CASE Next
  BY <1>1, <1>2, PipelineTyped, TimeTyped, RunTyped, ProcessTyped DEF Next, Quiet
<1> QED
  BY <1>1, <1>2
-----------------------------------------------------------------------------
(* What a step may do to one item: every action, told by the item          *)

\* Its row is left with this status, claim, lease and checkpoint; its counts
\* are only changed by a claim.
RowTo(j, status, claim, live, checkpoint) ==
  /\ item'[j].status = status /\ item'[j].claim = claim /\ item'[j].live = live
  /\ item'[j].checkpoint = checkpoint
  /\ item'[j].attempts = item[j].attempts /\ item'[j].lost = item[j].lost

ItemUntouched(j) == item'[j] = item[j] /\ attempt'[j] = attempt[j] /\ event'[j] = event[j]
ItemAskedFor(j) ==
  /\ item[j].status = "none"
  /\ RowTo(j, "queued", item[j].claim, item[j].live, item[j].checkpoint)
  /\ attempt'[j] = attempt[j] /\ event'[j] = event[j]
ItemCancelled(j) ==
  /\ Outstanding(j)
  /\ RowTo(j, "settled", NoClaim, FALSE, item[j].checkpoint)
  /\ attempt'[j] = Closed(j, "lost")[j] /\ event'[j] = event[j]
ItemDecided(j) ==
  \E n \in Claims, v \in {"accepted", "rejected", "cancelled", "unknown", "skipped"} :
    /\ event[j][n] = "pending" /\ event'[j] = [event[j] EXCEPT ![n] = v]
    /\ v = "accepted" => ~item[j].cancelled
    /\ attempt'[j] = attempt[j]
    /\ \/ item'[j] = item[j]
       \/ Known(j) /\ RowTo(j, "settled", item[j].claim, item[j].live, item[j].checkpoint)
ItemDue(j) ==
  /\ RowTo(j, item[j].status, item[j].claim, item[j].live, item[j].checkpoint)
  /\ attempt'[j] = attempt[j] /\ event'[j] = event[j]
ItemLapsed(j) ==
  /\ item[j].status = "running"
  /\ RowTo(j, "running", item[j].claim, FALSE, item[j].checkpoint)
  /\ attempt'[j] = attempt[j] \/ attempt'[j] = Closed(j, "lost")[j]
  /\ event'[j] = event[j]
ItemCheckpointed(j) ==
  \E n \in Claims :
    /\ Holds(j, n) /\ RowTo(j, "running", n, TRUE, n)
    /\ attempt'[j] = attempt[j] /\ event'[j] = event[j]
ItemReported(j) ==
  \E n \in Claims :
    /\ Holds(j, n) /\ Reporting(run[j][n])
    /\ attempt'[j] = [attempt[j] EXCEPT ![n] = run[j][n].report]
    /\ \/ /\ run[j][n].report = "retry" /\ event'[j] = event[j]
          /\ RowTo(j, "queued", NoClaim, FALSE, item[j].checkpoint)
       \/ /\ run[j][n].report # "retry" /\ event'[j] = [event[j] EXCEPT ![n] = "pending"]
          /\ RowTo(j, "reported", NoClaim, FALSE, item[j].checkpoint)
ItemClaimed(j) ==
  /\ j \in Due /\ item'[j] = Claimed(j)
  /\ attempt'[j] = [Closed(j, "lost")[j] EXCEPT ![item[j].attempts + 1] = "running"]
  /\ event'[j] = event[j]
  /\ LET r == run'[j][item[j].attempts + 1] IN
       r.at = "claimed" /\ r.lost = Claimed(j).lost /\ r.report = "none"

ItemMoves(j) ==
  \/ ItemUntouched(j) \/ ItemAskedFor(j) \/ ItemCancelled(j) \/ ItemDecided(j) \/ ItemDue(j)
  \/ ItemLapsed(j) \/ ItemCheckpointed(j) \/ ItemReported(j)
ItemStep(j) == ItemMoves(j) \/ ItemClaimed(j)

\* The record of a run is left, moved on under its claim, or started by one.
RunStart(j, n) == ItemClaimed(j) /\ n = item[j].attempts + 1
RunMoves(j, n) ==
  /\ run[j][n].at # "none" /\ run'[j][n].at \notin {"none", "claimed"}
  /\ run'[j][n].lost = run[j][n].lost
  /\ Reporting(run'[j][n]) => run'[j][n].report # "none"
  /\ run'[j][n].report = "retry" => run[j][n].report = "retry" \/ Tries(j, n) < MaxAttempts
RunChange(j, n) == run'[j][n] = run[j][n] \/ RunMoves(j, n) \/ RunStart(j, n)

HandlerStart(j) ==
  \/ ran'[j] = ran[j]
  \/ /\ ran'[j] = ran[j] + 1
     /\ \E n \in Claims : run[j][n].at = "claimed" /\ ~Spent(j, n) /\ run'[j][n].at = "handling"

LEMMA PipelineItems ==
  ASSUME WorkTypeOK, NEW i \in Items, NEW j \in Items,
         (\E due \in BOOLEAN : Emit(i, due)) \/ Cancel(i) \/ \E n \in Claims : Settle(i, n) \/ Skip(i, n)
  PROVE  ItemMoves(j) /\ run' = run /\ ran' = ran /\ claiming' = claiming
<1>0. item[j] \in Rows
  BY DEF WorkTypeOK
<1>1. ASSUME NEW due \in BOOLEAN, Emit(i, due) PROVE ItemUntouched(j) \/ ItemAskedFor(j)
  <2>1. item' = [item EXCEPT ![i] = [item[i] EXCEPT !.status = "queued", !.due = due]]
    BY <1>1, RowForms, Zenon DEF Emit
  <2>2. CASE j = i
    <3>1. RowTo(j, "queued", item[j].claim, item[j].live, item[j].checkpoint)
      BY <1>0, <2>1, <2>2 DEF WorkTypeOK, RowTo, Rows
    <3> QED
      BY <1>1, <2>2, <3>1 DEF Emit, ItemAskedFor, pipelineOnly
  <2>3. CASE j # i
    BY <1>1, <2>1, <2>3 DEF Emit, WorkTypeOK, ItemUntouched, pipelineOnly
  <2> QED
    BY <2>2, <2>3
<1>2. CASE Cancel(i)
  <2>1. item' = [item EXCEPT ![i] = [item[i] EXCEPT !.status = "settled", !.claim = NoClaim,
                                                    !.live = FALSE, !.cancelled = TRUE]]
    BY <1>2, RowForms, Zenon DEF Cancel
  <2>2. CASE j = i
    <3>1. RowTo(j, "settled", NoClaim, FALSE, item[j].checkpoint)
      BY <1>0, <2>1, <2>2 DEF WorkTypeOK, RowTo, Rows
    <3> QED
      BY <1>2, <2>2, <3>1 DEF Cancel, ItemCancelled, ItemMoves, pipelineOnly
  <2>3. CASE j # i
    BY <1>2, <2>1, <2>3 DEF Cancel, Closed, WorkTypeOK, ItemUntouched, ItemMoves, pipelineOnly
  <2> QED
    BY <2>2, <2>3
<1>3. ASSUME NEW n \in Claims, Settle(i, n) PROVE ItemUntouched(j) \/ ItemDecided(j)
  <2>4. PICK how \in {"accepted", "rejected"} : event' = [event EXCEPT ![i][n] = Verdict(i, how)]
    BY <1>3 DEF Settle
  <2>5. /\ Verdict(i, how) \in {"accepted", "rejected", "cancelled", "unknown"}
        /\ Verdict(i, how) = "accepted" => ~item[i].cancelled
    BY DEF Verdict
  <2>6. CASE j = i
    <3>1. event[j][n] = "pending" /\ event'[j] = [event[j] EXCEPT ![n] = Verdict(i, how)]
          /\ attempt'[j] = attempt[j]
      BY <1>3, <2>4, <2>6 DEF Settle, WorkTypeOK
    <3>2. \/ item'[j] = item[j]
          \/ Known(j) /\ RowTo(j, "settled", item[j].claim, item[j].live, item[j].checkpoint)
      <4>1. \/ item'[j] = item[j]
            \/ Known(j) /\ item'[j] = [item[j] EXCEPT !.status = "settled"]
        BY <1>3, <2>6 DEF Settle, WorkTypeOK
      <4> QED
        BY <1>0, <4>1 DEF RowTo, Rows
    <3> QED
      BY <2>5, <2>6, <3>1, <3>2 DEF ItemDecided
  <2>7. CASE j # i
    BY <1>3, <2>4, <2>7 DEF Settle, WorkTypeOK, ItemUntouched
  <2> QED
    BY <2>6, <2>7
<1>4. ASSUME NEW n \in Claims, Skip(i, n) PROVE ItemUntouched(j) \/ ItemDecided(j)
  BY <1>4 DEF Skip, WorkTypeOK, ItemUntouched, ItemDecided
<1>5. run' = run /\ ran' = ran /\ claiming' = claiming
  BY DEF Emit, Cancel, Settle, Skip, pipelineOnly
<1> QED
  BY <1>1, <1>2, <1>3, <1>4, <1>5 DEF ItemMoves

LEMMA TimeItems ==
  ASSUME WorkTypeOK, NEW i \in Items, NEW j \in Items, BecomesDue(i) \/ Lapse(i)
  PROVE  ItemMoves(j) /\ run' = run /\ ran' = ran /\ claiming' = claiming
<1>0. item[j] \in Rows
  BY DEF WorkTypeOK
<1>1. CASE BecomesDue(i)
  BY <1>0, <1>1 DEF BecomesDue, WorkTypeOK, ItemUntouched, ItemDue, RowTo, Rows, ItemMoves
<1>2. CASE Lapse(i)
  BY <1>0, <1>2 DEF Lapse, Live, WorkTypeOK, ItemUntouched, ItemLapsed, RowTo, Rows, ItemMoves
<1> QED
  BY <1>1, <1>2

LEMMA RunItems ==
  ASSUME WorkTypeOK, NEW i \in Items, NEW n \in Claims, RunStep(i, n), NEW j \in Items
  PROVE  ItemMoves(j)
<1>0. item[j] \in Rows
  BY DEF WorkTypeOK
<1>1. CASE UNCHANGED <<item, attempt, event>>
  BY <1>1 DEF ItemUntouched, ItemMoves
<1>2. CASE Checkpoint(i, n)
  <2>1. item' = [item EXCEPT ![i] = [item[i] EXCEPT !.checkpoint = n, !.live = TRUE]]
    BY <1>2, RowForms, Zenon DEF Checkpoint
  <2>2. CASE j = i
    <3>1. RowTo(j, "running", n, TRUE, n) /\ Holds(j, n)
      BY <1>0, <1>2, <2>1, <2>2 DEF Checkpoint, Holds, WorkTypeOK, RowTo, Rows
    <3> QED
      BY <1>2, <3>1 DEF Checkpoint, ItemCheckpointed, ItemMoves
  <2>3. CASE j # i
    BY <1>2, <2>1, <2>3 DEF Checkpoint, WorkTypeOK, ItemUntouched, ItemMoves
  <2> QED
    BY <2>2, <2>3
<1>3. CASE /\ Holds(i, n) /\ item' = [item EXCEPT ![i].live = FALSE]
           /\ attempt' = Closed(i, "lost") /\ UNCHANGED event
  <2>1. CASE j = i
    <3>1. item[j].status = "running" /\ RowTo(j, "running", item[j].claim, FALSE, item[j].checkpoint)
      BY <1>0, <1>3, <2>1 DEF Holds, WorkTypeOK, RowTo, Rows
    <3> QED
      BY <1>3, <2>1, <3>1 DEF ItemLapsed, ItemMoves
  <2>2. CASE j # i
    BY <1>3, <2>2 DEF Closed, WorkTypeOK, ItemUntouched, ItemMoves
  <2> QED
    BY <2>1, <2>2
<1>4. CASE Holds(i, n) /\ Reporting(run[i][n]) /\ Written(i, n)
  <2> DEFINE st == IF run[i][n].report = "retry" THEN "queued" ELSE "reported"
  <2>1. item' = [item EXCEPT ![i].status = st, ![i].claim = NoClaim, ![i].live = FALSE,
                             ![i].due = FALSE]
    BY <1>4 DEF Written
  <2>2. /\ attempt' = [attempt EXCEPT ![i][n] = run[i][n].report]
        /\ event' = IF run[i][n].report = "retry" THEN event ELSE [event EXCEPT ![i][n] = "pending"]
    BY <1>4 DEF Written
  <2>3. st = IF run[i][n].report = "retry" THEN "queued" ELSE "reported"
    OBVIOUS
  <2> HIDE DEF st
  <2>4. item' = [item EXCEPT ![i] = [item[i] EXCEPT !.status = st, !.claim = NoClaim,
                                                    !.live = FALSE, !.due = FALSE]]
    BY <2>1, RowForms, Zenon
  <2>5. CASE j = i
    <3>1. RowTo(j, st, NoClaim, FALSE, item[j].checkpoint)
      BY <1>0, <2>4, <2>5 DEF WorkTypeOK, RowTo, Rows
    <3>2. attempt'[j] = [attempt[j] EXCEPT ![n] = run[j][n].report]
      BY <2>2, <2>5 DEF WorkTypeOK
    <3>3. event'[j] = IF run[j][n].report = "retry" THEN event[j]
                      ELSE [event[j] EXCEPT ![n] = "pending"]
      BY <2>2, <2>5 DEF WorkTypeOK
    <3>4. ItemReported(j)
      BY <1>4, <2>3, <2>5, <3>1, <3>2, <3>3 DEF ItemReported
    <3> QED
      BY <3>4 DEF ItemMoves
  <2>6. CASE j # i
    BY <2>2, <2>4, <2>6 DEF WorkTypeOK, ItemUntouched, ItemMoves
  <2> QED
    BY <2>5, <2>6
<1> QED
  BY <1>1, <1>2, <1>3, <1>4, RunStepRows

LEMMA RunRuns ==
  ASSUME WorkTypeOK, HasReport, NEW i \in Items, NEW n \in Claims, RunStep(i, n),
         NEW j \in Items
  PROVE  (\A m \in Claims : RunChange(j, m)) /\ HandlerStart(j)
<1>1. PICK r \in Runs : Advanced(i, n, r)
  BY RunStepForms
<1>2. ASSUME NEW m \in Claims PROVE RunChange(j, m)
  <2>1. CASE j = i /\ m = n
    <3>1. run'[j][m] = r
      BY <1>1, <2>1 DEF Advanced, WorkTypeOK
    <3> QED
      BY <1>1, <2>1, <3>1 DEF Advanced, RunChange, RunMoves
  <2>2. CASE j # i \/ m # n
    BY <1>1, <2>2 DEF Advanced, WorkTypeOK, RunChange
  <2> QED
    BY <2>1, <2>2
<1>3. HandlerStart(j)
  <2>1. CASE UNCHANGED ran
    BY <2>1 DEF HandlerStart
  <2>2. CASE /\ run[i][n].at = "claimed" /\ ~Spent(i, n) /\ ran' = [ran EXCEPT ![i] = @ + 1]
             /\ run' = [run EXCEPT ![i][n].at = "handling"]
    <3>1. CASE j = i
      <4>1. ran'[j] = ran[j] + 1
        BY <2>2, <3>1 DEF WorkTypeOK
      <4>2. run'[j][n].at = "handling"
        BY <2>2, <3>1 DEF WorkTypeOK, Runs
      <4> QED
        BY <2>2, <3>1, <4>1, <4>2 DEF HandlerStart
    <3>2. CASE j # i
      BY <2>2, <3>2 DEF WorkTypeOK, HandlerStart
    <3> QED
      BY <3>1, <3>2
  <2> QED
    BY <2>1, <2>2, RunStepRows
<1> QED
  BY <1>2, <1>3

LEMMA ProcessItems ==
  ASSUME WorkTypeOK, HasReport, NEW p \in Procs, ProcStep(p), NEW j \in Items
  PROVE  ItemStep(j) /\ (\A m \in Claims : RunChange(j, m)) /\ ran'[j] = ran[j]
<1>1. CASE StartClaim(p) \/ Restart(p)
  BY <1>1 DEF StartClaim, Restart, ItemStep, ItemMoves, ItemUntouched, RunChange
<1>2. CASE EndClaim(p)
  <2> PICK taken \in SUBSET Due :
           /\ \A i \in Items : i \notin taken =>
                item'[i] = item[i] /\ attempt'[i] = attempt[i] /\ run'[i] = run[i]
           /\ \A i \in taken :
                /\ item'[i] = Claimed(i)
                /\ attempt'[i] = [Closed(i, "lost")[i] EXCEPT ![item[i].attempts + 1] = "running"]
                /\ run'[i] = [run[i] EXCEPT ![item[i].attempts + 1] = Started(p, i)]
    BY <1>2, EndClaimForms
  <2>1. event' = event /\ ran' = ran
    BY <1>2 DEF EndClaim
  <2>2. CASE j \notin taken
    BY <2>1, <2>2 DEF ItemStep, ItemMoves, ItemUntouched, RunChange
  <2>3. CASE j \in taken
    <3>1. ItemClaimed(j)
      <4>1. run[j] \in [Claims -> Runs] /\ item[j].attempts + 1 \in Claims
        BY <2>3, ClaimedTyped DEF WorkTypeOK
      <4>2. run'[j][item[j].attempts + 1] = Started(p, j)
        BY <2>3, <4>1
      <4> QED
        <5>1. /\ Started(p, j).at = "claimed" /\ Started(p, j).lost = Claimed(j).lost
              /\ Started(p, j).report = "none"
          BY <2>3, StartedTyped
        <5> QED
          BY <2>1, <2>3, <4>2, <5>1 DEF ItemClaimed
    <3>2. ASSUME NEW m \in Claims PROVE RunChange(j, m)
      <4>0. /\ run[j] \in [Claims -> Runs]
            /\ run'[j] = [run[j] EXCEPT ![item[j].attempts + 1] = Started(p, j)]
        BY <2>3 DEF WorkTypeOK
      <4>1. CASE m = item[j].attempts + 1
        BY <3>1, <4>1 DEF RunStart, RunChange
      <4>2. CASE m # item[j].attempts + 1
        BY <4>0, <4>2 DEF RunChange
      <4> QED
        BY <4>1, <4>2
    <3> QED
      BY <2>1, <3>1, <3>2 DEF ItemStep
  <2> QED
    BY <2>2, <2>3
<1>3. CASE Stop(p)
  <2>1. ASSUME NEW m \in Claims PROVE RunChange(j, m)
    <3>0. run[j][m] \in Runs
      BY DEF WorkTypeOK
    <3>1. \/ run'[j][m] = run[j][m]
          \/ run[j][m].at = "handling" /\ run'[j][m] = [run[j][m] EXCEPT !.told = TRUE]
      BY <1>3 DEF Stop
    <3> QED
      BY <3>0, <3>1 DEF RunChange, RunMoves, Runs, Reporting
  <2> QED
    BY <1>3, <2>1 DEF Stop, ItemStep, ItemMoves, ItemUntouched
<1>4. CASE Crash(p)
  <2>1. ASSUME NEW m \in Claims PROVE RunChange(j, m)
    <3>0. run[j][m] \in Runs
      BY DEF WorkTypeOK
    <3>1. \/ run'[j][m] = run[j][m]
          \/ Active(run[j][m]) /\ run'[j][m] = [run[j][m] EXCEPT !.at = "ended"]
      BY <1>4 DEF Crash, Gone
    <3> QED
      BY <3>0, <3>1 DEF RunChange, RunMoves, Runs, Reporting, Active
  <2> QED
    BY <1>4, <2>1 DEF Crash, ItemStep, ItemMoves, ItemUntouched
<1> QED
  BY <1>1, <1>2, <1>3, <1>4 DEF ProcStep

\* Every step, told by the item.
LEMMA NextItems ==
  ASSUME WorkTypeOK, HasReport, [Next]_vars, NEW j \in Items
  PROVE  ItemStep(j) /\ (\A m \in Claims : RunChange(j, m)) /\ HandlerStart(j)
<1>1. CASE UNCHANGED vars
  BY <1>1 DEF vars, ItemStep, ItemMoves, ItemUntouched, RunChange, HandlerStart
<1>2. ASSUME NEW i \in Items,
             (\E due \in BOOLEAN : Emit(i, due)) \/ Cancel(i) \/ \E n \in Claims : Settle(i, n) \/ Skip(i, n)
      PROVE  ItemStep(j) /\ (\A m \in Claims : RunChange(j, m)) /\ HandlerStart(j)
  BY <1>2, PipelineItems DEF ItemStep, RunChange, HandlerStart
<1>3. ASSUME NEW i \in Items, BecomesDue(i) \/ Lapse(i)
      PROVE  ItemStep(j) /\ (\A m \in Claims : RunChange(j, m)) /\ HandlerStart(j)
  BY <1>3, TimeItems DEF ItemStep, RunChange, HandlerStart
<1>4. ASSUME NEW i \in Items, NEW n \in Claims, RunStep(i, n)
      PROVE  ItemStep(j) /\ (\A m \in Claims : RunChange(j, m)) /\ HandlerStart(j)
  BY <1>4, RunItems, RunRuns DEF ItemStep
<1>5. ASSUME NEW p \in Procs, ProcStep(p)
      PROVE  ItemStep(j) /\ (\A m \in Claims : RunChange(j, m)) /\ HandlerStart(j)
  BY <1>5, ProcessItems DEF HandlerStart
<1> QED
  BY <1>1, <1>2, <1>3, <1>4, <1>5 DEF Next, Quiet
-----------------------------------------------------------------------------
(* Each part of the invariant is kept *)

LEMMA RowsAgreeKept ==
  ASSUME WorkTypeOK, WorkTypeOK', RowsAgree, \A j \in Items : ItemStep(j)
  PROVE  RowsAgree'
<1> DEFINE Agrees(r) ==
      /\ r.status # "running" => r.claim = NoClaim /\ ~r.live
      /\ r.status = "running" => r.claim = r.attempts /\ r.attempts \in Claims
      /\ r.status = "none" => r.attempts = 0 /\ r.lost = 0
      /\ r.checkpoint <= r.attempts
<1> SUFFICES ASSUME NEW j \in Items PROVE Agrees(item'[j])
  BY DEF RowsAgree
<1>0. item[j] \in Rows /\ item'[j] \in Rows /\ Agrees(item[j]) /\ ItemStep(j)
  BY DEF WorkTypeOK, RowsAgree
<1>1. CASE ItemClaimed(j)
  <2>1. /\ item'[j] = Claimed(j) /\ item[j].attempts + 1 \in Claims
        /\ Claimed(j).status = "running" /\ Claimed(j).claim = item[j].attempts + 1
        /\ Claimed(j).attempts = item[j].attempts + 1
        /\ Claimed(j).checkpoint = item[j].checkpoint
    BY <1>1, ClaimedTyped DEF ItemClaimed
  <2>2. item[j].attempts \in Int /\ item[j].checkpoint \in Int
    BY <1>0, WorkBounds DEF Rows, Claims
  <2> QED
    BY <1>0, <2>1, <2>2
<1>2. CASE ItemUntouched(j)
  BY <1>0, <1>2 DEF ItemUntouched
<1>3. CASE ItemAskedFor(j)
  BY <1>0, <1>3 DEF ItemAskedFor, RowTo
<1>4. CASE ItemCancelled(j)
  BY <1>0, <1>4 DEF ItemCancelled, RowTo
<1>5. CASE ItemDecided(j)
  BY <1>0, <1>5 DEF ItemDecided, RowTo, Known
<1>6. CASE ItemDue(j)
  BY <1>0, <1>6 DEF ItemDue, RowTo
<1>7. CASE ItemLapsed(j)
  BY <1>0, <1>7 DEF ItemLapsed, RowTo
<1>8. CASE ItemCheckpointed(j)
  <2>1. PICK n \in Claims : Holds(j, n) /\ RowTo(j, "running", n, TRUE, n)
    BY <1>8 DEF ItemCheckpointed
  <2> QED
    BY <1>0, <2>1, WorkBounds DEF Holds, RowTo, Claims
<1>9. CASE ItemReported(j)
  BY <1>0, <1>9 DEF ItemReported, RowTo
<1> QED
  BY <1>0, <1>1, <1>2, <1>3, <1>4, <1>5, <1>6, <1>7, <1>8, <1>9 DEF ItemStep, ItemMoves

\* A step leaves the attempts as they are, but for a claim, which adds one.
LEMMA AttemptsGrow ==
  ASSUME WorkTypeOK, NEW j \in Items, ItemStep(j)
  PROVE  /\ item[j].attempts \in Nat
         /\ ItemMoves(j) => item'[j].attempts = item[j].attempts
         /\ ItemClaimed(j) => item'[j].attempts = item[j].attempts + 1
<1>1. item[j].attempts \in Nat
  BY WorkBounds DEF WorkTypeOK, Rows, Claims
<1>2. ItemMoves(j) => item'[j].attempts = item[j].attempts
  BY DEF ItemMoves, ItemUntouched, ItemAskedFor, ItemCancelled, ItemDecided, ItemDue,
         ItemLapsed, ItemCheckpointed, ItemReported, RowTo
<1>3. ItemClaimed(j) => item'[j].attempts = item[j].attempts + 1
  BY ClaimedTyped DEF ItemClaimed
<1> QED
  BY <1>1, <1>2, <1>3

\* The attempts of an item that is closed are as they were, but the one that
\* has its claim is not said to be running.
LEMMA ClosedForms ==
  ASSUME WorkTypeOK, NEW j \in Items, NEW n \in Claims
  PROVE  /\ n # item[j].claim => Closed(j, "lost")[j][n] = attempt[j][n]
         /\ attempt[j][n] # "running" => Closed(j, "lost")[j][n] = attempt[j][n]
         /\ n = item[j].claim => Closed(j, "lost")[j][n] # "running"
         /\ Closed(j, "lost")[j] \in [Claims -> Outcomes \cup {"none", "running", "lost"}]
<1>1. n # NoClaim
  BY WorkBounds DEF Claims, NoClaim
<1>2. CASE item[j].claim = NoClaim \/ attempt[j][item[j].claim] # "running"
  BY <1>1, <1>2 DEF Closed, WorkTypeOK
<1>3. CASE item[j].claim # NoClaim /\ attempt[j][item[j].claim] = "running"
  <2>1. item[j].claim \in Claims
    BY <1>3 DEF WorkTypeOK, Rows
  <2>2. Closed(j, "lost") = [attempt EXCEPT ![j][item[j].claim] = "lost"]
    BY <1>3 DEF Closed
  <2>3. Closed(j, "lost")[j][n] = IF n = item[j].claim THEN "lost" ELSE attempt[j][n]
    BY <2>1, <2>2 DEF WorkTypeOK
  <2>4. Closed(j, "lost")[j] \in [Claims -> Outcomes \cup {"none", "running", "lost"}]
    BY ClosedTyped
  <2> QED
    BY <1>3, <2>3, <2>4
<1> QED
  BY <1>2, <1>3

LEMMA UnclaimedKept ==
  ASSUME WorkTypeOK, RowsAgree, Unclaimed,
         \A j \in Items : ItemStep(j) /\ (\A m \in Claims : RunChange(j, m))
  PROVE  Unclaimed'
<1> SUFFICES ASSUME NEW j \in Items, NEW n \in Claims, n > item'[j].attempts
             PROVE  run'[j][n].at = "none" /\ attempt'[j][n] = "none" /\ event'[j][n] = "none"
  BY DEF Unclaimed
<1>0. /\ ItemStep(j) /\ RunChange(j, n) /\ n \in Nat
      /\ attempt[j] \in [Claims -> Outcomes \cup {"none", "running", "lost"}]
      /\ event[j] \in [Claims -> {"none", "pending", "accepted", "rejected", "cancelled",
                                  "unknown", "skipped"}]
  BY WorkBounds DEF WorkTypeOK, Claims
<1>1. n > item[j].attempts
  BY <1>0, AttemptsGrow DEF ItemStep
<1>2. run[j][n].at = "none" /\ attempt[j][n] = "none" /\ event[j][n] = "none"
  BY <1>1 DEF Unclaimed
<1>3. n # item[j].attempts + 1 \/ ~ItemClaimed(j)
  BY <1>0, AttemptsGrow
<1>4. run'[j][n].at = "none"
  BY <1>0, <1>2, <1>3 DEF RunChange, RunMoves, RunStart
<1>5. ASSUME NEW m \in Claims, Holds(j, m) PROVE m # n
  BY <1>1, <1>5, AttemptsGrow, <1>0 DEF Holds, RowsAgree
<1>6. Closed(j, "lost")[j][n] = "none" /\ Closed(j, "lost")[j] \in [Claims -> Outcomes \cup {"none", "running", "lost"}]
  BY <1>2, ClosedForms
<1>7. attempt'[j][n] = "none"
  <2>1. CASE ItemClaimed(j)
    BY <1>3, <1>6, <2>1 DEF ItemClaimed
  <2>2. CASE ItemReported(j)
    BY <1>0, <1>2, <1>5, <2>2 DEF ItemReported
  <2>3. CASE ~ItemClaimed(j) /\ ~ItemReported(j)
    BY <1>0, <1>2, <1>6, <2>3
    DEF ItemStep, ItemMoves, ItemUntouched, ItemAskedFor, ItemCancelled, ItemDecided, ItemDue,
        ItemLapsed, ItemCheckpointed
  <2> QED
    BY <2>1, <2>2, <2>3
<1>8. event'[j][n] = "none"
  <2>1. CASE ItemReported(j)
    BY <1>0, <1>2, <1>5, <2>1 DEF ItemReported
  <2>2. CASE ItemDecided(j)
    BY <1>0, <1>2, <2>2 DEF ItemDecided
  <2>3. CASE ~ItemReported(j) /\ ~ItemDecided(j)
    BY <1>0, <1>2, <2>3
    DEF ItemStep, ItemMoves, ItemUntouched, ItemAskedFor, ItemCancelled, ItemDue,
        ItemLapsed, ItemCheckpointed, ItemClaimed
  <2> QED
    BY <2>1, <2>2, <2>3
<1> QED
  BY <1>4, <1>7, <1>8

LEMMA AttemptsClosedKept ==
  ASSUME WorkTypeOK, RowsAgree, AttemptsClosed, \A j \in Items : ItemStep(j)
  PROVE  AttemptsClosed'
<1> SUFFICES ASSUME NEW j \in Items, NEW n \in Claims, attempt'[j][n] = "running"
             PROVE  item'[j].status = "running" /\ item'[j].claim = n
  BY DEF AttemptsClosed
<1>0. /\ ItemStep(j)
      /\ attempt[j] \in [Claims -> Outcomes \cup {"none", "running", "lost"}]
  BY DEF WorkTypeOK
<1>1. attempt[j][n] = "running" => item[j].status = "running" /\ item[j].claim = n
  BY DEF AttemptsClosed
<1>2. Closed(j, "lost")[j][n] # "running"
  BY <1>1, ClosedForms
<1>3. CASE ItemClaimed(j)
  <2>1. n = item[j].attempts + 1
    BY <1>2, <1>3, ClosedForms DEF ItemClaimed
  <2> QED
    BY <1>3, <2>1, ClaimedTyped DEF ItemClaimed
<1>4. CASE ItemReported(j)
  <2>1. PICK m \in Claims : /\ Holds(j, m) /\ Reporting(run[j][m])
                            /\ attempt'[j] = [attempt[j] EXCEPT ![m] = run[j][m].report]
    BY <1>4 DEF ItemReported
  <2>2. run[j][m].report # "running"
    BY DEF WorkTypeOK, Runs, Outcomes
  <2>3. m # n
    BY <1>0, <2>1, <2>2
  <2> QED
    BY <1>0, <1>1, <2>1, <2>3 DEF Holds
<1>5. CASE ItemDecided(j)
  <2>1. attempt[j][n] = "running" /\ item'[j] = item[j]
    BY <1>1, <1>5 DEF ItemDecided, Known
  <2> QED
    BY <1>1, <2>1
<1>6. CASE ItemCancelled(j)
  BY <1>2, <1>6 DEF ItemCancelled
<1>7. CASE ItemCheckpointed(j)
  <2>1. PICK m \in Claims : Holds(j, m) /\ RowTo(j, "running", m, TRUE, m) /\ attempt'[j] = attempt[j]
    BY <1>7 DEF ItemCheckpointed
  <2> QED
    BY <1>1, <2>1 DEF Holds, RowTo
<1>8. CASE ItemUntouched(j) \/ ItemAskedFor(j) \/ ItemDue(j) \/ ItemLapsed(j)
  BY <1>1, <1>2, <1>8 DEF ItemUntouched, ItemAskedFor, ItemDue, ItemLapsed, RowTo
<1> QED
  BY <1>0, <1>3, <1>4, <1>5, <1>6, <1>7, <1>8 DEF ItemStep, ItemMoves

LEMMA OneReportedKept ==
  ASSUME WorkTypeOK, OneReported, \A j \in Items : ItemStep(j)
  PROVE  OneReported'
<1> DEFINE Reported(e, st) ==
      /\ \A m, n \in Claims : e[m] # "none" /\ e[n] # "none" => m = n
      /\ \A n \in Claims : e[n] # "none" => st \in {"reported", "settled"}
      /\ st = "reported" => \E n \in Claims : e[n] # "none"
<1> SUFFICES ASSUME NEW j \in Items PROVE Reported(event'[j], item'[j].status)
  BY DEF OneReported
<1>0. /\ ItemStep(j) /\ Reported(event[j], item[j].status)
      /\ event[j] \in [Claims -> {"none", "pending", "accepted", "rejected", "cancelled",
                                  "unknown", "skipped"}]
      /\ item[j].status \in {"none", "queued", "running", "reported", "settled"}
  BY DEF WorkTypeOK, OneReported, Rows
<1>1. CASE ItemReported(j)
  <2>1. PICK n \in Claims :
          /\ Holds(j, n)
          /\ \/ event'[j] = event[j] /\ item'[j].status = "queued"
             \/ event'[j] = [event[j] EXCEPT ![n] = "pending"] /\ item'[j].status = "reported"
    BY <1>1 DEF ItemReported, RowTo
  <2>2. \A m \in Claims : event[j][m] = "none"
    BY <1>0, <2>1 DEF Holds
  <2> QED
    BY <1>0, <2>1, <2>2
<1>2. CASE ItemDecided(j)
  <2>1. PICK n \in Claims, v \in {"accepted", "rejected", "cancelled", "unknown", "skipped"} :
          /\ event[j][n] = "pending" /\ event'[j] = [event[j] EXCEPT ![n] = v]
          /\ item'[j].status = item[j].status \/ item'[j].status = "settled"
    BY <1>2 DEF ItemDecided, RowTo
  <2>2. \A m \in Claims : event'[j][m] # "none" <=> event[j][m] # "none"
    BY <1>0, <2>1
  <2> QED
    BY <1>0, <2>1, <2>2
<1>3. CASE ItemClaimed(j)
  <2>1. item[j].status \in {"queued", "running"}
    BY <1>3 DEF ItemClaimed, Due
  <2>2. item'[j].status = "running"
    BY <1>3, ClaimedTyped DEF ItemClaimed
  <2> QED
    BY <1>0, <1>3, <2>1, <2>2 DEF ItemClaimed
<1>4. CASE ItemCheckpointed(j)
  BY <1>0, <1>4 DEF ItemCheckpointed, Holds, RowTo
<1>5. CASE ItemCancelled(j)
  BY <1>0, <1>5 DEF ItemCancelled, RowTo
<1>6. CASE ItemUntouched(j) \/ ItemDue(j) \/ ItemLapsed(j)
  BY <1>0, <1>6 DEF ItemUntouched, ItemDue, ItemLapsed, RowTo
<1>7. CASE ItemAskedFor(j)
  BY <1>0, <1>7 DEF ItemAskedFor, RowTo
<1> QED
  BY <1>0, <1>1, <1>2, <1>3, <1>4, <1>5, <1>6, <1>7 DEF ItemStep, ItemMoves

LEMMA HasReportKept ==
  ASSUME HasReport, \A j \in Items : \A m \in Claims : RunChange(j, m)
  PROVE  HasReport'
<1> SUFFICES ASSUME NEW j \in Items, NEW n \in Claims, Reporting(run'[j][n])
             PROVE  run'[j][n].report # "none"
  BY DEF HasReport
<1>1. ~RunStart(j, n)
  BY DEF RunStart, ItemClaimed, Reporting
<1> QED
  BY <1>1 DEF HasReport, RunChange, RunMoves

LEMMA RetryHasTryKept ==
  ASSUME RetryHasTry, \A j \in Items : \A m \in Claims : RunChange(j, m)
  PROVE  RetryHasTry'
<1> SUFFICES ASSUME NEW j \in Items, NEW n \in Claims, run'[j][n].report = "retry"
             PROVE  Tries(j, n)' < MaxAttempts
  BY DEF RetryHasTry
<1>1. RunChange(j, n)
  OBVIOUS
<1>2. run'[j][n].lost = run[j][n].lost /\ Tries(j, n) < MaxAttempts
  BY <1>1 DEF RunChange, RunMoves, RunStart, ItemClaimed, RetryHasTry
<1> QED
  BY <1>2 DEF Tries

\* The tries of a claim: one more than those of the row claimed, or as many
\* when its last attempt was lost.
LEMMA TriesLeftKept ==
  ASSUME WorkTypeOK, WorkTypeOK', RowsAgree, Unclaimed, RetryHasTry, TriesLeft,
         \A j \in Items : ItemStep(j) /\ (\A m \in Claims : RunChange(j, m))
  PROVE  TriesLeft'
<1> SUFFICES ASSUME Resumable, NEW j \in Items
             PROVE  /\ item'[j].status = "queued" => item'[j].attempts - item'[j].lost < MaxAttempts
                    /\ item'[j].status = "running" =>
                         /\ item'[j].attempts - item'[j].lost <= MaxAttempts
                         /\ run'[j][item'[j].attempts].lost = item'[j].lost
                    /\ \A n \in Claims : run'[j][n].at # "none" => n - run'[j][n].lost <= MaxAttempts
  BY DEF TriesLeft
<1>0. /\ ItemStep(j) /\ MaxAttempts \in Nat
      /\ item[j] \in Rows /\ item[j].attempts \in Nat /\ item[j].lost \in Nat
  BY AttemptsGrow, KindAssumption DEF WorkTypeOK, Rows
<1>1. /\ item[j].status = "queued" => item[j].attempts - item[j].lost < MaxAttempts
      /\ item[j].status = "running" =>
           /\ item[j].attempts - item[j].lost <= MaxAttempts
           /\ run[j][item[j].attempts].lost = item[j].lost
      /\ \A n \in Claims : run[j][n].at # "none" => n - run[j][n].lost <= MaxAttempts
  BY DEF TriesLeft
<1>2. ASSUME ItemClaimed(j)
      PROVE  /\ item'[j].status = "running" /\ item'[j].attempts = item[j].attempts + 1
             /\ item'[j].attempts \in Claims
             /\ item'[j].lost = Claimed(j).lost
             /\ item'[j].attempts - Claimed(j).lost <= MaxAttempts
  <2>1. /\ item[j].status \in {"queued", "running"} /\ item'[j] = Claimed(j)
        /\ Claimed(j).status = "running" /\ Claimed(j).attempts = item[j].attempts + 1
        /\ item[j].attempts + 1 \in Claims
        /\ Claimed(j).lost = IF item[j].status = "running" THEN item[j].lost + 1 ELSE item[j].lost
    BY <1>2, ClaimedTyped DEF ItemClaimed, Due
  <2> QED
    BY <1>0, <1>1, <2>1
<1>3. ASSUME NEW n \in Claims, run'[j][n].at # "none"
      PROVE  n - run'[j][n].lost <= MaxAttempts
  <2>0. RunChange(j, n)
    OBVIOUS
  <2>1. CASE RunStart(j, n)
    BY <1>2, <2>1 DEF RunStart, ItemClaimed
  <2>2. CASE ~RunStart(j, n)
    <3>1. run[j][n].at # "none" /\ run'[j][n].lost = run[j][n].lost
      BY <1>3, <2>0, <2>2 DEF RunChange, RunMoves
    <3> QED
      BY <1>1, <3>1
  <2> QED
    BY <2>1, <2>2
<1>4. CASE ItemClaimed(j)
  <2>1. run'[j][item'[j].attempts].lost = item'[j].lost
    BY <1>2, <1>4 DEF ItemClaimed
  <2> QED
    BY <1>2, <1>3, <1>4, <2>1
<1>5. CASE ItemReported(j)
  <2>1. PICK n \in Claims :
          /\ Holds(j, n)
          /\ \/ run[j][n].report = "retry" /\ item'[j].status = "queued"
             \/ item'[j].status = "reported"
          /\ item'[j].attempts = item[j].attempts /\ item'[j].lost = item[j].lost
    BY <1>5 DEF ItemReported, RowTo
  <2>2. n = item[j].attempts /\ item[j].status = "running"
    BY <2>1 DEF Holds, RowsAgree
  <2>3. item'[j].status = "queued" => item[j].attempts - item[j].lost < MaxAttempts
    BY <1>1, <2>1, <2>2 DEF RetryHasTry, Tries
  <2> QED
    BY <1>3, <2>1, <2>3
<1>6. CASE ItemAskedFor(j)
  <2>1. item'[j].attempts = 0 /\ item'[j].lost = 0 /\ item'[j].status = "queued"
    BY <1>6 DEF ItemAskedFor, RowTo, RowsAgree
  <2> QED
    BY <1>3, <2>1, KindAssumption
<1>7. CASE ItemMoves(j) /\ ~ItemReported(j) /\ ~ItemAskedFor(j)
  <2>1. /\ item'[j].attempts = item[j].attempts /\ item'[j].lost = item[j].lost
        /\ item'[j].status = item[j].status \/ item'[j].status = "settled"
    BY <1>7 DEF ItemMoves, ItemUntouched, ItemCancelled, ItemDecided, ItemDue,
                ItemLapsed, ItemCheckpointed, Holds, RowTo
  <2>2. item[j].status = "running" => item[j].attempts \in Claims /\ ~ItemClaimed(j)
    <3>1. item[j].status = "running" => item[j].attempts \in Claims
      BY DEF RowsAgree
    <3>2. ItemClaimed(j) => item'[j].attempts # item[j].attempts
      BY <1>0, AttemptsGrow
    <3> QED
      BY <2>1, <3>1, <3>2
  <2>3. ASSUME item[j].status = "running"
        PROVE  run'[j][item[j].attempts].lost = run[j][item[j].attempts].lost
    BY <2>2, <2>3 DEF RunChange, RunMoves, RunStart
  <2> QED
    BY <1>1, <1>3, <2>1, <2>3
<1> QED
  BY <1>0, <1>4, <1>5, <1>6, <1>7 DEF ItemStep

\* A handler is started under a claim whose handler was not.
LEMMA StartsCountedKept ==
  ASSUME WorkTypeOK, WorkTypeOK', Unclaimed, StartsCounted,
         \A j \in Items : (\A m \in Claims : RunChange(j, m)) /\ HandlerStart(j) /\ ItemStep(j)
  PROVE  StartsCounted'
<1> SUFFICES ASSUME NEW j \in Items PROVE ran'[j] <= Cardinality(Begun(j)')
  BY DEF StartsCounted
<1>0. /\ IsFiniteSet(Begun(j)) /\ Cardinality(Begun(j)) \in Nat
      /\ IsFiniteSet(Begun(j)') /\ Cardinality(Begun(j)') \in Nat
      /\ ran[j] \in Nat /\ ran[j] <= Cardinality(Begun(j))
  BY ClaimSets DEF Begun, StartsCounted, WorkTypeOK
<1>1. Begun(j) \subseteq Begun(j)'
  <2> SUFFICES ASSUME NEW n \in Begun(j) PROVE n \in Begun(j)'
    OBVIOUS
  <2>1. /\ n \in Claims /\ run[j][n].at \notin {"none", "claimed"} /\ ~Spent(j, n)
        /\ RunChange(j, n)
    BY DEF Begun
  <2>2. ~RunStart(j, n)
    BY <2>1, AttemptsGrow DEF RunStart, Unclaimed, Claims
  <2>3. run'[j][n].at \notin {"none", "claimed"} /\ run'[j][n].lost = run[j][n].lost
    BY <2>1, <2>2 DEF RunChange, RunMoves
  <2> QED
    BY <2>1, <2>3 DEF Begun, Spent
<1>2. Cardinality(Begun(j)) <= Cardinality(Begun(j)')
  BY <1>0, <1>1, FS_Subset
<1>3. CASE ran'[j] = ran[j]
  BY <1>0, <1>2, <1>3
<1>4. ASSUME NEW n \in Claims, run[j][n].at = "claimed", ~Spent(j, n),
             run'[j][n].at = "handling", ran'[j] = ran[j] + 1
      PROVE  ran'[j] <= Cardinality(Begun(j)')
  <2>1. n \notin Begun(j)
    BY <1>4 DEF Begun
  <2>2. run'[j][n].lost = run[j][n].lost
    BY <1>4 DEF RunChange, RunMoves, RunStart, ItemClaimed
  <2>3. n \in Begun(j)'
    BY <1>4, <2>2 DEF Begun, Spent
  <2>4. Cardinality(Begun(j) \cup {n}) = Cardinality(Begun(j)) + 1 /\ IsFiniteSet(Begun(j) \cup {n})
    BY <1>0, <2>1, FS_AddElement
  <2>5. Cardinality(Begun(j) \cup {n}) <= Cardinality(Begun(j)')
    BY <1>0, <1>1, <2>3, FS_Subset
  <2> QED
    BY <1>0, <1>4, <2>4, <2>5
<1> QED
  BY <1>3, <1>4 DEF HandlerStart

\* No step but a claim makes an item live.
LEMMA LiveShrinks ==
  ASSUME WorkTypeOK, \A j \in Items : ItemMoves(j)
  PROVE  Live' \subseteq Live
<1> SUFFICES ASSUME NEW j \in Items, item'[j].status = "running", item'[j].live
             PROVE  item[j].status = "running" /\ item[j].live
  BY DEF Live
<1> QED
  BY DEF ItemMoves, ItemUntouched, ItemAskedFor, ItemCancelled, ItemDecided, ItemDue, ItemLapsed,
         ItemCheckpointed, ItemReported, RowTo, Holds

\* A step that makes no item live and lets no process take more leaves room.
LEMMA RoomKept ==
  ASSUME WorkTypeOK, WorkTypeOK', RoomLeft, Live' \subseteq Live,
         \A p \in Procs : claiming'[p] <= claiming[p]
  PROVE  RoomLeft'
<1>1. /\ Cardinality(Live) \in Nat /\ Cardinality(Live') \in Nat
      /\ Cardinality(Live') <= Cardinality(Live)
  BY ItemSets, FS_Subset DEF Live
<1>2. Cardinality(Live') = Cardinality(Live)'
  OBVIOUS
<1>3. \A p \in Procs : claiming[p] \in Nat /\ claiming'[p] \in Nat
  BY KindAssumption DEF WorkTypeOK
<1> QED
  BY <1>1, <1>2, <1>3, KindAssumption DEF RoomLeft

LEMMA ClaimsKept ==
  ASSUME WorkTypeOK, WorkTypeOK', HasReport, RowsAgree, OneClaims, RoomLeft, [Next]_vars
  PROVE  OneClaims' /\ RoomLeft'
<1>0. \A p \in Procs : claiming[p] \in Nat
  BY KindAssumption DEF WorkTypeOK
<1>1. ASSUME \A j \in Items : ItemMoves(j), claiming' = claiming
      PROVE  OneClaims' /\ RoomLeft'
  <2>1. RoomLeft'
    BY <1>0, <1>1, LiveShrinks, RoomKept
  <2> QED
    BY <1>1, <2>1 DEF OneClaims
<1>2. CASE UNCHANGED vars
  BY <1>1, <1>2 DEF vars, ItemMoves, ItemUntouched
<1>3. ASSUME NEW i \in Items,
             (\E due \in BOOLEAN : Emit(i, due)) \/ Cancel(i) \/ \E n \in Claims : Settle(i, n) \/ Skip(i, n)
      PROVE  OneClaims' /\ RoomLeft'
  BY <1>1, <1>3, PipelineItems
<1>4. ASSUME NEW i \in Items, BecomesDue(i) \/ Lapse(i)
      PROVE  OneClaims' /\ RoomLeft'
  BY <1>1, <1>4, TimeItems
<1>5. ASSUME NEW i \in Items, NEW n \in Claims, RunStep(i, n)
      PROVE  OneClaims' /\ RoomLeft'
  BY <1>1, <1>5, RunItems, RunStepRows
<1>6. ASSUME NEW p \in Procs, ProcStep(p) PROVE OneClaims' /\ RoomLeft'
  <2>1. CASE StartClaim(p)
    <3>1. Live' = Live /\ claiming' = [claiming EXCEPT ![p] = Take(p)] /\ Take(p) > 0
      BY <2>1 DEF StartClaim, Live
    <3>2. \A q \in Procs : claiming'[q] = IF q = p THEN Take(p) ELSE 0
      BY <2>1, <3>1 DEF StartClaim, WorkTypeOK
    <3>3. Take(p) \in 0..Limit /\ Cardinality(Live) + Take(p) <= Limit
      BY <3>1, TakeBounded
    <3>4. Cardinality(Live) \in Nat /\ Cardinality(Live)' = Cardinality(Live)
      BY <3>1, ItemSets DEF Live
    <3>5. OneClaims'
      BY <3>2 DEF OneClaims
    <3>6. RoomLeft'
      BY <3>2, <3>3, <3>4, KindAssumption DEF RoomLeft
    <3> QED
      BY <3>5, <3>6
  <2>2. CASE EndClaim(p)
    <3> PICK taken \in SUBSET Due :
             /\ Cardinality(taken) <= claiming[p]
             /\ \A i \in Items : i \notin taken => item'[i] = item[i]
      BY <2>2, EndClaimForms
    <3>1. taken \subseteq Items /\ Live \subseteq Items
      BY DEF Due, Live
    <3>2. Live' \subseteq Live \cup taken
      BY DEF Live
    <3>3. \A q \in Procs : claiming'[q] = 0
      <4>1. claiming[p] > 0 /\ claiming' = [claiming EXCEPT ![p] = 0]
        BY <2>2 DEF EndClaim
      <4>2. \A q \in Procs : q # p => claiming[q] = 0
        BY <1>0, <4>1 DEF OneClaims
      <4> QED
        BY <4>1, <4>2 DEF WorkTypeOK
    <3>4. IsFiniteSet(Live) /\ IsFiniteSet(taken) /\ Cardinality(Live) \in Nat /\ Cardinality(taken) \in Nat
      BY <3>1, ItemSets
    <3>5. /\ IsFiniteSet(Live \cup taken)
          /\ Cardinality(Live \cup taken) = Cardinality(Live) + Cardinality(taken) - Cardinality(Live \cap taken)
      BY <3>4, FS_Union
    <3>6. Cardinality(Live \cap taken) \in Nat /\ Cardinality(Live \cup taken) \in Nat
      BY <3>1, ItemSets
    <3>7. Cardinality(Live') <= Cardinality(Live \cup taken) /\ Cardinality(Live') \in Nat
      BY <3>2, <3>5, FS_Subset, FS_CardinalityType
    <3>8. Cardinality(Live) + claiming[p] <= Limit
      BY DEF RoomLeft
    <3>9. Cardinality(Live') <= Limit
      BY <1>0, <3>4, <3>5, <3>6, <3>7, <3>8, KindAssumption
    <3>10. OneClaims' /\ RoomLeft'
      BY <3>3, <3>7, <3>9, KindAssumption DEF OneClaims, RoomLeft
    <3> QED
      BY <3>10
  <2>3. CASE Stop(p) \/ Restart(p)
    BY <1>1, <2>3 DEF Stop, Restart, ItemMoves, ItemUntouched
  <2>4. CASE Crash(p)
    <3>1. Live' = Live /\ claiming' = [claiming EXCEPT ![p] = 0]
      BY <2>4 DEF Crash, Live
    <3>2. \A q \in Procs : claiming'[q] = IF q = p THEN 0 ELSE claiming[q]
      BY <3>1 DEF WorkTypeOK
    <3>3. OneClaims'
      BY <3>2 DEF OneClaims
    <3>4. \A q \in Procs : claiming'[q] <= claiming[q]
      BY <1>0, <3>2
    <3> QED
      BY <3>1, <3>3, <3>4, RoomKept
  <2> QED
    BY <1>6, <2>1, <2>2, <2>3, <2>4 DEF ProcStep
<1> QED
  BY <1>2, <1>3, <1>4, <1>5, <1>6 DEF Next, Quiet
-----------------------------------------------------------------------------
(* The theorems *)

LEMMA InitInv == Init => WorkInv
<1> SUFFICES ASSUME Init PROVE WorkInv
  OBVIOUS
<1>0. WorkTypeOK
  BY InitTyped
<1>1. \A i \in Items : item[i] = NoItem
  BY DEF Init
<1>2. \A i \in Items, n \in Claims :
        run[i][n] = NoRun /\ attempt[i][n] = "none" /\ event[i][n] = "none"
  BY DEF Init
<1>3. HasReport /\ RetryHasTry
  BY <1>2, Values DEF HasReport, RetryHasTry, Reporting
<1>4. RowsAgree
  BY <1>1 DEF RowsAgree, NoItem
<1>5. Unclaimed /\ AttemptsClosed
  BY <1>2, Values DEF Unclaimed, AttemptsClosed
<1>6. OneReported
  BY <1>1, <1>2 DEF OneReported, NoItem
<1>7. TriesLeft
  BY <1>1, <1>2, Values DEF TriesLeft, NoItem
<1>8. Live = {} /\ \A p \in Procs : claiming[p] = 0
  BY <1>1 DEF Init, Live, NoItem
<1>9. OneClaims /\ RoomLeft
  BY <1>8, FS_EmptySet, KindAssumption DEF OneClaims, RoomLeft
<1>10. StartsCounted
  <2>1. \A i \in Items : ran[i] = 0 /\ Cardinality(Begun(i)) \in Nat
    BY ClaimSets DEF Init, Begun
  <2> QED
    BY <2>1 DEF StartsCounted
<1> QED
  BY <1>0, <1>3, <1>4, <1>5, <1>6, <1>7, <1>9, <1>10 DEF WorkInv

LEMMA NextInv == WorkInv /\ [Next]_vars => WorkInv'
<1> SUFFICES ASSUME WorkInv, [Next]_vars PROVE WorkInv'
  OBVIOUS
<1> USE DEF WorkInv
<1>1. WorkTypeOK'
  BY NextTyped
<1>2. \A j \in Items : ItemStep(j) /\ (\A m \in Claims : RunChange(j, m)) /\ HandlerStart(j)
  BY NextItems
<1>3. HasReport' /\ RetryHasTry'
  BY <1>2, HasReportKept, RetryHasTryKept
<1>4. RowsAgree' /\ Unclaimed' /\ AttemptsClosed' /\ OneReported'
  BY <1>1, <1>2, RowsAgreeKept, UnclaimedKept, AttemptsClosedKept, OneReportedKept
<1>5. TriesLeft' /\ StartsCounted'
  BY <1>1, <1>2, TriesLeftKept, StartsCountedKept
<1>6. OneClaims' /\ RoomLeft'
  BY <1>1, ClaimsKept
<1> QED
  BY <1>1, <1>3, <1>4, <1>5, <1>6

\* The inductive invariant of the work items.
THEOREM WorkInvariant == Spec => []WorkInv
<1>1. Init => WorkInv
  BY InitInv
<1>2. WorkInv /\ [Next]_vars => WorkInv'
  BY NextInv
<1> QED
  BY <1>1, <1>2, PTL DEF Spec

\* The tables and records keep their types.
THEOREM WorkTypesHold == Spec => []WorkTypeOK
<1>1. WorkInv => WorkTypeOK
  BY DEF WorkInv
<1> QED
  BY <1>1, WorkInvariant, PTL

\* The kind's concurrency holds across every process, however claims
\* interleave with lapses, reports, cancels and crashes (services.ts, claim).
THEOREM LimitAlwaysHeld == Spec => []LimitHeld
<1>1. WorkInv => LimitHeld
  BY DEF WorkInv, RoomLeft, LimitHeld
<1> QED
  BY <1>1, WorkInvariant, PTL

\* An item is reported once, by one attempt (services.ts, finish).
THEOREM OneResultAlways == Spec => []OneResult
<1>1. WorkInv => OneResult
  <2> SUFFICES ASSUME WorkInv, NEW i \in Items
               PROVE  /\ Cardinality(Results(i)) <= 1
                      /\ item[i].status = "reported" => Results(i) # {}
                      /\ \A n \in Results(i) : event[i][n] = "pending" =>
                           item[i].status \in {"reported", "settled"}
    BY DEF OneResult
  <2>1. /\ \A m, n \in Results(i) : m = n
        /\ \A n \in Results(i) : item[i].status \in {"reported", "settled"}
        /\ item[i].status = "reported" => Results(i) # {}
    BY DEF WorkInv, OneReported, Results
  <2>2. CASE Results(i) = {}
    BY <2>1, <2>2, FS_EmptySet
  <2>3. ASSUME NEW n \in Results(i) PROVE Cardinality(Results(i)) <= 1
    <3>1. Results(i) = {n}
      BY <2>1, <2>3
    <3>2. Cardinality({n}) = 1
      BY FS_Singleton, Zenon
    <3> QED
      BY <3>1, <3>2
  <2> QED
    BY <2>1, <2>2, <2>3
<1> QED
  BY <1>1, WorkInvariant, PTL

\* No attempt is left said to be running (services.ts, claim, giveUp, finish
\* and the cancellation).
THEOREM AttemptsAlwaysClosed == Spec => []AttemptsClosed
<1>1. WorkInv => AttemptsClosed
  BY DEF WorkInv
<1> QED
  BY <1>1, WorkInvariant, PTL

\* A handler is started only so often: the number of an attempt that may start
\* it is within its tries and, for a resumable one, the attempts it may lose.
THEOREM StartsAlwaysBounded == Spec => []StartsBounded
<1>1. WorkInv => StartsBounded
  <2> SUFFICES ASSUME WorkInv, NEW i \in Items
               PROVE  ran[i] <= IF Resumable THEN MaxAttempts + MaxLost ELSE MaxAttempts
    BY DEF StartsBounded
  <2> DEFINE bound == IF Resumable THEN MaxAttempts + MaxLost ELSE MaxAttempts
  <2>0. bound \in Nat
    BY KindAssumption
  <2>1. ASSUME NEW n \in Begun(i) PROVE n \in 1..bound
    <3>1. n \in Claims /\ run[i][n].at # "none" /\ ~Spent(i, n) /\ n \in Nat /\ n >= 1
      BY <2>1, WorkBounds DEF Begun, Claims
    <3>2. run[i][n].lost \in Nat
      BY <3>1 DEF WorkInv, WorkTypeOK, Runs
    <3>3. CASE Resumable
      <4>1. n - run[i][n].lost <= MaxAttempts
        BY <3>1, <3>3 DEF WorkInv, TriesLeft
      <4>2. run[i][n].lost <= MaxLost
        BY <3>1, <3>2, <3>3, KindAssumption DEF Spent
      <4> QED
        BY <3>1, <3>2, <3>3, <4>1, <4>2, KindAssumption
    <3>4. CASE ~Resumable
      BY <3>1, <3>4, KindAssumption DEF Spent
    <3> QED
      BY <3>3, <3>4
  <2>2. IsFiniteSet(1..bound) /\ Cardinality(1..bound) = bound
    <3> HIDE DEF bound
    <3> QED
      BY <2>0, FS_Interval
  <2>3. Begun(i) \subseteq 1..bound
    BY <2>1
  <2>4. Cardinality(Begun(i)) <= bound
    <3> HIDE DEF bound
    <3> QED
      BY <2>2, <2>3, FS_Subset
  <2>5. ran[i] \in Nat /\ ran[i] <= Cardinality(Begun(i)) /\ Cardinality(Begun(i)) \in Nat
    BY ClaimSets DEF WorkInv, StartsCounted, WorkTypeOK, Begun
  <2> QED
    BY <2>0, <2>4, <2>5
<1> QED
  BY <1>1, WorkInvariant, PTL

\* A lease that lapsed or was given up comes back only with a later claim.
THEOREM LeasesNotRevived == Spec => LeaseNotRevived
<1>1. ASSUME WorkInv, [Next]_vars, NEW j \in Items, item'[j].live, ~item[j].live
      PROVE  item'[j].claim > item[j].claim
  <2>0. ItemStep(j) /\ item[j] \in Rows
    BY <1>1, NextItems DEF WorkInv, WorkTypeOK
  <2>1. ~ItemMoves(j)
    BY <1>1 DEF ItemMoves, ItemUntouched, ItemAskedFor, ItemCancelled, ItemDecided, ItemDue,
                ItemLapsed, ItemCheckpointed, ItemReported, RowTo, Holds
  <2>2. j \in Due /\ item'[j] = Claimed(j)
    BY <2>0, <2>1 DEF ItemStep, ItemClaimed
  <2>3. item'[j].claim = item[j].attempts + 1
    BY <1>1, <2>2, ClaimedTyped DEF WorkInv
  <2>4. item[j].attempts \in Nat
    BY <2>0, WorkBounds DEF Rows, Claims
  <2>5. item[j].claim = 0 \/ item[j].claim = item[j].attempts
    BY <1>1 DEF WorkInv, RowsAgree, NoClaim
  <2> QED
    BY <2>3, <2>4, <2>5
<1>2. WorkInv /\ [Next]_vars =>
        [\A i \in Items : item'[i].live /\ ~item[i].live => item'[i].claim > item[i].claim]_vars
  BY <1>1
<1> QED
  BY <1>2, WorkInvariant, PTL DEF Spec, LeaseNotRevived

\* What a later attempt has checkpointed is never written over.
THEOREM CheckpointsOnlyMoveOn == Spec => CheckpointsMoveOn
<1>1. ASSUME WorkInv, [Next]_vars, NEW j \in Items
      PROVE  item'[j].checkpoint >= item[j].checkpoint
  <2>0. ItemStep(j) /\ item[j] \in Rows /\ item[j].checkpoint \in Nat
    BY <1>1, NextItems, WorkBounds DEF WorkInv, WorkTypeOK, Rows, Claims
  <2>1. CASE ItemClaimed(j)
    BY <1>1, <2>0, <2>1, ClaimedTyped DEF ItemClaimed, WorkInv
  <2>2. CASE ItemCheckpointed(j)
    <3>1. PICK n \in Claims : Holds(j, n) /\ RowTo(j, "running", n, TRUE, n)
      BY <2>2 DEF ItemCheckpointed
    <3>2. n = item[j].attempts /\ item[j].checkpoint <= item[j].attempts
      BY <1>1, <3>1 DEF Holds, WorkInv, RowsAgree
    <3> QED
      BY <2>0, <3>1, <3>2 DEF RowTo, Claims
  <2>3. CASE ItemMoves(j) /\ ~ItemCheckpointed(j)
    <3>1. item'[j].checkpoint = item[j].checkpoint
      BY <2>3 DEF ItemMoves, ItemUntouched, ItemAskedFor, ItemCancelled, ItemDecided, ItemDue,
                  ItemLapsed, ItemReported, RowTo
    <3> QED
      BY <2>0, <3>1
  <2> QED
    BY <2>0, <2>1, <2>2, <2>3 DEF ItemStep
<1>2. WorkInv /\ [Next]_vars => [\A i \in Items : item'[i].checkpoint >= item[i].checkpoint]_vars
  BY <1>1
<1> QED
  BY <1>2, WorkInvariant, PTL DEF Spec, CheckpointsMoveOn

\* Once an item is cancelled its result is never accepted, reported or not
\* (services.ts, the settling of a result event).
THEOREM CancelledStaysRefused == Spec => CancelledNotAccepted
<1>1. ASSUME WorkInv, [Next]_vars, NEW j \in Items, NEW n \in Claims,
             item[j].cancelled, event[j][n] # "accepted"
      PROVE  event'[j][n] # "accepted"
  <2>0. /\ ItemStep(j)
        /\ event[j] \in [Claims -> {"none", "pending", "accepted", "rejected", "cancelled",
                                    "unknown", "skipped"}]
    BY <1>1, NextItems DEF WorkInv, WorkTypeOK
  <2>1. CASE ItemDecided(j)
    BY <1>1, <2>0, <2>1 DEF ItemDecided
  <2>2. CASE ItemReported(j)
    BY <1>1, <2>0, <2>2 DEF ItemReported
  <2>3. CASE ~ItemDecided(j) /\ ~ItemReported(j)
    BY <1>1, <2>0, <2>3
    DEF ItemStep, ItemMoves, ItemUntouched, ItemAskedFor, ItemCancelled, ItemDue, ItemLapsed,
        ItemCheckpointed, ItemClaimed
  <2> QED
    BY <2>1, <2>2, <2>3
<1>2. WorkInv /\ [Next]_vars =>
        [\A i \in Items, n \in Claims :
           item[i].cancelled /\ event[i][n] # "accepted" => event'[i][n] # "accepted"]_vars
  BY <1>1
<1> QED
  BY <1>2, WorkInvariant, PTL DEF Spec, CancelledNotAccepted
=============================================================================
