# The workflow kernel and the machines that merge and decide: TLA+ models and proofs

Homeroom runs its long-lived processes (a proposal that waits for votes, a merge and what
follows it, a redeploy) as persistent state machines on PostgreSQL, in `src/workflow/`.
This directory holds the TLA+ specifications of that kernel and of the machines on it that
decide what is merged and applied, the TLC configurations that check them on small
instances, and proofs, checked by TLAPS, of safety properties for every size of instance.
Everything is translated from the code; where the code and a comment, a test or a document
of the repository disagree, the model follows the code and a run shows the disagreement
(see Findings).

Paths below are relative to the repository's root; `kernel/` is `src/workflow/kernel/`, and
a machine's directory stands for `src/workflow/<machine>/`.

## Inventory

### The kernel

| Part | State it keeps | Operations | Talks to |
|---|---|---|---|
| Event stream (`kernel/stream.ts`, `wf_events`) | each event's status, result, attempts, retry time | `append` (in a transaction of its own or its caller's), `appendAndWait`, `refuseIfPending` | the pipeline takes its events; a caller waits on a notification |
| Pipeline (`kernel/pipeline.ts`, `wf_instances`, `wf_receipts`) | an instance's state, version, machine version, flag; the receipt of each accepted request key | `processNext`: pick, lock, `claimNew`, `applyEvent`, `recordFailure` | reads the stream, writes work items, settles them, appends messages |
| Release (`kernel/inspect.ts`) | none of its own | `release(retry or skip)` of a faulted instance | the stream and the instance's flag |
| Services (`kernel/services.ts`, `wf_work`, `wf_work_attempts`) | an item's status, claim, lease, checkpoint, attempts and lost attempts | `claim`, `execute` (renew, checkpoint, handler, give up), `finish` | results go to the owning instance as events |
| Timers and retention (`kernel/timers.ts`) | an instance's one deadline | `fireDueTimers`, `nextDeadlineMs`, `purge` | appends the deadline's event |
| Runtime (`kernel/index.ts`) | which loops run, what runs in this process, the stop signal | loops with notify, due time and fallback; `start`, `quiesce`, `stop` | drives all of the above |
| Definition of a machine (`kernel/machine.ts`, `types.ts`, `steps.ts`) | a handler's checkpointed steps | `defineMachine`'s checks, `steps()` | used by machines and handlers |

Every instance is decided by whichever slot, of whichever process, gets its row lock. The
hard part is all in the gaps between statements: PostgreSQL's READ COMMITTED gives each
statement a new snapshot, an id is drawn before its event commits, locks are waited for
with a timeout, a failure rolls everything back and is recorded by a second transaction,
two builds run side by side during a deploy, and any process may die or stop at any point.

What makes the kernel correct:

- *stream and pipeline*: no accepted event is lost from an instance's state; a request key
  counts once; an instance's events are decided in order and one at a time; a failure,
  a backoff or a fault holds what comes after; nothing stays held for good; a decision
  once told stands; an older build never writes after a newer one; every committed event is
  decided in the end.
- *services*: the limit of a kind holds across processes; an item is reported once
  whatever dies; a process that lost its lease changes nothing; a cancelled item's result is
  not accepted; a handler is started a bounded number of times; every item is settled.
- *timers*: a deadline fires at most once per version of its instance, and fires if the
  instance does not move on.
- *runtime*: work or a deadline announced to a loop that is about to sleep is not missed for
  longer than the fallback; a stop reaches every handler.

### The machines on it

Each machine is a table of transitions in one file; its instances interact by messages
(events appended in the same transaction) and by work items.

| Machine | State | What is hard |
|---|---|---|
| `merge-queue` (one per app) | idle or working; the attempt and the resolution under way, what a pass tried, which proposals were named, whether one more pass is owed | asks that arrive during a pass; an answer that never comes and the 30-minute check; a late answer for a slot given away |
| `proposal` (one per session) | underway, in review, merging, unconfirmed, merged, closed; attempt, sync, force | what the gate measured outside the transaction; GitHub's answer lost; every exit from review giving back what the queue waits for; a row merged before the machine has heard |
| `merge-followups` (one per merge) | what is left to do after a merge | telling the proposal and the queue, through pods of two releases |
| `governance-proposal` (one per issue) | open, then applied, refused, withdrawn or superseded; the target check under way and what waits for it; follow-ups | votes, an admin, a deadline and a late check in any order; an electorate and a clock that move without an event |
| `app-delivery` (one per app) | idle, deploying or healing; the requests and which the deploy covers | requests that arrive during a deploy; answering each of them |
| `preview` | build and checks of a head | superseded runs that still report, retries, retirement |
| `shots`, `shots-eval` | screenshots and their reviews | superseded work |
| `app-creation`, `main-check`, `campaign` | creation, main's health, fleets of changes | supersession, concurrency limits, rollback |
| `clock` | periodic tasks with targets | a target due again while its pass runs |
| `turn`, `worker-stop`, `worker-release`, `release`, `platform-operation` | an agent's turn and its worker | stop against finish |
| `bot-*`, `bench-lane` | the Homeroom bot | mostly wording and prompts, a lane per project |

They meet by messages. A vote, a passed check or a moved main asks the merge queue
(`MergeWanted`); the queue asks one proposal at a time to merge (`MergeRequested`) and one
to resolve a conflict (`SyncRequested`); the proposal answers (`AttemptEnded`,
`ResolutionEnded`) and tells `merge-followups` what GitHub merged, which tells it and the
queue when the row is. A governance proposal that changes a secret asks `app-delivery` for a
redeploy and is answered once. What they read of each other (the row, the votes, GitHub) they
read when they decide.

What makes the machines correct:

- *merge queue and proposal*: a slot of the queue's is never forgotten and never answered
  twice, whatever happens to the proposal; passes end; a proposal is claimed for the head,
  the votes and the checks its gate measured, and GitHub is asked to merge that head; it is
  never merged and synced at once; a force ends with its review; what GitHub merged is
  recorded; nobody in the line waits for ever.
- *the gate*: the threshold lies between the floor and a majority, a No never lowers it, no
  tally is both mergeable and rejectable, and a No does not hasten a merge.
- *governance proposals*: what the group decides is carried by the votes it leaves behind;
  what passes is applied though nobody announces it; what an admin forces is settled; every
  follow-up is answered, and done once; a redeploy that is done runs what was applied.

Around them are the HTTP routes and services (`src/server.js`, `src/services`), the web client, the worker
and capture images, and the deployment files: I/O, presentation and configuration, which
these specifications leave out. `PROJECT.json` lists every part with its status.

## Modules

| Module | What it is |
|---|---|
| `Stream` | what the kernel promises of an event stream, with no slots, locks or retries |
| `Pipeline` | the transition pipeline, one step per statement another slot can come between |
| `PipelineProofs` | theorems about `Pipeline` |
| `StreamProofs` | `Pipeline` implements `Stream` |
| `WorkItems` | work items of one kind and the processes that run them |
| `WorkProofs` | theorems about `WorkItems` |
| `MergeLine` | an app's merge queue and its proposals, composed by their messages, with GitHub, the mirror and people around them |
| `MergeProofs` | theorems about `MergeLine` |
| `MergeGate` | the vote gate as pure operators: thresholds, windows, verdicts |
| `GateProofs` | theorems about `MergeGate` |
| `Governance` | one governance proposal with its gate (`MergeGate`), its works and `app-delivery` |
| `GovernanceProofs` | theorems about `Governance` |
| `MCPipeline`, `MCWorkItems`, `MCMergeLine`, `MCMergeGate`, `MCGovernance` | constants and small instances of the TLC runs |

`Pipeline` implements `Stream`. `MergeLine` and `Governance` rest on what those two show:
an instance's events are decided one at a time and a work item is reported once, so there one
transition is one action.

Definitions marked as a defect are not part of a specification. Each is a mapped definition
with one plausible mistake, and shows that a property notices it.

### Pipeline and the code

An event is `unsent`, then `open` (inserted, with its id, in a transaction nobody sees),
then `pending` or, if its producer rolls back, `dropped`. `before[e]` remembers which
events were committed before it: the order a reader of the stream would call "before".
Ids are drawn in order and commits come in any order.

A slot is one transaction, in these steps:

| Step (`slot[s].at`) | Code |
|---|---|
| `Pick`: idle to `picked` or `claiming` | `pickSql`: head of a stream, not in backoff, event row `FOR UPDATE SKIP LOCKED`. Flag, machine version, instance version and receipt are those of the statement's snapshot. |
| `LockInstance`, `RowGone` | the pick's join on the instance `FOR UPDATE`: it waits, then reads the row as it is now; a row deleted meanwhile joins as none |
| `InsertPlaceholder`, `InsertConflicts` | `CLAIM_NEW`, `INSERT ... ON CONFLICT DO NOTHING` of a `(none)` row; it waits for one another transaction is inserting |
| `Relock`, `RelockFindsNone` | `LOCK_INSTANCE` and `READ_RECEIPT` after a conflict |
| `LockTimeout` | the lock timeout of either |
| `PassOver` | the re-check under the lock of the flag and the machine version |
| `Accept`, `Reject`, `Replay` | `applyEvent` with `FINISH_ACCEPTED`, `FINISH_UNCHANGED`; the commit |
| `Fail`, then `RecordTimeout`, `RecordFault` or `DealtWith` | the rollback, then `recordFailure` in its own transaction |
| `Lost` | the process or its connection dies, or that second transaction fails |

What a machine decides is left open: a step may accept, reject or throw. So admission,
facts, guards and transitions are covered whatever they say, and what they write is
represented by the set of accepted events the instance's state was computed from (`data`):
losing an update shows as an accepted event missing from it. `ver` counts accepted events;
`ver = 0` is the pseudo-state `(none)`. A retry backoff is membership of `backoff`, ended by
`BackoffOver`. `passed` is the list of events a slot has passed over since its last round.
`unlocked` is a history variable: the instances about which some slot has gone on with no
row to lock.

`Stream` has the same events and one action per decision. `ImplementsStream` maps a row's
`data` to the stream's `state`, and a faulted flag's event to the stream's `fault`.

### WorkItems and the code

One kind of item. `item` is the row of `wf_work`, `attempt` its `wf_work_attempts`, `run`
what the process that made a claim is doing under it (`execute`), `event` the result event.
A claim's id is its attempt's number; the code's random claim token is unique too. A claim
takes two steps, since the kind's advisory lock is held from the count of live items to the
commit (`StartClaim`, `EndClaim`), and everything else may move between them. `Execute`
adds the abort listener; `Renew` and `Checkpoint` are writes under the claim; `HandlerReturns`
and `HandlerThrows` are the handler's end; `Report` is `finish()`, and `ReportThrows` the
report that fails before or after its commit, after which the error is reported instead,
once. `GiveUp` is a process that stops and hands its lease back. `Cancel`, `Settle`, `Skip`
and `Emit` are the pipeline's side.

Leases have no clock: a lease lapses when nobody is renewing it, and lapses under a running
handler only as a fault (a hung process, an unreachable database), counted in `faults`.

### MergeLine and the code

`queue` is the merge queue's data, `timer` its deadline (`Check` or `Sweep`) and `inbox` the
events it has not decided; `prop`, `pin` and `work` are the proposals' instances, events and
running works; `row` is what `chat_sessions` and the mirror say of each (head, approval epoch,
whether the gate would pass, checks, whether it merges cleanly, the main it was measured
against); `gh` its branch on GitHub; `told` the merges `merge-followups` has yet to record.

| Definitions | Code |
|---|---|
| `InLine` to `GivenUp`, `Rank`, `Admitted` | `merge-queue/facts.ts` (`LINE_SQL`, `readLine`) and the line's rules (`compare`, `admission`, `blocked`) |
| `Asks`, `Pass`, `Ask`, `LookAtLine` | `pick`: the direct lane, the conflict lane, the pass that is owed, the timer |
| `QWanted`, `QAnswered`, `QCheck`, `QSweep` | `wanted`, `attemptEnded` and `resolutionEnded` with the guard `own`, `checked`, the `Sweep` |
| `MergeAsked`, `Gated`, `Attempted`, `Observed`, `Resend`, `MergeRecorded` | `proposal/machine.ts`: `mergeRequested`, `gated`, `attempted`, `observed`, `observeDue`, `merged` |
| `SyncAsked`, `PersonSyncs`, `Synced`, `Stop` | `syncRequested`, `syncRefusal`, `beginSync`, `synced`, `stopRequested` |
| `Proposed`, `Unpromote`, `Close`, `ForceMerge`, `PrLooked`, `ReviewCheck`, `ReviewHeadMoved` | the handlers of those events, under the guard `mergedAway` (`In`) |
| `GateReports`, `AttemptReports`, `SyncReports` | the works of `proposal/services.ts`; `AttemptReports` stands for `attemptMerge` (`src/routes/votes.js`), whose answers it gives |
| `Followups`, `Carried` | `merge-followups/machine.ts`: `merged`, which asks the queue besides, and `included` |
| `ChecksStart`, `Verdict`, `TurnEnds` | `preview`: `setChecksPending`, `mergeWanted`, `stoppedMoving`. Checks are `unstarted` while no run of the row's head is in flight (new code, a deferred run): the queue waits only for one that is |

Works and messages are read in any order, which includes the stream's. A number of an ask or
of a work is only ever compared, so one that nothing names any more is used again; this keeps
the instance finite. Whether a proposal's votes pass is one bit of its row (`approved`), moved
by `Vote`, and the order by votes and wait is left open: the queue takes any of the cheapest.

### MergeGate and the code

`src/workflow/rules/governance-gate.ts` without its dates: a window is a fraction of days, so
the curves (a cube of a fraction) are exact, where the code rounds to a millisecond. Both of
the two regimes of a project's columns are there, and the floor of a flagged proposal.

### Governance and the code

One proposal. `p` is its instance, `row` its row of `issues`, `vote`, `app` and `electors`
what `facts.ts` counts from (`electors` is what `electorate` answers: how many are active and
whose votes count, which under the 'invited' policy is the roster both times, and under
'anyone' are those active lately and everybody), `work` its items, `target` the issue it closes or reopens,
`delivery` the app's `app-delivery` with the requests of this proposal told apart.

| Definitions | Code |
|---|---|
| `Recount`, `WithVote`, `Approved`, `Mergeable` | `facts.ts` `readGate`; `gate.ts` `withVote` and `evaluate`: the vote is folded into counts read before it is written |
| `Decide`, `AwaitTarget`, `Checking`, `Apply`, `ClosedAs`, `Supersede`, `EndOutside` | the same in `machine.ts`; `BecomesWith` is the transition's commit: instance, row, work and messages together |
| `Filed`, `VoteCast`, `Evaluate`, `AdminApply`, `Withdraw`, `TargetClosed`, `CheckResult`, `FollowupResult`, `DeliveryAnswer`, `RetryFollowup` | the machine's events |
| `CheckTarget`, `CloseIssue`, `StartComment`, `PostComment`, `BotRequestsClosed` | the steps of the handlers, with their checkpoints; `AttemptLost` is an attempt that ends anywhere |
| `DeployRequested` to `HealEnds` | `app-delivery/machine.ts` |

`delivery.keyed` and `secret` are history variables: whether the deploy under way started
after the secret was applied, and whether one such deploy has succeeded. The hourly rule of
the target check is a choice (`Due`). `Fresh` names a work key with a number nothing uses,
where the code uses the instance's next version. Once the proposal is closed nothing reads
the electorate, the clock or the votes, and they stop.

## Runs

| Run | Question | Result |
|---|---|---|
| `pipeline` | Do the invariants hold when two slots of two builds race on three events of one instance (two of them one request) with late commits, a timeout that stalls, a fault and a release, and does an older build never write after a newer? | holds |
| `pipeline_live` | Two slots of two builds, a request and its retry: is it one event at a time, is every committed event decided or behind a fault, through timeouts, a lost transaction and a release, and does the pipeline implement the stream? | holds |
| `pipeline_serial` | One event at a time, with three events of one build and a stall? | `OneAtATime` is violated, see Findings |
| `work` | Two processes, two items, limit one, one fault (crash, lapse, outage, refused report), a stop and cancels. | holds |
| `work_live` | One resumable item with two tries, one fault and a stop: is it started no more often than it may, and settled, and do its checkpoints only move on? | holds |
| `work_stop` | Does a stop reach every handler of its process? | violated |
| `merge` | Does the queue keep, and give back once, each slot it waits on, and do claims, forces and merged rows stand, whatever people, pushes and failures do? | holds |
| `merge_live` | Do passes end, merges settle and get recorded, and does everyone in the line get their turn? | holds |
| `merge_head` | Is GitHub asked to merge only a head that was claimed? | violated |
| `merge_sweep` | Is the idle queue with a line always looked at again? | violated |
| `governance` | All five kinds of proposal, two voters, an admin, GitHub and a deploy: are outcomes carried by the votes, is what passed or forced settled, is every follow-up answered, and nothing said or done twice? | holds |
| `gate_no` | Does one more No ever let a proposal in sooner? | it does |

### Bounds, and why they are enough

- *Two slots, one instance.* Slots share nothing but rows, and everything shared is per
  instance; two instances only interleave. Two slots give every race of two transactions.
  The proofs cover any number of both.
- *Two or three events.* Three give one that is late, one it is late for, and one behind both.
- `StallAfter` is 5 in production, 1 or 2 here: it only matters whether it is reached, and
  1 makes every timeout reach it. `MaxAttempts` caps timeouts, `MaxReleases` releases and
  `MaxLost` lost transactions; the safety proofs hold for every value of them. 16 passes in
  a row (`MAX_PASSES`) are out of reach of three events and are left out.
- *Work.* `MaxClaims` caps how often an item is claimed. In `work_live` it does not bind:
  a retry, two lost attempts and the claim that finds them spent are four, and it is five. In
  `work` the three claims are a try, one lost to the fault and one to the stop. `MaxFaults` and
  `MaxStops` cap what goes wrong. Limit one is the tightest limit two processes can break.
- *The merge line.* An instance (`Instances`) says which proposals are in review, approved and
  clean at the start, and how many moves people make, works fail and answers are late, of which
  kinds. One proposal meets a move and a failure of every kind at once, a move and a late
  `Check`, or two moves that end a review; two proposals meet each other's merges, a push, a
  failure, or two of a carry, a force and a close. Two proposals are what one attempt and one
  resolution can be shared by. `Numbers` are four: two slots, and two answers that are late
  for them. `MaxHead` is two commits of a branch: the one that was measured and another. A
  pusher that never stops would show nothing for liveness. `MergeProofs` has none of these
  bounds.
- *Governance.* Two voters, one of them an admin and the other the author, and two
  electorates, between which the proposal may move at any time: 'invited' with the admin and
  somebody who does not vote on the roster, where the author's vote does not count, and 'anyone'
  with one person active, where more votes count than people are active. They cover both sides
  of every comparison the gate makes at this size; `MergeGate` and `GovernanceProofs` are proved
  for any. Two ages, before and after the shortest lazy window. `Tries` is two, of
  three or more in the code: an attempt that is lost and the last one. One follow-up is
  retried once (`MaxRetries`). The "at least N" regime is not in the run (`Regimes`): it is one
  comparison, and the model has it.
- *The gate.* `gate_no` looks at one electorate, of 25 people, and every order of its votes.
- Runs with no bound on how often a thing fails would show nothing for liveness: a database
  that times out for ever decides nothing.
- `CHECK_DEADLOCK FALSE` stands in the merge, governance and gate runs: a line that is empty,
  a proposal that is closed and answered and a tally that is full rightly come to rest.

### Fairness

`pipeline_live` assumes that a slot with something to do does it (a slot's loop in
`kernel/index.ts` never ends before `stop`, and looks again after at most 30 s, 1 s when it
is not listening), and that a backoff ends. It does not assume that anybody appends, commits
or releases. `work_live` assumes that some process goes on claiming (loops), that a claim
ends, that a handler returns or throws in the end (its timeouts; nothing in the kernel ends
one that ignores its signal), that an unrenewed lease lapses and a retry becomes due (time
passes), that the pipeline decides a result event (`pipeline_live`), and that a stopped
process is replaced (the deployment does).

`merge_live` and `governance` assume what those two runs show: the pipeline decides the
events an instance is sent, and a work is tried until it reports. They assume besides that
timers fire, that the poller, the mirror and the clock's hourly checks come round (`Looks`),
that checks start and give a verdict and turns end, and that a deploy and a heal end. Nothing people
do is fair: votes, pushes, forces, closes and retries may never come. Failures are
not fair and are bounded. Nor is the passing of days: `PassedSettles` holds whichever age the
proposal stays at, since it is about votes that carry now.

Weak fairness is enough throughout: none of these is switched off by another while it waits
for ever.

## Proofs

Six modules hold theorems, all of them for any value of the constants. Every safety property
the passing runs check, invariant, action property or refinement, is one of them.

### The pipeline

`PipelineProofs` proves, for any sets of slots, instances and events, any build per slot and
any bounds, with the assumptions named in `Pipeline` (ids are positive, each event has one
instance and one request key, `NoSlot` is not a slot):

| Theorem | States |
|---|---|
| `Invariant` | `Spec => []IInv` |
| `TypeCorrect` | `Spec => []TypeOK` |
| `NoUpdateIsLost` | `Spec => []NoLostUpdate` |
| `AcceptsOnce` | `Spec => []AcceptedOnce` |
| `ReceiptsAreCurrent` | `Spec => []ReceiptIsCurrent` |
| `DecidesInOrder` | `Spec => []InOrder` |
| `NothingHeldForGood` | `Spec => []HeldBehindFault` |
| `OneAtATimeUnlessUnlocked` | `Spec => [](unlocked = {} => OneAtATime)` |
| `DecisionsStand` | `Spec => DecidedForGood` |
| `NewerBuildStays` | `Spec => NeverOlderBuild` |

None of the properties is inductive alone. `IInv` adds, in named parts:

- `SlotInv`: a busy slot has a committed event, pending while it holds the event's row;
  no two slots hold one event; a slot is deciding exactly when the lock is its own
  (`LockIsSlots`); and what it read under the lock is still the row (`ViewIsRow`), which is
  what "no update is lost" rests on. `bare` slots, which have no lock, are only about
  instances in `unlocked`.
- `EventInv`: a result is there exactly when the event is processed, a receipt names the
  accepted event of its key, and what was committed before an event is never open.
- `SnapshotTells`: a receipt written since a slot's snapshot shows as a higher version of the
  row. This is why `readReceipt` only when the version moved is enough (`ReceiptIsCurrent`).
- `BlameIsOwn`, `OrderOfSlots`, `OrderOfRelease`: a fault names an event of its own instance;
  what comes before an event in a slot is done, and is not what a release would bring back;
  nor would a release bring back what a decided event came after. They make `InOrder`
  survive a release.

The step theorem `IInvKept` has one step per action and under it one per part the action can
disturb. Where a slot went on with no row to lock (`unlocked`) most of this is false, as
`pipeline_serial` shows, so the properties exclude such instances by name. `AcceptedOnce`,
`DecidedForGood` and the type invariant hold there too.

`StreamProofs` proves `PipelineImplementsStream == Spec /\ [](unlocked = {}) =>
ImplementsStream`, one lemma per action: each step of the pipeline is one step of `Stream`
under the mapping, or leaves its state alone. A producer's commit and refusal, `Accept`,
`Reject`, `Replay`, `RecordFault` and a release are the stream's actions; picking, locking,
passing over, failing and losing are stutters. `Replay` needs one part `IInv` has not: a
receipt a slot goes by names an accepted event of its request (`SlotReceipt`). The hypothesis
excludes the code bug of `pipeline_serial` and nothing else: `unlocked` only grows in
`RelockFindsNone`, the step in which a slot goes on with no row. It does not exclude the
behaviours that matter: `pipeline_live` checks the refinement with no hypothesis, on an
instance where two slots race, time out, fault and are released.

### Work items

`WorkProofs` proves, for any finite sets of processes and items and any limit, tries, lost
attempts, faults and stops (`WorkSets`, `WorkBounds`, `KindAssumption`):

| Theorem | States |
|---|---|
| `WorkInvariant` | `Spec => []WorkInv` |
| `WorkTypesHold` | `Spec => []WorkTypeOK` |
| `LimitAlwaysHeld` | `Spec => []LimitHeld` |
| `OneResultAlways` | `Spec => []OneResult` |
| `AttemptsAlwaysClosed` | `Spec => []AttemptsClosed` |
| `StartsAlwaysBounded` | `Spec => []StartsBounded` |
| `LeasesNotRevived` | `Spec => LeaseNotRevived` |
| `CheckpointsOnlyMoveOn` | `Spec => CheckpointsMoveOn` |
| `CancelledStaysRefused` | `Spec => CancelledNotAccepted` |

What the invariant adds:

- *The limit.* One process is in a kind's claim transaction (`OneClaims`), and what it counted
  room for still fits (`RoomLeft`): items stop being live under it, but none starts.
- *One result.* A claim is the row's last attempt (`RowsAgree`), nothing has happened under one
  not yet made (`Unclaimed`), and an item with a result is out of reach of every other claim
  (`OneReported`).
- *Bounded starts.* They are counted against the claims whose handler may have begun
  (`StartsCounted`). A claim of a resumable handler counts as a try unless the attempt before
  it was lost, and both counts are read when the claim is made: a queued item, a running one
  and an attempt that reports a retry each have a try left (`TriesLeft`, `RetryHasTry`,
  `HasReport`).

### The merge line

`MergeProofs` proves, for any set of proposals, any numbers, any bound on commits and any
instances (with `MergeLineAssumption`: no proposal is `None`, numbers are positive):

| Theorem | States |
|---|---|
| `MergeTypeCorrect` | `Spec => []MergeTypeOK` |
| `SlotsNeverLeak` | `Spec => []NoSlotLeaks` |
| `AsksAnsweredOnce` | `Spec => []OneAnswer` |
| `MergesAndSyncsExclude` | `Spec => []NeverMergeAndSync` |
| `ForcesEnd` | `Spec => []ForceEnds` |
| `ClaimsAreFresh` | `Spec => ClaimFresh` |
| `RowsMergedStay` | `Spec => MergedStays` |

The invariant has four layers, each proved from the ones before it.

- `TypeInv` adds to the types those of the events in flight (`LettersOK`).
- `AllSound` is, for each proposal on its own: the attempt's stage and the state say the same
  and exclude a sync (`Apart`); a force is only held in review or while merging
  (`ForceInReview`), and a forced gate only while the force stands (`GateForce`); and a merged
  row is `merging` or on its way to it (`MergeKept`). A transition changes one proposal, so
  each action has one lemma about `Sound(p)`, and the others keep theirs.
- `SlotsInv` is about the queue and the proposals together: an ask in flight names the
  proposal it was sent to (`AsksMatch`), and each slot the queue waits on has a place
  (`SlotsPlaced`): the ask is unread, held by the proposal, or answered with the answer
  unread. Every transition that takes an ask off a proposal puts its answer in the inbox. The
  guard `own` frees only a slot whose number and proposal match, and `QCheck` only one that no
  proposal holds, which may forget an unread ask: then the slot is free too.
- `AsksOnce` is about one number of the queue's at a time, wherever it is named: an ask in
  flight, a proposal's attempt or sync, an answer in the inbox. It is named in one place
  (`Once`), so two answers to one ask are never on their way. One exception outlives its
  answer (`Outlives`): an attempt GitHub has or may have answered keeps naming the ask it was
  made for, and no longer answers it. A number is used again only when nothing names it.

### The gate

`GateProofs` proves, for every size of electorate and every tally:

| Theorem | States |
|---|---|
| `RequiredWithinBounds` | the votes it takes lie between the floor and a majority |
| `NoRaisesTheBar` | one more No never lowers them |
| `ContestedNeedsMajority` | once a third say No, nothing short of a majority is merged |
| `MajorityCarries` | a majority is mergeable at any age |
| `NeverBothVerdicts` | no tally is both mergeable and rejectable |
| `LazyWithinAWeek` | an armed lazy window is three to seven days |

They rest on lemmas about the threshold and the contested mark; the curves inside the windows
are only needed to be between their ends. That a No never shortens the clock is false:
see `gate_no`.

### Governance

`GovernanceProofs` proves, for any people, admins among them, electorates, community, kinds,
regimes and ages, any number of tries of a work and of retries by admins (with the assumptions
of `Governance`, one of which says that no person is named like its markers for nobody and for
the group):

| Theorem | States |
|---|---|
| `GovInvariant` | `Spec => []GovInv` |
| `GovTypesHold` | `Spec => []GovTypeOK` |
| `PendingAlwaysHeld` | `Spec => []PendingIsHeld` |
| `CommentedOnce` | `Spec => []CommentOnce` |
| `DoneAlwaysRan` | `Spec => []DoneRunsTheSecret` |
| `GroupAlwaysCarries` | `Spec => GroupVoteHolds` |

`GovInv` ties the instance to its work items, to `app-delivery` and to the answers in between:

- `ProposalOK`: an open proposal has its deadline and no follow-up, and of each job one
  follow-up at most is not retried (`OneStands`). That is what makes the redeploy an answer
  belongs to the only one it can be (`AskedIsOne`).
- `Matches`, `CheckHeld`, `ItemOK`: a follow-up that is not a redeploy has its own item, which
  has reported exactly when it is no longer pending; an item that may still run has a try left.
- `CommentsOK`: once the comment is there, whoever may still post it has checkpointed that it
  would, so it looks first. A retry resumes from the checkpoint, which is why it holds.
- `DeliveryOK`, `MailOK`, `RedeploysOK`: a request is recorded, and so covered by a deploy, only
  once the proposal is applied; an answer that says delivered is there only once such a deploy
  has succeeded; a pending redeploy is asked for, recorded and not told, or answered.

Every decision is an outcome of two forms, one that stays open (`Stays`) and one that closes
(`Closes`), and each form keeps the invariant by one lemma; the transitions are then shown to
give one of the two. `GroupAlwaysCarries` rests on `VoteIsCounted`: the vote folded into the
counts read before it is written is the vote counted, for a voter in the electorate or out of
it, the author, an admin, and a vote taken back.

### Model-checked only

Liveness: `EveryEventDecided`, `EveryItemSettles`, `PassesEnd`, `MergesSettle`,
`MergedIsRecorded`, `ReadyIsTaken`, `ConflictIsTaken`, `PassedSettles`, `ForcedSettles` and
`FollowupsSettle`. Fairness and `ENABLED` are out of the prover's reach.

## Findings

- **`pipeline_serial`, a code bug.** `claimNew` (`kernel/pipeline.ts:283`) takes
  `rows[0]` of a lock query that can return no row: the `(none)` row its insert conflicted
  with may be deleted (by a rejected event's `FINISH_UNCHANGED`) before the next statement.
  The slot then decides with no instance and no lock, beside one that has the lock. It takes
  a `(none)` row that outlived its transaction, which a stall, or a release of a fault on an
  instance that does not exist yet, leaves.
- **`work_stop`, a code bug.** `execute` adds its abort listener without looking whether the
  signal has aborted already (`kernel/services.ts:279`), and `startServices` checks the signal
  before it awaits the claim, not after. A claim that commits while `stop()` runs starts a
  handler that is never told.
- **`merge_head`, a code bug.** When GitHub answers that main moved, the attempt is asked once
  more at the row's head of that moment (`proposal/machine.ts:1105`). A push may have moved it
  since the claim, so GitHub may be asked to merge a head nobody measured or voted on.
  `proposal/services.ts:338` says it is asked "at exactly the head the claim was for".
- **`merge_sweep`, a code bug.** A merge without an answer gives its slot back while its
  proposal is out of the line; over an empty line the queue clears its timer. When the merge
  turns out not to have happened, the proposal is in the line again, its answer is refused as
  stale, and no sweep is armed (`merge-queue/machine.ts:214`) although the comment at line 39
  says the queue looks again while the line is not empty. The proposal's own hourly check is
  what rescues it, which is why `ReadyIsTaken` still holds.
- **`gate_no`, the code and its comment.** A No that lifts the threshold one above the Yes
  count moves a proposal from the visibility window to the lazy one, which can be shorter: with
  25 active people and 8 Yes, 3.16 days become 3. `governance-gate.ts:32` says opposition
  pushes the window out, and two tests (`tests/merge-gates.test.js:93` and `:195`) say so of
  tallies at which it does.

Seen while modelling, with no run of their own: a release leaves a `(none)` row that carries
no flag, which the schema's comment does not allow for; when a late event faults while another
fault of its instance is being recorded, the second replaces the first in the flag and a
release with 'retry' takes up only the second; and an extra Yes can lengthen the wait too (20
active people, the sixth Yes: 3 days become 3.4), since it changes the lazy clock for the
visibility window.

## Not modelled, and why

- In the pipeline: the machines' own transitions (open), `reply` and pushes (no state of the
  kernel's), the wake-ups of waiting callers (`pipeline_live` is about the event, not its
  caller), the `@Released` audit event a release inserts already processed, web's producer
  stamp and admission (a pure check; `Reject` stands for its refusals).
- In the services: the rules by which an older build leaves work to a newer one
  (`ownRelease`, newest-only, version checks), the order by due time, the mark of a full
  kind, `continues`, and real time: how close a self-stop comes to the lease's end is left
  to a timed model.
- In the merge line: promoting and its pull request, pause, resume, reopen and stale closing
  (moves of a proposal that is not in the line), stacked changes and retargeting, forks, the
  sync that is owed, an app's lock, shots, a paused main, and what the gate says to people. Of
  `merge-followups`, its delivery, teardown and issue work. The gate's measurement is what the
  claim reads again; its other reasons to wait appear as a gate that is not ready.
- In governance: projects whose rules are composed (`governance-rules.ts`,
  `computeRulesGate`), the evaluation kept for the reply, chat and pushes, self-hosted secrets,
  the data key, and `threads.closeChanges`, a work retried like the bot's. A handler
  whose lease has lapsed and that goes on posting is not modelled; nothing fences GitHub. In
  app-delivery, restart recovery and the reuse of a preview's image.
- Timers, purge, signals and the other machines: see the plan. Routes, the web client, images
  and deployment files are I/O, presentation and configuration.

## Plan

In this order:

1. `Preview`: builds and checks of a head, superseded while their work reports, composed with
   the merge line, which takes its verdicts as given.
2. `Lease`: one lease with a clock in ticks: the heartbeat every quarter of it, the self-stop
   three quarters after the last renewal, checkpoints that extend the lease in the database
   between heartbeats.
3. `Timers`: the deadline of an instance against the transitions that set, clear or keep it,
   several timer loops, faults and releases, its request key.
4. `Signals`: the loop's due query, its sleep, a notification in between, the fallback, the
   reconnecting listener.
5. The rest of `MergeFollowups`, `Clock`, the turns.

Abstract specifications worth stating next: a bounded pool of exclusive leases for
`WorkItems`, and a per-app mutex for the merge queue, implemented by it and its proposals.

## Running

    tlc -workers 2 -config pipeline.cfg MCPipeline
    tlc -workers 2 -config work.cfg MCWorkItems
    tlc -workers 2 -config merge.cfg MCMergeLine
    tlc -workers 2 -config governance.cfg MCGovernance
    tlc -workers 2 -config gate_no.cfg MCMergeGate
    tlapm StreamProofs.tla

and so for the other modules of theorems: `PipelineProofs`, `WorkProofs`, `MergeProofs`,
`GateProofs` and `GovernanceProofs`.

`PROJECT.json` names the module and configuration of each run, maps each definition to the
code it stands for, and lists the hazards the properties are for.
