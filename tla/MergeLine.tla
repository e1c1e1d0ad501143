----------------------------- MODULE MergeLine ------------------------------
(***************************************************************************)
(* An app's merge queue (src/workflow/merge-queue/machine.ts) and the      *)
(* proposals it merges one at a time (src/workflow/proposal/machine.ts:    *)
(* the merge gate, the claim, GitHub's merge, an answer that never comes,  *)
(* and the syncs with main), composed by the messages between them.        *)
(*                                                                         *)
(* The queue asks (MergeRequested, SyncRequested), a proposal decides      *)
(* under its own lock and answers (AttemptEnded, ResolutionEnded).  Every  *)
(* action is one event's transition, one handler's run, or a step of the   *)
(* world.  Inboxes are sets read in any order: the stream's order is one   *)
(* of them (Stream.tla).  Numbers of asks and of works are only compared   *)
(* for equality, so one nothing names any more is used again.              *)
(***************************************************************************)
EXTENDS Naturals, FiniteSets

CONSTANTS
  Proposals,   \* the app's proposals
  None,        \* no proposal
  Numbers,     \* numbers of asks and of works
  MaxHead,     \* bound: commits of a proposal's branch
  Instances    \* the proposals in review at first, those approved and clean of
               \* conflicts, and bounds: how often people may do what, works fail
               \* or be refused, answers be late

\* What people may do, and what may go wrong.
Kinds == {"propose", "unpromote", "close", "force", "vote", "turn", "push", "hand", "sync", "stop",
          "carried",
          "gate", "error", "back", "exhausted", "closed", "rate_limited", "base_moved", "conflict",
          "held", "busy", "older"}

ASSUME MergeLineAssumption ==
  /\ None \notin Proposals
  /\ Numbers \subseteq Nat \ {0}
  /\ MaxHead \in Nat \ {0}
  /\ Instances \subseteq [line : SUBSET Proposals, approved : SUBSET Proposals,
                           clean : SUBSET Proposals, moves : Nat, faults : Nat,
                           late : Nat, kinds : SUBSET Kinds]

VARIABLES
  queue,    \* the queue instance's data
  timer,    \* its deadline
  inbox,    \* events the queue has not decided
  prop,     \* the proposal instances
  pin,      \* events the proposals have not decided
  work,     \* their works that run
  row,      \* what chat_sessions and the mirror say of each
  gh,       \* its branch on GitHub
  main,     \* merges into main
  told,     \* merges merge-followups has not recorded
  left      \* what the instance may still do

vars == <<queue, timer, inbox, prop, pin, work, row, gh, main, told, left>>
queueVars == <<queue, timer>>
world == <<gh, main, told, left>>

Heads == 1..MaxHead
NoHead == 0

NoSlot == [n |-> 0, p |-> None]
NoAttempt == [stage |-> "none", n |-> 0, queueN |-> 0, force |-> FALSE,
              head |-> NoHead, epoch |-> 0, retried |-> FALSE]
NoSync == [n |-> 0, queueN |-> 0, github |-> FALSE, head |-> NoHead]
NoRefusal == [head |-> NoHead, main |-> 0, kind |-> "none"]
NotGivenUp == [head |-> NoHead, main |-> 0]

Wanted(p) == [type |-> "MergeWanted", p |-> p]
Ended(p, n) == [type |-> "AttemptEnded", p |-> p, n |-> n]
Resolved(p, n) == [type |-> "ResolutionEnded", p |-> p, n |-> n]
Fired(t) == [type |-> t]
MergeRequested(p, n, force) == [type |-> "MergeRequested", p |-> p, n |-> n, force |-> force]
SyncRequested(p, n, approved, github) ==
  [type |-> "SyncRequested", p |-> p, n |-> n, approved |-> approved, github |-> github]
Merged(p) == [type |-> "Merged", p |-> p]
Work(p, kind, n, head) == [p |-> p, kind |-> kind, n |-> n, head |-> head]
Done(w, outcome, head, epoch) ==
  [type |-> "WorkDone", p |-> w.p, kind |-> w.kind, n |-> w.n,
   outcome |-> outcome, head |-> head, epoch |-> epoch]

\* Numbers an ask, a slot, an answer or a work still names.
AskNumbers ==
  {queue.attempt.n, queue.resolution.n}
    \cup {m.n : m \in {x \in inbox : x.type \in {"AttemptEnded", "ResolutionEnded"}}}
    \cup {m.n : m \in {x \in pin : x.type \in {"MergeRequested", "SyncRequested"}}}
    \cup UNION {{prop[p].attempt.queueN, prop[p].sync.queueN} : p \in Proposals}
FreshAsks == Numbers \ AskNumbers
WorkNumbers(p) ==
  {prop[p].attempt.n, prop[p].sync.n}
    \cup {w.n : w \in {x \in work : x.p = p}}
    \cup {m.n : m \in {x \in pin : x.type = "WorkDone" /\ x.p = p}}
FreshWorks(p) == Numbers \ WorkNumbers(p)
Pick(S) == CHOOSE x \in S : TRUE

Init ==
  /\ queue = [attempt |-> NoSlot, resolution |-> NoSlot, tried |-> {}, owed |-> FALSE, named |-> {}]
  /\ timer = "none"
  /\ inbox = {Wanted(None)}
  /\ left \in Instances
  /\ prop = [p \in Proposals |-> [state |-> IF p \in left.line THEN "in_review" ELSE "closed", attempt |-> NoAttempt, sync |-> NoSync,
                                  force |-> NoHead, refused |-> NoRefusal,
                                  gaveUp |-> NotGivenUp, backoff |-> FALSE]]
  /\ pin = {} /\ work = {}
  /\ row = [p \in Proposals |-> [head |-> 1, epoch |-> 1, approved |-> p \in left.approved,
                                 checks |-> "passing", clean |-> p \in left.clean, main |-> 0,
                                 spent |-> 0, moving |-> FALSE, merged |-> FALSE]]
  /\ gh = [p \in Proposals |-> [head |-> 1, by |-> "author", merged |-> NoHead]]
  /\ main = 0 /\ told = {}
-----------------------------------------------------------------------------
(* The line: what the queue reads of each proposal (facts.ts)              *)

Forced(p) == prop[p].force # NoHead
Busy(p) == prop[p].attempt # NoAttempt \/ prop[p].sync # NoSync
InLine(p) == prop[p].state = "in_review" /\ ~row[p].merged
Line == {p \in Proposals : InLine(p)}
\* forceWaivesChecks
Waived(p) == Forced(p) /\ prop[p].force = row[p].head
\* GitHub's refusal stands against this head and this main.
Stands(p) == prop[p].refused.kind # "none" /\ prop[p].refused.head = row[p].head
                /\ prop[p].refused.main = row[p].main
GithubConflict(p) == Stands(p) /\ prop[p].refused.kind = "conflict"
Conflicts(p) == ~row[p].clean \/ GithubConflict(p)
Blocked(p) == row[p].checks = "failing" /\ ~Waived(p)
\* A run of this head; not one that has yet to start, or is deferred.
InFlight(p) == row[p].checks = "pending" /\ ~Waived(p)
GivenUp(p) == prop[p].gaveUp.head = row[p].head /\ prop[p].gaveUp.main = row[p].main

Direct == {p \in Line : (row[p].approved \/ Forced(p)) /\ ~Conflicts(p) /\ ~Blocked(p)}
\* Rule C.
AdmittedApproved(p) == (row[p].approved \/ Forced(p)) /\ row[p].checks # "failing"
Admitted(p) ==
  /\ Conflicts(p) /\ ~GivenUp(p) /\ ~prop[p].backoff
  /\ row[p].checks # "failing"
  /\ AdmittedApproved(p) \/ row[p].spent # row[p].epoch

\* Forced first, then the settled; what else orders them (votes, the wait)
\* is left open.
Rank(p) == (IF Forced(p) THEN 0 ELSE 2) + (IF row[p].checks = "passing" THEN 0 ELSE 1)
LaneRank(p) == (IF AdmittedApproved(p) THEN 0 ELSE 4) + Rank(p)
Cheapest(S) == {p \in S : \A q \in S : Rank(p) <= Rank(q)}
CheapestConflict(S) == {p \in S : \A q \in S : LaneRank(p) <= LaneRank(q)}
Key(lane, p) == <<lane, p, row[p].head, row[p].epoch>>

\* Candidates of the direct lane this pass may still ask for, or waits for.
Untried(d) == {p \in Direct : ~Busy(p) /\ Key("merge", p) \notin d.tried
                                /\ (Stands(p) => p \in d.named)}
DirectWaiting(d) == d.attempt # NoSlot \/ (\E p \in Direct : Busy(p)) \/ Untried(d) # {}
Resolvable(d) == {p \in Line : Admitted(p) /\ ~Busy(p) /\ Key("sync", p) \notin d.tried}

NoAsk == [lane |-> "none", p |-> None]
Asks(d) ==
  LET attempts == {p \in Untried(d) : ~InFlight(p)} IN
  IF d.attempt = NoSlot /\ attempts # {}
  THEN [lane : {"merge"}, p : Cheapest(attempts)]
  ELSE IF d.resolution = NoSlot /\ ~DirectWaiting(d) /\ Resolvable(d) # {}
  THEN [lane : {"sync"}, p : CheapestConflict(Resolvable(d))]
  ELSE {NoAsk}

Working(d) == d.attempt # NoSlot \/ d.resolution # NoSlot
\* Defect: what was tried stays tried.
PassOverTried(d) == [d EXCEPT !.named = {}]
PassOver(d) == [d EXCEPT !.tried = {}, !.named = {}]
NewPass(d) == [PassOver(d) EXCEPT !.owed = FALSE]
\* A pass that is over, with an ask that came during it: one more.
Pass(d) == IF Asks(d) = {NoAsk} /\ ~Working(d) /\ d.owed THEN NewPass(d) ELSE d

\* The next thing the line can do: at most one ask.
Ask(d, ask, n) ==
  IF ask.lane = "merge"
  THEN /\ queue' = [d EXCEPT !.attempt = [n |-> n, p |-> ask.p], !.tried = @ \cup {Key("merge", ask.p)}]
       /\ pin' = pin \cup {MergeRequested(ask.p, n, Forced(ask.p))}
  ELSE /\ queue' = [d EXCEPT !.resolution = [n |-> n, p |-> ask.p], !.tried = @ \cup {Key("sync", ask.p)}]
       /\ pin' = pin \cup {SyncRequested(ask.p, n, AdmittedApproved(ask.p), GithubConflict(ask.p))}

LookAtLine(d) ==
  \E ask \in Asks(Pass(d)) :
    IF ask = NoAsk
    THEN /\ pin' = pin
         /\ IF Working(d)
            THEN queue' = Pass(d) /\ timer' = timer
            ELSE /\ queue' = PassOver(Pass(d))
                 /\ timer' = IF Line # {} THEN "Sweep" ELSE "none"
    ELSE /\ FreshAsks # {}
         /\ Ask(Pass(d), ask, Pick(FreshAsks))
         /\ timer' = "Check"
-----------------------------------------------------------------------------
(* The queue's transitions                                                 *)

Does(kind) == left.moves > 0 /\ kind \in left.kinds /\ left' = [left EXCEPT !.moves = @ - 1]
Moved(kind) == Does(kind) /\ UNCHANGED <<gh, main, told>>
Fails(kind) == left.faults > 0 /\ kind \in left.kinds /\ left' = [left EXCEPT !.faults = @ - 1]

Unread(m) == inbox' = inbox \ {m}

\* Defect: an ask for nobody in particular is taken for a name.
NamedAnyone(p) == queue.named \cup {p}
Named(p) == queue.named \cup ({p} \ {None})

\* An ask: a pass under way owes one more, and forgets that it tried the one named.
QWanted(p) ==
  /\ Wanted(p) \in inbox /\ Unread(Wanted(p))
  /\ LookAtLine(IF Working(queue)
                THEN [queue EXCEPT !.tried = {k \in @ : k[1] = "sync" \/ k[2] # p},
                                   !.owed = TRUE, !.named = Named(p)]
                ELSE [queue EXCEPT !.tried = {}, !.owed = FALSE, !.named = Named(p)])
  /\ UNCHANGED <<prop, work, row, world>>

\* An answer frees its own slot; any other is refused as stale.
AnswersOf(p) == {m \in inbox : m.type \in {"AttemptEnded", "ResolutionEnded"} /\ m.p = p}
QAnswered(m) ==
  LET slot == [n |-> m.n, p |-> m.p] IN
  /\ m \in inbox /\ m.type \in {"AttemptEnded", "ResolutionEnded"} /\ Unread(m)
  /\ CASE m.type = "AttemptEnded" /\ queue.attempt = slot ->
            LookAtLine([queue EXCEPT !.attempt = NoSlot])
       [] m.type = "ResolutionEnded" /\ queue.resolution = slot ->
            LookAtLine([queue EXCEPT !.resolution = NoSlot])
       [] OTHER -> UNCHANGED <<queueVars, pin>>
  /\ UNCHANGED <<prop, work, row, world>>

\* Half an hour since the slot was given: the answer is late, or lost.
CheckDue ==
  /\ timer = "Check" /\ left.late > 0 /\ left' = [left EXCEPT !.late = @ - 1]
  /\ inbox' = inbox \cup {Fired("Check")} /\ timer' = "none"
  /\ UNCHANGED <<queue, prop, pin, work, row, gh, main, told>>

HoldsAttempt(s) ==
  /\ prop[s.p].state \in {"in_review", "merging", "underway"}
  /\ prop[s.p].attempt.queueN = s.n /\ prop[s.p].attempt.stage \in {"gate", "merge"}
HoldsSync(s) ==
  prop[s.p].state \in {"in_review", "merging", "underway"} /\ prop[s.p].sync.queueN = s.n

\* The guard against an answer that never came.
QCheck ==
  LET kept(s, holds(_)) == IF s # NoSlot /\ holds(s) THEN s ELSE NoSlot
      d == [queue EXCEPT !.attempt = kept(@, HoldsAttempt), !.resolution = kept(@, HoldsSync)]
  IN
  /\ Fired("Check") \in inbox
  /\ IF ~Working(queue)
     THEN Unread(Fired("Check")) /\ UNCHANGED queueVars
     ELSE IF Working(d)
     THEN Unread(Fired("Check")) /\ queue' = d /\ timer' = "Check"
     ELSE /\ inbox' = (inbox \ {Fired("Check")}) \cup {Wanted(None)}
          /\ queue' = NewPass(d) /\ timer' = "none"
  /\ UNCHANGED <<prop, pin, work, row, world>>

\* Four minutes idle with a line: it is looked at again.
QSweep ==
  /\ timer = "Sweep" /\ LookAtLine(NewPass(queue))
  /\ UNCHANGED <<inbox, prop, work, row, world>>
-----------------------------------------------------------------------------
(* A proposal's transitions                                                *)

\* p becomes s and its row r; m is read (an event, or a work's report decided
\* as it comes); works start; the queue hears msgs.
Step(p, m, s, r, started, msgs) ==
  /\ prop' = [prop EXCEPT ![p] = s]
  /\ row' = [row EXCEPT ![p] = r]
  /\ pin' = pin \ {m}
  /\ work' = (work \ {m}) \cup started
  /\ inbox' = inbox \cup msgs
  /\ UNCHANGED queueVars

NoEvent == [type |-> "none"]

\* Defects: a merge under way is forgotten, or a sync.
AttemptToldAtGate(p) ==
  IF prop[p].attempt.stage = "gate" THEN {Ended(p, prop[p].attempt.queueN)} ELSE {}
SyncToldNever(p) == {}
\* What the proposal still owes the queue: its gate or merge, its sync.
AttemptTold(p) ==
  IF prop[p].attempt.stage \in {"gate", "merge"} THEN {Ended(p, prop[p].attempt.queueN)} ELSE {}
SyncTold(p) == IF prop[p].sync.queueN # 0 THEN {Resolved(p, prop[p].sync.queueN)} ELSE {}
SlotsTold(p) == AttemptTold(p) \cup SyncTold(p)

AskRefused(p) ==
  row[p].merged \/ prop[p].state # "in_review" \/ Busy(p) \/ row[p].moving

MergeAsked(p) == \E m \in pin :
  /\ m.type = "MergeRequested" /\ m.p = p
  /\ IF AskRefused(p)
     THEN Step(p, m, prop[p], row[p], {}, {Ended(p, m.n)})
     ELSE /\ FreshWorks(p) # {}
          /\ LET n == Pick(FreshWorks(p))
                 a == [stage |-> "gate", n |-> n, queueN |-> m.n, force |-> m.force /\ Forced(p),
                       head |-> row[p].head, epoch |-> row[p].epoch, retried |-> FALSE]
             IN Step(p, m, [prop[p] EXCEPT !.attempt = a], row[p], {Work(p, "gate", n, NoHead)}, {})
  /\ UNCHANGED world

\* What the gate measures, and what the claim reads again under the lock.
ClaimOpen(p, force) ==
  /\ row[p].approved \/ force
  /\ row[p].checks = "passing" \/ (force /\ Waived(p))

\* Defect: nothing is read again.
ClaimedOnReport(p, m) == m.outcome = "ready" /\ ~row[p].merged
Claimed(p, m) ==
  LET a == prop[p].attempt IN
  /\ m.outcome = "ready" /\ ~row[p].merged
  /\ {m.head, a.head} = {row[p].head} /\ {m.epoch, a.epoch} = {row[p].epoch}
  /\ ClaimOpen(p, a.force)

Gated(p) == \E m \in pin :
  LET a == prop[p].attempt IN
  /\ m.type = "WorkDone" /\ m.kind = "gate" /\ m.p = p
  /\ IF ~(a.stage = "gate" /\ a.n = m.n /\ prop[p].state = "in_review")
     THEN Step(p, m, prop[p], row[p], {}, {})
     ELSE IF Claimed(p, m)
     THEN Step(p, m, [prop[p] EXCEPT !.state = "merging", !.attempt.stage = "merge"], row[p],
               {Work(p, "attempt", a.n, row[p].head)}, {})
     ELSE Step(p, m, [prop[p] EXCEPT !.attempt = NoAttempt], row[p], {}, {Ended(p, a.queueN)})
  /\ UNCHANGED world

\* Defect: the attempt is left.
BackStillAttempted(p, m, refusal) ==
  Step(p, m, [prop[p] EXCEPT !.state = "in_review", !.refused = refusal],
       row[p], {}, {Ended(p, prop[p].attempt.queueN)})
\* Back to review, its votes kept.
BackToReview(p, m, refusal) ==
  Step(p, m, [prop[p] EXCEPT !.state = "in_review", !.attempt = NoAttempt, !.refused = refusal],
       row[p], {}, {Ended(p, prop[p].attempt.queueN)})

\* GitHub merged it: merge-followups records it, and moves it into merged.
MergedOnGithub(p, m) ==
  /\ Step(p, m, [prop[p] EXCEPT !.state = "merging",
                                !.attempt = [@ EXCEPT !.stage = "merged"]], row[p], {}, AttemptTold(p))
  /\ told' = told \cup {p}

\* Closed on GitHub for good: off the vote, its votes void.
Abandoned(p, m) ==
  Step(p, m, [prop[p] EXCEPT !.state = "underway", !.force = NoHead, !.attempt = NoAttempt, !.sync = NoSync],
       [row[p] EXCEPT !.epoch = @ + 1, !.approved = FALSE], {}, SlotsTold(p))

\* Main moved while GitHub merged: asked once more, still claimed.
AskedAgain(p, m) ==
  /\ FreshWorks(p) # {}
  /\ LET n == Pick(FreshWorks(p)) IN
     Step(p, m, [prop[p] EXCEPT !.attempt.n = n, !.attempt.retried = TRUE], row[p],
          {Work(p, "attempt", n, row[p].head)}, {})

Attempted(p) == \E m \in pin :
  LET a == prop[p].attempt
      refusal(kind) == [head |-> row[p].head, main |-> row[p].main, kind |-> kind]
  IN
  /\ m.type = "WorkDone" /\ m.kind = "attempt" /\ m.p = p
  /\ UNCHANGED <<gh, main, left>>
  /\ m.outcome # "merged" => told' = told
  /\ IF ~(a.stage = "merge" /\ a.n = m.n /\ prop[p].state = "merging")
     THEN Step(p, m, prop[p], row[p], {}, {}) /\ told' = told
     ELSE CASE m.outcome = "merged" -> MergedOnGithub(p, m)
            [] m.outcome = "exhausted" ->
                 Step(p, m, [prop[p] EXCEPT !.state = "unconfirmed", !.attempt.stage = "unconfirmed"],
                      row[p], {}, AttemptTold(p))
            [] m.outcome = "back" -> BackToReview(p, m, prop[p].refused)
            [] m.outcome = "closed" -> Abandoned(p, m)
            [] m.outcome = "base_moved" /\ ~a.retried -> AskedAgain(p, m)
            [] m.outcome = "rate_limited" \/ (m.outcome = "base_moved" /\ a.retried) ->
                 BackToReview(p, m, NoRefusal)
            [] OTHER -> BackToReview(p, m, refusal(m.outcome))

\* Defect: only an answer that it merged is one.
ObservedMerged(p) ==
  /\ prop[p].state = "unconfirmed" /\ gh[p].merged # NoHead
  /\ MergedOnGithub(p, NoEvent)
  /\ UNCHANGED <<gh, main, left>>
\* The clock, while GitHub's answer is missing: it is read until it says.
Observed(p) ==
  /\ prop[p].state = "unconfirmed"
  /\ IF gh[p].merged # NoHead
     THEN MergedOnGithub(p, NoEvent)
     ELSE BackToReview(p, NoEvent, prop[p].refused) /\ told' = told
  /\ UNCHANGED <<gh, main, left>>

\* Defect: told again only what GitHub's answer was lost of.
ResendObserved(p) ==
  /\ prop[p].state = "unconfirmed" /\ gh[p].merged # NoHead /\ p \notin told
  /\ told' = told \cup {p}
  /\ UNCHANGED <<queueVars, inbox, prop, pin, work, row, gh, main, left>>
\* Told again until the row reads merged.
Resend(p) ==
  /\ prop[p].state = "merging" /\ prop[p].attempt.stage = "merged" /\ ~row[p].merged /\ p \notin told
  /\ told' = told \cup {p}
  /\ UNCHANGED <<queueVars, inbox, prop, pin, work, row, gh, main, left>>

\* merge-followups moved the row into merged: what the queue asked for ends.
MergeRecorded(p) ==
  /\ Merged(p) \in pin
  /\ Step(p, Merged(p),
          IF prop[p].state = "merged" THEN prop[p]
          ELSE [prop[p] EXCEPT !.state = "merged", !.force = NoHead, !.sync = NoSync,
                               !.attempt.stage = IF @ = "none" THEN "none" ELSE "merged"],
          row[p], {}, IF prop[p].state = "merged" THEN {} ELSE SlotsTold(p))
  /\ UNCHANGED world
-----------------------------------------------------------------------------
(* Syncs with main                                                         *)

\* Defects: a gate is not taken for a merge; the one resolution before the vote
\* is held against it after.
SyncRefusedBySync(p) ==
  row[p].merged \/ prop[p].state \notin {"underway", "in_review"} \/ prop[p].sync # NoSync
    \/ row[p].moving
LaneRefusedSpent(p, approved) ==
  prop[p].state # "in_review" \/ Busy(p) \/ row[p].merged \/ row[p].moving
    \/ GivenUp(p) \/ prop[p].backoff \/ row[p].spent = row[p].epoch
\* Refused for whoever asks, and for the conflict lane.
SyncRefused(p) ==
  row[p].merged \/ prop[p].state \notin {"underway", "in_review"} \/ Busy(p) \/ row[p].moving
LaneRefused(p, approved) ==
  SyncRefused(p) \/ prop[p].state # "in_review" \/ GivenUp(p) \/ prop[p].backoff
    \/ (~approved /\ row[p].spent = row[p].epoch)

BeginSync(p, m, queueN, r) ==
  /\ FreshWorks(p) # {}
  /\ LET n == Pick(FreshWorks(p)) IN
     Step(p, m, [prop[p] EXCEPT !.sync = [n |-> n, queueN |-> queueN, head |-> row[p].head,
                                          github |-> m.type = "SyncRequested" /\ m.github]],
          r, {Work(p, "sync", n, NoHead)}, {})

SyncAsked(p) == \E m \in pin :
  /\ m.type = "SyncRequested" /\ m.p = p
  /\ IF LaneRefused(p, m.approved)
     THEN Step(p, m, prop[p], row[p], {}, {Resolved(p, m.n)})
     ELSE BeginSync(p, m, m.n, IF m.approved THEN row[p] ELSE [row[p] EXCEPT !.spent = row[p].epoch])
  /\ UNCHANGED world

PersonSyncs(p) ==
  /\ ~SyncRefused(p) /\ Moved("sync")
  /\ BeginSync(p, NoEvent, 0, row[p])

\* What GitHub's head holds beyond the one the row names.
Weight == [author |-> 3, resolved |-> 2, mechanical |-> 1]
Pushed(p, by) ==
  /\ gh[p].head < MaxHead /\ gh[p].merged = NoHead
  /\ gh' = [gh EXCEPT ![p] = [@ EXCEPT !.head = gh[p].head + 1,
              !.by = IF gh[p].head # row[p].head /\ Weight[gh[p].by] > Weight[by] THEN gh[p].by ELSE by]]

\* The sync's turn merges main, with the model's help where it conflicts;
\* a stopped one may still be at it.
SyncPushes(p) == \E w \in work :
  /\ w.p = p /\ w.kind = "sync" /\ w.head = NoHead
  /\ Pushed(p, IF row[p].clean THEN "mechanical" ELSE "resolved")
  /\ work' = (work \ {w}) \cup {[w EXCEPT !.head = gh'[p].head]}
  /\ UNCHANGED <<queueVars, inbox, prop, pin, row, main, told, left>>

\* Its answer: it has moved the row's head itself; there was nothing to do;
\* the model could not; it failed.  A stopped one's is not heard.
Synced(p, w, outcome) ==
  LET s == prop[p].sync
      gaveUp == CASE outcome = "unresolvable" -> [head |-> s.head, main |-> main]
                  [] s.github /\ outcome = "level" -> [head |-> s.head, main |-> row[p].main]
                  [] OTHER -> prop[p].gaveUp
  IN
  /\ IF outcome = "error" THEN Fails("error") ELSE left' = left
  /\ IF s.n # w.n
     THEN Step(p, w, prop[p], row[p], {}, {})
     ELSE /\ CASE outcome = "done" -> w.head # NoHead /\ row[p].head = gh[p].head
               [] outcome = "level" -> w.head = NoHead /\ row[p].clean
               [] outcome = "unresolvable" -> w.head = NoHead /\ ~row[p].clean
               [] OTHER -> TRUE
          /\ Step(p, w, [prop[p] EXCEPT !.sync = NoSync, !.gaveUp = gaveUp, !.backoff = outcome = "error"],
                  row[p], {}, SyncTold(p))
SyncReports(p) == \E w \in work, outcome \in {"done", "level", "unresolvable", "error"} :
  /\ w.p = p /\ w.kind = "sync"
  /\ Synced(p, w, outcome)
  /\ UNCHANGED <<gh, main, told>>

Stop(p) ==
  /\ prop[p].sync # NoSync /\ ~row[p].merged /\ Moved("stop")
  /\ Step(p, NoEvent, [prop[p] EXCEPT !.sync = NoSync, !.backoff = FALSE], row[p], {}, SyncTold(p))

BackoffOver(p) ==
  /\ prop[p].backoff
  /\ prop' = [prop EXCEPT ![p].backoff = FALSE]
  /\ UNCHANGED <<queueVars, inbox, pin, work, row, world>>
RetryDue(p) ==
  /\ prop[p].refused.kind = "busy"
  /\ prop' = [prop EXCEPT ![p].refused = NoRefusal]
  /\ UNCHANGED <<queueVars, inbox, pin, work, row, world>>
-----------------------------------------------------------------------------
(* What people, GitHub and the other machines do                           *)

\* What an event of a person's or a poller's asks of the proposal's state.
Open == {"underway", "in_review", "merging", "unconfirmed"}
\* Defect: the row is not asked whether it is merged.
InState(p, states) == prop[p].state \in states
In(p, states) == prop[p].state \in states /\ ~row[p].merged
\* Defect: the force stays.
EndsForced(s, state) == [s EXCEPT !.state = state, !.attempt = NoAttempt, !.sync = NoSync]
Ends(s, state) == [s EXCEPT !.state = state, !.force = NoHead, !.attempt = NoAttempt, !.sync = NoSync]
VotesVoid(r) == [r EXCEPT !.epoch = @ + 1, !.approved = FALSE]
AsksFor(p) == {Wanted(p)}

RowMoves(p, r, msgs) ==
  /\ row' = [row EXCEPT ![p] = r] /\ inbox' = inbox \cup msgs
  /\ UNCHANGED <<queueVars, prop, pin, work>>

Proposed(p) ==
  /\ In(p, {"underway"}) /\ ~row[p].moving /\ prop[p].sync = NoSync /\ Moved("propose")
  /\ Step(p, NoEvent, [prop[p] EXCEPT !.state = "in_review"], row[p], {}, AsksFor(None))

Unpromote(p) ==
  /\ In(p, {"in_review"}) /\ ~Busy(p) /\ ~row[p].moving /\ Moved("unpromote")
  /\ Step(p, NoEvent, Ends(prop[p], "underway"), VotesVoid(row[p]), {}, {})

Close(p) ==
  /\ In(p, {"underway", "in_review"}) /\ Moved("close")
  /\ Step(p, NoEvent, Ends(prop[p], "closed"), VotesVoid(row[p]), {}, SlotsTold(p))

ForceMerge(p) ==
  /\ In(p, {"in_review"}) /\ Moved("force")
  /\ Step(p, NoEvent, [prop[p] EXCEPT !.force = row[p].head], row[p], {}, AsksFor(p))

\* The poller's look at a pull request merged by hand.
PrLooked(p) ==
  /\ gh[p].merged # NoHead
  /\ \/ In(p, {"in_review"}) /\ MergedOnGithub(p, NoEvent)
     \/ /\ In(p, {"underway"}) /\ told' = told
        /\ Step(p, NoEvent, Ends(prop[p], "closed"), VotesVoid(row[p]), {}, SlotsTold(p))
  /\ UNCHANGED <<gh, main, left>>

\* The hourly check of a proposal whose votes are in asks the queue; here where
\* nobody else will (at another time it asks what a vote does).
ReviewCheck(p) ==
  /\ timer = "none" /\ ~Working(queue) /\ inbox = {}
  /\ In(p, {"in_review"}) /\ row[p].approved /\ ~Busy(p) /\ ~row[p].moving
  /\ RowMoves(p, row[p], AsksFor(p)) /\ UNCHANGED world

\* The row follows the branch: new code ends the votes and a force; a merge of
\* main keeps them, and its checks and a force over them where git alone made it.
ReviewHeadMoved(p) ==
  LET to == gh[p].head  by == gh[p].by  from == row[p].head  s == prop[p]
      force == CASE by = "author" -> NoHead
                 [] by = "mechanical" /\ s.force = from -> to
                 [] OTHER -> s.force
  IN
  /\ to # from /\ In(p, Open)
  /\ \E clean \in (IF by = "author" THEN BOOLEAN ELSE {TRUE}) :
       Step(p, NoEvent, [s EXCEPT !.force = force],
            [(IF by = "author" THEN VotesVoid(row[p]) ELSE row[p])
               EXCEPT !.head = to, !.clean = clean, !.main = main,
                      !.checks = IF by = "mechanical" /\ @ = "passing" THEN @ ELSE "unstarted"],
            {}, {})
  /\ UNCHANGED world

Vote(p) ==
  /\ In(p, {"in_review", "merging", "unconfirmed"}) /\ Moved("vote")
  /\ IF row[p].approved
     THEN \E r \in {[row[p] EXCEPT !.approved = FALSE], VotesVoid(row[p])} : RowMoves(p, r, {})
     ELSE RowMoves(p, [row[p] EXCEPT !.approved = TRUE], AsksFor(p))

ChecksStart(p) ==
  /\ row[p].checks = "unstarted"
  /\ RowMoves(p, [row[p] EXCEPT !.checks = "pending"], {}) /\ UNCHANGED world
Verdict(p) == \E v \in {"passing", "failing"} :
  /\ row[p].checks = "pending"
  /\ RowMoves(p, [row[p] EXCEPT !.checks = v], IF v = "passing" THEN AsksFor(p) ELSE {})
  /\ UNCHANGED world

TurnStarts(p) ==
  /\ ~row[p].moving /\ In(p, Open) /\ Moved("turn")
  /\ RowMoves(p, [row[p] EXCEPT !.moving = TRUE], {})
\* The last operation that kept a proposal in review moving asks the queue.
TurnEnds(p) == \E msgs \in {{}, AsksFor(p)} :
  /\ row[p].moving /\ (msgs # {} => In(p, {"in_review"}))
  /\ RowMoves(p, [row[p] EXCEPT !.moving = FALSE], msgs)
  /\ UNCHANGED world

MirrorMeasures(p) ==
  /\ row[p].main < main /\ In(p, {"underway", "in_review"})
  /\ \E clean \in BOOLEAN : RowMoves(p, [row[p] EXCEPT !.main = main, !.clean = clean], {})
  /\ UNCHANGED world

AuthorPushes(p) ==
  /\ In(p, Open) /\ Pushed(p, "author")
  /\ Does("push")
  /\ UNCHANGED <<queueVars, inbox, prop, pin, work, row, main, told>>

Merges(p) ==
  /\ gh[p].merged = NoHead
  /\ gh' = [gh EXCEPT ![p].merged = gh[p].head] /\ main' = main + 1
  /\ UNCHANGED <<queueVars, inbox, prop, pin, work, row, told>>
MergedByHand(p) == In(p, Open) /\ Merges(p) /\ Does("hand")
\* The attempt's ask, at the head it names; its answer is another step.
GithubMerges(p) ==
  /\ \E w \in work : w.p = p /\ w.kind = "attempt" /\ w.head = gh[p].head
  /\ Merges(p) /\ left' = left

Answers(w, outcome) ==
  /\ work' = work \ {w}
  /\ pin' = pin \cup {Done(w, outcome, row[w.p].head, row[w.p].epoch)}
  /\ UNCHANGED <<queueVars, inbox, prop, row, gh, main, told>>

\* The gate's measurement, or a failure to make one.
GateReports(p) == \E w \in work, ready \in BOOLEAN :
  /\ w.p = p /\ w.kind = "gate"
  /\ LET open == prop[p].state = "in_review" /\ row[p].clean /\ ClaimOpen(p, prop[p].attempt.force) IN
     IF ready \/ ~open THEN (ready => open) /\ left' = left ELSE Fails("gate")
  /\ Answers(w, IF ready THEN "ready" ELSE "blocked")

AttemptReports(p) ==
  \E w \in work, outcome \in {"merged", "back", "exhausted", "closed", "rate_limited", "base_moved",
                              "conflict", "held", "busy"} :
    /\ w.p = p /\ w.kind = "attempt"
    /\ outcome = "merged" => gh[p].merged # NoHead
    /\ outcome = "closed" => gh[p].merged = NoHead
    /\ outcome \in {"base_moved", "conflict", "held", "busy"} => w.head = gh[p].head
    /\ IF outcome = "merged" \/ (outcome = "back" /\ w.head # gh[p].head)
       THEN left' = left ELSE Fails(outcome)
    /\ Answers(w, outcome)

\* merge-followups: the row is merged and the proposal hears.
Recorded(p, asks) ==
  /\ row' = [row EXCEPT ![p].merged = TRUE]
  /\ pin' = pin \cup {Merged(p)}
  /\ inbox' = inbox \cup asks
  /\ UNCHANGED <<queueVars, prop, work, gh, main>>
Followups(p) == p \in told /\ told' = told \ {p} /\ Recorded(p, AsksFor(None)) /\ left' = left
\* An older release's pod refuses the message.
NotHeard(p) ==
  /\ p \in told /\ told' = told \ {p} /\ Fails("older")
  /\ UNCHANGED <<queueVars, inbox, prop, pin, work, row, gh, main>>
\* Carried into main by another's merge.
Carried(p) ==
  /\ In(p, {"in_review"}) /\ \E q \in Proposals \ {p} : row[q].merged
  /\ Does("carried") /\ told' = told
  /\ Recorded(p, {})
-----------------------------------------------------------------------------
QueueDecides == QCheck \/ \E p \in Proposals \cup {None} :
                            QWanted(p) \/ \E m \in AnswersOf(p) : QAnswered(m)
Decides(p) == MergeAsked(p) \/ Gated(p) \/ Attempted(p) \/ MergeRecorded(p) \/ SyncAsked(p)
                \/ Resend(p) \/ Followups(p)
WorkSteps(p) == GateReports(p) \/ GithubMerges(p) \/ AttemptReports(p) \/ SyncReports(p) \/ Observed(p)
Looks(p) == BackoffOver(p) \/ RetryDue(p) \/ PrLooked(p) \/ ReviewCheck(p) \/ ReviewHeadMoved(p)
              \/ ChecksStart(p) \/ Verdict(p) \/ TurnEnds(p) \/ MirrorMeasures(p)
Person(p) == PersonSyncs(p) \/ Stop(p) \/ Proposed(p) \/ Unpromote(p) \/ Close(p) \/ ForceMerge(p)
               \/ Vote(p) \/ TurnStarts(p) \/ AuthorPushes(p) \/ MergedByHand(p) \/ Carried(p)

Next ==
  \/ QueueDecides \/ QSweep \/ CheckDue
  \/ \E p \in Proposals : Decides(p) \/ WorkSteps(p) \/ SyncPushes(p) \/ NotHeard(p) \/ Looks(p) \/ Person(p)

Spec == Init /\ [][Next]_vars

\* The pipeline decides what it is sent, a work that runs is tried until it
\* reports, clocks fire; what people do, and whether a sync pushes, is open.
Fairness ==
  /\ WF_vars(QueueDecides) /\ WF_vars(QSweep)
  /\ \A p \in Proposals : WF_vars(Decides(p)) /\ WF_vars(WorkSteps(p)) /\ WF_vars(Looks(p))
FairSpec == Spec /\ Fairness
-----------------------------------------------------------------------------
MergeStages == {"gate", "merge", "unconfirmed"}
AnyHead == Heads \cup {NoHead}
AnyNumber == Numbers \cup {0}
QueueSlots == [n : AnyNumber, p : Proposals \cup {None}]
Keys == {"merge", "sync"} \X Proposals \X Heads \X Nat
Queues == [attempt : QueueSlots, resolution : QueueSlots, tried : SUBSET Keys, owed : BOOLEAN,
           named : SUBSET Proposals]
AttemptsOf == [stage : MergeStages \cup {"none", "merged"}, n : AnyNumber, queueN : AnyNumber,
               force : BOOLEAN, head : AnyHead, epoch : Nat, retried : BOOLEAN]
SyncsOf == [n : AnyNumber, queueN : AnyNumber, github : BOOLEAN, head : AnyHead]
Refusals == [head : AnyHead, main : Nat, kind : {"none", "conflict", "held", "busy"}]
Props == [state : Open \cup {"closed", "merged"}, attempt : AttemptsOf, sync : SyncsOf,
          force : AnyHead, refused : Refusals, gaveUp : [head : AnyHead, main : Nat],
          backoff : BOOLEAN]
Rows == [head : Heads, epoch : Nat, approved : BOOLEAN, checks : {"passing", "failing", "pending", "unstarted"},
         clean : BOOLEAN, main : Nat, spent : Nat, moving : BOOLEAN, merged : BOOLEAN]
Branches == [head : Heads, by : DOMAIN Weight, merged : AnyHead]

\* Types of the queue's and the proposals' state.
MergeTypeOK ==
  /\ queue \in Queues /\ timer \in {"none", "Check", "Sweep"}
  /\ prop \in [Proposals -> Props] /\ row \in [Proposals -> Rows] /\ gh \in [Proposals -> Branches]
  /\ told \subseteq Proposals /\ main \in Nat

\* Where the ask n is: unread by the proposal, held by it, or answered and the
\* answer unread.
AskPlaces(n) ==
  {<<"asked", m>> : m \in {x \in pin : x.type \in {"MergeRequested", "SyncRequested"} /\ x.n = n}}
  \cup {<<"attempt", p>> : p \in {q \in Proposals : prop[q].attempt.queueN = n
                                                      /\ prop[q].attempt.stage \in {"gate", "merge"}}}
  \cup {<<"sync", p>> : p \in {q \in Proposals : prop[q].sync.queueN = n}}
  \cup {<<"told", m>> : m \in {x \in inbox : x.type \in {"AttemptEnded", "ResolutionEnded"} /\ x.n = n}}

\* A slot the queue waits on is never forgotten: whatever happens to the
\* proposal, the ask is still to be read, is held, or its answer is on its way.
NoSlotLeaks ==
  \A s \in {queue.attempt, queue.resolution} : s # NoSlot => AskPlaces(s.n) # {}

\* An ask is answered once: no path through the machine answers and keeps it,
\* or answers twice.
OneAnswer == \A n \in Numbers : Cardinality(AskPlaces(n)) <= 1

\* A proposal is never merged and synced at once (proposal/machine.ts:22).
NeverMergeAndSync ==
  \A p \in Proposals : prop[p].attempt.stage \in MergeStages => prop[p].sync = NoSync

\* A force never outlives the review it was given in, whatever ends it.
ForceEnds == \A p \in Proposals : Forced(p) => prop[p].state \in {"in_review", "merging", "unconfirmed"}

\* A proposal is claimed for the head and the votes its gate measured, with the
\* checks that head passed or a force still standing on it, and never once
\* another's merge has carried it.
ClaimFresh ==
  [][\A p \in Proposals :
       (prop[p].attempt.stage = "gate" /\ prop'[p].attempt.stage = "merge") =>
         /\ prop[p].attempt.head = row[p].head /\ prop[p].attempt.epoch = row[p].epoch
         /\ row[p].approved \/ (prop[p].attempt.force /\ Forced(p))
         /\ row[p].checks = "passing" \/ prop[p].force = row[p].head
         /\ ~row[p].merged]_vars

\* A row merge-followups has merged is never taken anywhere else.
MergedStays ==
  [][\A p \in Proposals : row[p].merged => prop'[p].state \in {prop[p].state, "merged"}]_vars

\* While nothing is under way and the line is not empty, the queue looks at it
\* again (merge-queue/machine.ts:39).
SweepArmed == (~Working(queue) /\ Line # {} /\ inbox = {}) => timer = "Sweep"

\* A pass ends: every slot comes back, and what it tried is not tried for ever.
PassesEnd == Working(queue) ~> ~Working(queue)

\* A merge under way, GitHub's answer lost included, is settled.
MergesSettle ==
  \A p \in Proposals :
    prop[p].state \in {"merging", "unconfirmed"} ~> prop[p].state \notin {"merging", "unconfirmed"}

\* What GitHub merged while it was open is recorded as merged, or closes it.
MergedIsRecorded ==
  \A p \in Proposals :
    (gh[p].merged # NoHead /\ In(p, Open)) ~> (row[p].merged \/ prop[p].state = "closed")

\* A proposal that could be merged now does not wait for ever: not on an ask
\* that was lost, nor behind the conflict lane.
Ready(p) ==
  /\ InLine(p) /\ row[p].approved /\ row[p].checks = "passing" /\ ~Conflicts(p)
  /\ ~Stands(p) /\ ~row[p].moving
ReadyIsTaken == \A p \in Proposals : Ready(p) ~> ~Ready(p)

\* An approved or forced proposal in conflict gets its resolution.
Stuck(p) == InLine(p) /\ AdmittedApproved(p) /\ Admitted(p) /\ ~row[p].moving
ConflictIsTaken == \A p \in Proposals : Stuck(p) ~> ~Stuck(p) \/ prop[p].sync # NoSync

\* GitHub is asked to merge it, at exactly the head the claim was for
\* (proposal/services.ts:338).
AskedIsClaimed ==
  \A w \in work : (w.kind = "attempt" /\ prop[w.p].attempt.n = w.n) => w.head = prop[w.p].attempt.head
=============================================================================
