----------------------------- MODULE Governance -----------------------------
(* One governance proposal (src/workflow/governance-proposal/), from filing  *)
(* to its outcome and its follow-ups: people vote, the electorate and the    *)
(* clock move without telling anybody, an admin forces, the target of a      *)
(* close proposal is looked at on GitHub before it is closed, and what an    *)
(* outcome asks of GitHub and of app-delivery (src/workflow/app-delivery/)   *)
(* is recorded, retried and answered.                                        *)
(*                                                                           *)
(* One action is one transition, or one step of a work handler, of GitHub or *)
(* of app-delivery; an answer is handled in a later step than the one that   *)
(* gives it, so anything may be decided in between.                          *)
EXTENDS MergeGate, FiniteSets, Sequences

CONSTANTS
  Voters, Author, Admins,
  Electorates,  \* how many may be active, and whose votes may count
  Members,      \* the size of the community
  Kinds,        \* the kinds of proposal looked at
  Regimes,      \* approvalsRequired: 0 is the default regime
  Ages,         \* bound: the ages, in days, at which the proposal is looked at
  Tries,        \* the attempts of a work item
  MaxRetries    \* bound: follow-ups retried by an admin

NoOne == "no_one"
Group == "group"
Nobody == "nobody"

\* Under 'invited' the active are the roster, and only its votes count; under
\* 'anyone' they are those active lately, and everybody's votes count.
ASSUME PeopleAssumption ==
  /\ IsFiniteSet(Voters) /\ Voters \cap {NoOne, Group, Nobody} = {} /\ Author \in Voters /\ Admins \subseteq Voters
  /\ Electorates \subseteq [active : Nat, counted : SUBSET Voters] /\ Electorates # {}
ASSUME BoundsAssumption ==
  /\ Ages \subseteq Nat /\ Ages # {} /\ IsFiniteSet(Ages)
  /\ Members \in Nat /\ Regimes \subseteq Nat
  /\ Tries \in Nat \ {0} /\ MaxRetries \in Nat
ASSUME KindsAssumption ==
  Kinds \subseteq {"close_issue", "reopen_issue", "secret_change", "rename", "thread_move"}

VARIABLES
  p,         \* the instance: its state, data and follow-ups
  row,       \* its row of issues: kind, status, and whether it can be applied
  vote,      \* issue_votes
  app,       \* the app's settings: regime, lock
  electors,  \* how many are active and whose votes count, now
  age,       \* days since it was filed
  work,      \* its work items, by key
  target,    \* the issue on GitHub it closes or reopens; whether a merge that
             \* closed it has told the proposal, in a message nobody has read
  comments,  \* the comments GitHub shows from this proposal
  delivery,  \* app-delivery: its requests and the deploy under way
  mail,      \* app-delivery's answers nobody has read
  secret     \* whether production runs the applied secret

vars == <<p, row, vote, app, electors, age, work, target, comments, delivery, mail, secret>>
people == <<vote, app, electors, age>>
github == <<target, comments>>
deploys == <<delivery, secret>>

None == <<"none", 0>>
Closed == {"applied", "refused", "withdrawn", "superseded"}
Open == p.state = "open"
Sides == {"none", "up", "down"}

Key(name, k) == <<name, k>>
\* One key and what it names; the keys of f, and beside them those of g.
At(k, x) == [j \in {k} |-> x]
Beside(f, g) == [k \in DOMAIN f \cup DOMAIN g |-> IF k \in DOMAIN f THEN f[k] ELSE g[k]]
\* The machine names a key with the version its transition writes: all that
\* matters is that no item or follow-up has it.
Fresh(name) ==
  LET taken == DOMAIN work \cup DOMAIN p.followups
  IN Key(name, CHOOSE k \in 1..(Cardinality(taken) + 1) : Key(name, k) \notin taken)

----------------------------------------------------------------------------
(* The gate, as facts.ts reads it and gate.ts folds a vote into it. *)

Recount(v) ==
  [active |-> AtLeast(electors.active, 1),
   yes |-> Cardinality({x \in electors.counted : v[x] = "up"}),
   no |-> Cardinality({x \in electors.counted : v[x] = "down"}),
   otherYes |-> Cardinality({x \in electors.counted \ {Author} : v[x] = "up"}),
   adminUp |-> {x \in Admins : v[x] = "up"}]

\* The counts once x's vote `was` is replaced by `now`.
StepNotTakenBack(was, now, side) == IF now = side THEN 1 ELSE 0   \* defect
Step(was, now, side) == (IF now = side THEN 1 ELSE 0) - (IF was = side THEN 1 ELSE 0)
WithVote(g, x, was, now) ==
  LET admins == (g.adminUp \ {x}) \cup (IF x \in Admins /\ now = "up" THEN {x} ELSE {})
      h == [g EXCEPT !.adminUp = admins]
  IN IF x \notin electors.counted THEN h
     ELSE [h EXCEPT !.yes = @ + Step(was, now, "up"),
                    !.no = @ + Step(was, now, "down"),
                    !.otherYes = @ + (IF x # Author THEN Step(was, now, "up") ELSE 0)]

VotesIn(g) ==
  IF app.approvals > 0 THEN AtLeastMet(app.approvals, g.yes)
  ELSE ThresholdMet(g.active, g.yes, g.no)
Approved(g) ==
  IF row.kind = "secret_change" THEN VotesIn(g) /\ FloorMet(Members, g.otherYes)
  ELSE IF app.approvals > 0 THEN VotesIn(g)
  ELSE DefaultMergeable(g.active, g.yes, g.no, age)
Mergeable(g) == Approved(g) /\ (app.locked => g.adminUp # {})

----------------------------------------------------------------------------
(* Outcomes: what a transition makes of the proposal. An outcome is a        *)
(* record: the instance, the work asked for and the redeploys asked for.     *)

Outcome(q, items, asks) == [p |-> q, items |-> items, asks |-> asks]
Item(job, at) == [job |-> job, pc |-> "waiting", at |-> at, tries |-> Tries, says |-> "none"]
FollowedUp(job) == [job |-> job, status |-> "pending"]

\* close: every deadline goes, and what the outcome still has to do is kept.
ClosedAs(name, by, jobs) ==
  LET asked == {k \in DOMAIN jobs : jobs[k] = "delivery"}
      ran == DOMAIN jobs \ asked
  IN Outcome([p EXCEPT !.state = name, !.by = by, !.timer = FALSE, !.check = None, !.checked = FALSE, !.after = NoOne,
                       !.changes = @ + (IF name = "applied" THEN 1 ELSE 0),
                       !.followups = [k \in DOMAIN jobs |-> FollowedUp(jobs[k])]],
             [k \in ran |-> Item(jobs[k], "none")], Cardinality(asked))
Nothing == <<>>

Jobs(kind) ==
  CASE kind = "close_issue" -> Beside(At(Key("target", 0), "github"), At(Key("bot", 0), "bot"))
    [] kind = "reopen_issue" -> At(Key("target", 0), "github")
    [] kind = "secret_change" -> At(Key("rebuild", 0), "delivery")
    [] OTHER -> Nothing
Apply(by) ==
  IF row.broken THEN ClosedAs("refused", by, Nothing) ELSE ClosedAs("applied", by, Jobs(row.kind))

\* A close proposal that names its issue looks at it before it closes it.
ChecksTarget == row.kind = "close_issue" /\ ~row.broken

\* q stays open, a target check under way; one that is answers for it too.
Checking(q) ==
  IF q.check # None THEN Outcome(q, Nothing, 0)
  ELSE LET k == Fresh("check")
       IN Outcome([q EXCEPT !.check = k], At(k, Item("check", "none")), 0)
AwaitTargetUntimed(q, by) == Checking([q EXCEPT !.after = by])   \* defect
AwaitTarget(q, by) == Checking([q EXCEPT !.after = by, !.timer = TRUE])

\* decide: apply, wait for the target, or stay open with the next look armed.
\* An hour has passed since the last check, or it has not (`due`).
DecideUnforced(q, g, confirmed, due) ==   \* defect
  IF Mergeable(g) /\ (confirmed \/ ~ChecksTarget) THEN Apply(Group)
  ELSE IF Mergeable(g) THEN AwaitTarget(q, Group)
  ELSE Outcome([q EXCEPT !.after = NoOne, !.timer = TRUE], Nothing, 0)
Decide(q, g, confirmed, due) ==
  IF Mergeable(g) /\ (confirmed \/ ~ChecksTarget) THEN Apply(Group)
  ELSE LET forced == q.after \in Voters
           stays == [q EXCEPT !.after = NoOne, !.timer = TRUE]
       IN IF Mergeable(g) \/ forced THEN AwaitTarget(q, IF forced THEN q.after ELSE Group)
          ELSE IF ChecksTarget /\ due THEN Checking(stays)
          ELSE Outcome(stays, Nothing, 0)

Supersede == ClosedAs("superseded", Nobody, Nothing)

\* The row is gone, or closed by something else: the proposal ends as it is.
Outside == row.status # "open"
EndOutside == ClosedAs("superseded", "outside", Nothing)
Watching(o) == IF Outside THEN EndOutside ELSE o

\* The row is projected, the work recorded and the messages sent with it.
BecomesWith(outcome, items) == \E o \in {outcome} :
  /\ p' = o.p
  /\ row' = IF p.state \notin Closed /\ o.p.state \in Closed /\ ~Outside
            THEN [row EXCEPT !.status = "closed"] ELSE row
  /\ work' = Beside(o.items, items)
  /\ delivery' = [delivery EXCEPT !.asks = @ + o.asks]
Becomes(o) == BecomesWith(o, work)

\* Whether an hour has passed since the last target check.
Due == IF p.checked THEN BOOLEAN ELSE {TRUE}
----------------------------------------------------------------------------
(* Transitions of an open proposal. *)

Gate == Recount(vote)

\* Filed, by the route or by a merge's follow-ups: a row from before the
\* machine may be decided, or broken, already.
Filed ==
  /\ p.state = "none" /\ row.status = "open"
  /\ Becomes(Decide([p EXCEPT !.state = "open"], Gate, FALSE, TRUE))
  /\ UNCHANGED <<people, github, mail, secret>>

\* A vote the same as the voter's own takes it back.
VoteCast(x, side) ==
  LET now == IF vote[x] = side THEN "none" ELSE side
  IN /\ Open
     /\ \E due \in Due, g \in {WithVote(Gate, x, vote[x], now)} : Becomes(Watching(Decide(p, g, FALSE, due)))
     /\ vote' = IF Outside THEN vote ELSE [vote EXCEPT ![x] = now]
     /\ UNCHANGED <<app, electors, age, github, mail, secret>>

\* The instance's timer (an admin's Re-check now does the same).
Evaluate ==
  /\ Open
  /\ \E due \in Due, g \in {Gate} : Becomes(Watching(Decide([p EXCEPT !.timer = FALSE], g, FALSE, due)))
  /\ UNCHANGED <<people, github, mail, secret>>

AdminApply(x) ==
  /\ Open /\ x \in Admins
  /\ Outside \/ row.kind # "rename"
  /\ Becomes(Watching(IF ChecksTarget THEN AwaitTarget(p, x) ELSE Apply(x)))
  /\ UNCHANGED <<people, github, mail, secret>>

Withdraw ==
  /\ Open /\ row.status # "gone"
  /\ Becomes(Watching(ClosedAs("withdrawn", Author, Nothing)))
  /\ UNCHANGED <<people, github, mail, secret>>

\* A merge's follow-ups saw the target closed and said so.
TargetClosed ==
  /\ target.told
  /\ target' = [target EXCEPT !.told = FALSE]
  /\ IF Open /\ (Outside \/ row.kind = "close_issue")
     THEN Becomes(Watching(Supersede))
     ELSE UNCHANGED <<p, row, work, delivery>>
  /\ UNCHANGED <<people, comments, mail, secret>>

\* The target check answers: what waited for it is applied, unless the issue
\* is closed by now or the votes have gone; a check that could not look
\* counts as one that found it open.
AnsweredUnconfirmed(says) ==   \* defect
  IF says = "closed" THEN Supersede
  ELSE Decide([p EXCEPT !.check = None, !.checked = TRUE], Gate, FALSE, FALSE)
Answered(says) ==
  LET checked == [p EXCEPT !.check = None, !.checked = TRUE]
  IN IF says = "closed" THEN Supersede
     ELSE IF p.after = NoOne THEN Outcome(checked, Nothing, 0)
     ELSE IF p.after \in Voters THEN Apply(p.after)
     ELSE Decide(checked, Gate, TRUE, FALSE)

CheckResult(k) ==
  /\ k \in DOMAIN work /\ work[k].job = "check" /\ work[k].pc = "answered"
  /\ BecomesWith(IF Open /\ (Outside \/ p.check = k) THEN Watching(Answered(work[k].says))
                 ELSE Outcome(p, Nothing, 0),
                 [j \in DOMAIN work \ {k} |-> work[j]])
  /\ UNCHANGED <<people, github, mail, secret>>

----------------------------------------------------------------------------
(* Transitions of a closed one: its follow-ups. *)

FollowupResult(k) ==
  /\ k \in DOMAIN work /\ work[k].job # "check" /\ work[k].pc = "answered"
  /\ work' = [work EXCEPT ![k] = [@ EXCEPT !.pc = "reported", !.says = "none", !.tries = 0]]
  /\ p' = IF p.followups[k].status = "pending" THEN [p EXCEPT !.followups[k].status = work[k].says] ELSE p
  /\ UNCHANGED <<row, people, github, delivery, mail, secret>>

\* app-delivery answers the newest redeploy it has not served yet.
AskedKeys ==
  {k \in DOMAIN p.followups : p.followups[k].job = "delivery" /\ p.followups[k].status \in {"pending", "failed"}}
AskedKey == CHOOSE k \in AskedKeys : \A j \in AskedKeys : j[2] <= k[2]

DeliveryAnswer ==
  /\ mail # <<>> /\ mail' = Tail(mail)
  /\ p' = IF AskedKeys = {} THEN p
          ELSE [p EXCEPT !.followups[AskedKey].status = IF Head(mail) = "Delivered" THEN "done" ELSE "failed"]
  /\ UNCHANGED <<row, people, work, github, delivery, secret>>

\* An admin retries one that failed, from where its work had got to.
ResumedAfresh(k) == Item(p.followups[k].job, "none")   \* defect
Resumed(k) == Item(p.followups[k].job, work[k].at)
RetryFollowup(k) ==
  /\ k \in DOMAIN p.followups /\ p.followups[k].status \in {"failed", "exhausted"}
  /\ Cardinality({j \in DOMAIN p.followups : p.followups[j].status = "retried"}) < MaxRetries
  /\ LET key == Fresh(k[1])
         job == p.followups[k].job
     IN /\ p' = [p EXCEPT !.followups = Beside(At(key, FollowedUp(job)), [@ EXCEPT ![k].status = "retried"])]
        /\ IF job = "delivery"
           THEN delivery' = [delivery EXCEPT !.asks = @ + 1] /\ UNCHANGED work
           ELSE work' = Beside(At(key, Resumed(k)), work) /\ UNCHANGED delivery
  /\ UNCHANGED <<row, people, github, mail, secret>>

----------------------------------------------------------------------------
(* Work handlers (governance-proposal/services.ts, github-work.ts).          *)

Waiting(k, job) == k \in DOMAIN work /\ work[k].job = job /\ work[k].pc = "waiting"
Says(k, what) == work' = [work EXCEPT ![k].pc = "answered", ![k].says = what]
\* An attempt that failed leaves its checkpoint, and the last one gives up.
Lost(item) ==
  IF item.tries = 1 THEN [item EXCEPT !.tries = 0, !.pc = "answered", !.says = "exhausted"]
  ELSE [item EXCEPT !.tries = @ - 1, !.pc = "waiting"]
AtWork == UNCHANGED <<p, row, people, delivery, mail, secret>>

CheckTarget(k) ==
  /\ Waiting(k, "check")
  /\ Says(k, IF target.state = "open" THEN "open" ELSE "closed")
  /\ AtWork /\ UNCHANGED github

Goal == IF row.kind = "reopen_issue" THEN "open" ELSE "closed"

\* The issue is closed (or reopened), and that is checkpointed; gone is done.
CloseIssue(k) ==
  /\ Waiting(k, "github") /\ work[k].at = "none"
  /\ IF target.state = "gone" THEN Says(k, "done") /\ UNCHANGED target
     ELSE /\ target' = [target EXCEPT !.state = Goal]
          /\ \/ work' = [work EXCEPT ![k].at = "closed"]
             \/ work' = [work EXCEPT ![k] = Lost(@)]
  /\ AtWork /\ UNCHANGED comments

\* Before it posts, an attempt says so, and one that finds that said looks
\* for its comment first.
StartComment(k) ==
  /\ Waiting(k, "github") /\ work[k].at # "none"
  /\ IF work[k].at = "commenting" /\ comments > 0 THEN Says(k, "done")
     ELSE work' = [work EXCEPT ![k].at = "commenting", ![k].pc = "posting"]
  /\ AtWork /\ UNCHANGED github

\* The comment is created, whether or not GitHub's reply arrives.
PostComment(k) ==
  /\ k \in DOMAIN work /\ work[k].pc = "posting"
  /\ comments' = comments + 1
  /\ Says(k, "done") \/ work' = [work EXCEPT ![k] = Lost(@)]
  /\ AtWork /\ UNCHANGED target

BotRequestsClosed(k) ==
  Waiting(k, "bot") /\ Says(k, "done") /\ AtWork /\ UNCHANGED github

\* GitHub or the database cannot be reached, the process dies, or GitHub is
\* not configured here.
AttemptLost(k) ==
  /\ k \in DOMAIN work /\ work[k].pc \in {"waiting", "posting"}
  /\ work' = [work EXCEPT ![k] = Lost(@)]
  /\ AtWork /\ UNCHANGED github
NotConfigured(k) ==
  (Waiting(k, "check") \/ Waiting(k, "github")) /\ Says(k, "failed") /\ AtWork /\ UNCHANGED github

Handles(k) ==
  \/ CheckTarget(k) \/ CloseIssue(k) \/ StartComment(k) \/ PostComment(k)
  \/ BotRequestsClosed(k) \/ AttemptLost(k) \/ NotConfigured(k)

----------------------------------------------------------------------------
(* app-delivery (app-delivery/machine.ts): the proposal's requests beside    *)
(* the others' (main moved), at most one of which is told apart.             *)

Ids(d) == {r.id : r \in d.reqs}
\* A deploy of everything recorded so far; whether the proposal was applied
\* when it started.
Started(d) ==
  [d EXCEPT !.state = "deploying", !.covers = Ids(d), !.keyed = (p.state = "applied"),
            !.drift = IF @ = "none" THEN "none" ELSE "covered"]
Rested(d) == [d EXCEPT !.state = "idle", !.covers = {}, !.keyed = FALSE]
Recorded(d) ==
  [d EXCEPT !.reqs = @ \cup {[id |-> d.next, told |-> FALSE]}, !.next = @ + 1]
Copies(n, answer) == [i \in 1..n |-> answer]
AtDelivery == UNCHANGED <<p, row, people, work, github>>

\* The request is read: recorded and served now if nothing is under way, or
\* answered at once when no deploy here can serve it (an app with no
\* repository, or no app).
DeployRequested ==
  /\ delivery.asks > 0
  /\ LET d == [delivery EXCEPT !.asks = @ - 1]
         r == Recorded(d)
     IN \/ /\ row.status # "gone"
           /\ delivery' = IF d.state = "idle" THEN Started(r) ELSE r
           /\ UNCHANGED mail
        \/ delivery' = d /\ mail' = Append(mail, "DeliveryFailed")
  /\ AtDelivery /\ UNCHANGED secret

\* Main moved: one more request, which no one is told about, and which waits
\* for the retry where the deploy of that commit has just failed.
MainMoved ==
  /\ row.kind = "secret_change" /\ row.status # "gone" /\ delivery.drift = "none"
  /\ LET d == [delivery EXCEPT !.drift = "waiting"]
     IN delivery' \in IF d.state = "idle" THEN {Started(d), [d EXCEPT !.drift = "held"]} ELSE {d}
  /\ AtDelivery /\ UNCHANGED <<mail, secret>>

ServedAll(d) == d.reqs   \* defect
Served(d) == {r \in d.reqs : r.id \in d.covers}

\* Everyone it covered hears; what came in since is served by one more, but
\* for a move of main to the commit it deployed.
Deployed ==
  /\ delivery.state = "deploying"
  /\ \E drift \in {"none", delivery.drift} \ {"covered"} :
       LET d == [delivery EXCEPT !.reqs = @ \ Served(delivery), !.drift = drift]
       IN delivery' = IF d.reqs # {} \/ drift = "waiting" THEN Started(d) ELSE Rested(d)
  /\ mail' = mail \o Copies(Cardinality(Served(delivery)), "Delivered")
  /\ secret' = (secret \/ delivery.keyed)
  /\ AtDelivery

ToldAll(d) == {[r EXCEPT !.told = TRUE] : r \in d.reqs}   \* defect
Told(d) == {[r EXCEPT !.told = @ \/ r.id \in d.covers] : r \in d.reqs}
LateForMainOnly(d) == d.drift = "waiting"   \* defect
Late(d) == d.reqs # Served(d) \/ d.drift = "waiting"

\* It failed, or an admin ended it: whoever it covered is told, once, and
\* stays open for the next deploy that succeeds. Only what came in since
\* starts another; main's own request may be held for a retry.
DeployFailed ==
  /\ delivery.state = "deploying"
  /\ \E held \in {"none", "held"} :
       LET d == [delivery EXCEPT !.reqs = Told(delivery), !.drift = IF @ = "covered" THEN held ELSE @]
       IN delivery' = IF Late(delivery) THEN Started(d) ELSE Rested(d)
  /\ mail' = mail \o Copies(Cardinality({r \in Served(delivery) : ~r.told}), "DeliveryFailed")
  /\ AtDelivery /\ UNCHANGED secret

\* The held request's deadline: deployed again, or dropped with the rest
\* when nothing here can serve them.
RetryDue ==
  /\ delivery.state = "idle" /\ delivery.drift = "held"
  /\ \/ /\ row.status # "gone" /\ delivery' = Started(delivery) /\ UNCHANGED mail
     \/ /\ delivery' = [delivery EXCEPT !.reqs = {}, !.drift = "none"]
        /\ mail' = mail \o Copies(Cardinality({r \in delivery.reqs : ~r.told}), "DeliveryFailed")
  /\ AtDelivery /\ UNCHANGED secret

\* The app is healed; what was asked meanwhile is deployed when that ends,
\* and an app only a deploy brings back gets one.
HealStarts ==
  /\ row.kind = "secret_change" /\ row.status # "gone" /\ delivery.state = "idle"
  /\ delivery' = [delivery EXCEPT !.state = "healing"]
  /\ AtDelivery /\ UNCHANGED <<mail, secret>>
HealEnds ==
  /\ delivery.state = "healing"
  /\ \/ delivery' = Started(delivery)
     \/ delivery.reqs = {} /\ delivery.drift # "waiting" /\ delivery' = Rested(delivery)
  /\ AtDelivery /\ UNCHANGED <<mail, secret>>

Delivers ==
  DeployRequested \/ MainMoved \/ Deployed \/ DeployFailed \/ RetryDue \/ HealStarts \/ HealEnds

----------------------------------------------------------------------------
(* What happens without the proposal being told. Once it is closed nothing   *)
(* reads it any more.                                                        *)

Apart == UNCHANGED <<p, work, comments, delivery, mail, secret>>
Undecided == p.state \in {"none", "open"}

TimePasses ==
  /\ Undecided /\ \E t \in Ages : t > age /\ age' = t
  /\ Apart /\ UNCHANGED <<row, vote, app, electors, target>>
ElectorateMoves ==
  /\ Undecided /\ electors' \in Electorates \ {electors}
  /\ Apart /\ UNCHANGED <<row, vote, app, age, target>>
\* A move is decided some other way, an image is taken down.
Breaks ==
  /\ Undecided /\ row.kind = "thread_move" /\ ~row.broken
  /\ row' = [row EXCEPT !.broken = TRUE]
  /\ Apart /\ UNCHANGED <<people, target>>
\* The app is deleted, its rows with it.
AppGoes ==
  /\ Open /\ row' = [row EXCEPT !.status = "gone"]
  /\ row.status # "gone" /\ Apart /\ UNCHANGED <<people, target>>

\* The target is closed or deleted on GitHub, by hand or by a merge that
\* tells the proposal, or opened again.
TargetMoves ==
  /\ row.kind = "close_issue" /\ Undecided
  /\ \/ /\ target.state = "open"
        /\ \E s \in {"closed", "gone"}, told \in {Open, FALSE} :
             target' = [state |-> s, told |-> target.told \/ told]
     \/ target.state = "closed" /\ target' = [target EXCEPT !.state = "open"]
  /\ Apart /\ UNCHANGED <<row, people>>

----------------------------------------------------------------------------
(* The specification. *)

Init ==
  /\ p = [state |-> "none", check |-> None, checked |-> FALSE, after |-> NoOne, timer |-> FALSE,
          followups |-> Nothing, by |-> Nobody, changes |-> 0]
  /\ row \in [kind : Kinds, status : {"open"}, broken : BOOLEAN]
  /\ vote \in [Voters -> Sides]
  /\ app \in [approvals : Regimes, locked : BOOLEAN]
  /\ electors \in Electorates
  /\ age \in Ages /\ \A t \in Ages : age <= t
  /\ work = Nothing
  /\ target = [state |-> IF row.kind = "reopen_issue" THEN "closed" ELSE "open", told |-> FALSE]
  /\ comments = 0
  /\ delivery = [asks |-> 0, reqs |-> {}, next |-> 1, state |-> "idle", covers |-> {},
                 keyed |-> FALSE, drift |-> "none"]
  /\ mail = <<>>
  /\ secret = FALSE

Decides ==
  \/ Filed \/ (\E x \in Voters, side \in {"up", "down"} : VoteCast(x, side))
  \/ (p.timer /\ Evaluate) \/ (\E x \in Admins : AdminApply(x)) \/ Withdraw \/ TargetClosed
  \/ (\E k \in DOMAIN work : CheckResult(k) \/ FollowupResult(k))
  \/ DeliveryAnswer \/ (\E k \in DOMAIN p.followups : RetryFollowup(k))

Environment == TimePasses \/ ElectorateMoves \/ Breaks \/ AppGoes \/ TargetMoves

Next == Decides \/ (\E k \in DOMAIN work : Handles(k)) \/ Delivers \/ Environment

Spec == Init /\ [][Next]_vars

\* The kernel fires deadlines, runs work items and delivers results and
\* messages; a deploy and a heal end; the redeploy asked for is read.
Fairness ==
  /\ WF_vars(p.timer /\ Evaluate)
  /\ WF_vars(\E k \in DOMAIN work : Handles(k) \/ CheckResult(k) \/ FollowupResult(k))
  /\ WF_vars(DeliveryAnswer \/ DeployRequested)
  /\ WF_vars(Deployed \/ DeployFailed \/ HealEnds)
FairSpec == Spec /\ Fairness

----------------------------------------------------------------------------
(* Properties. *)

Statuses == {"pending", "done", "failed", "exhausted", "retried"}

\* Every variable holds what the code may put there: an open proposal has its
\* deadline armed and no follow-up, a closed one no deadline, no check and
\* nobody it waits to apply for; and what it changes, it changes once.
GovTypeOK ==
  /\ p.state \in {"none", "open"} \cup Closed
  /\ p.timer = Open
  /\ p.state # "open" => p.check = None /\ p.after = NoOne
  /\ p.after \in {NoOne, Group} \cup Admins
  /\ p.changes = IF p.state = "applied" THEN 1 ELSE 0
  /\ p.state \in {"none", "open"} => p.followups = Nothing
  /\ \A k \in DOMAIN p.followups : p.followups[k].status \in Statuses
  /\ \A k \in DOMAIN work :
       /\ work[k].job \in {"check", "github", "bot"}
       /\ work[k].pc \in {"waiting", "posting", "answered", "reported"}
       /\ work[k].at \in {"none", "closed", "commenting"}
       /\ work[k].tries \in 0..Tries
  /\ vote \in [Voters -> Sides] /\ electors \in Electorates /\ age \in Ages
  /\ target.state \in {"open", "closed", "gone"}
  /\ delivery.state \in {"idle", "deploying", "healing"}
  /\ delivery.covers \subseteq Ids(delivery)

\* A group's vote decides only what the votes it leaves behind carry, under
\* the electorate, the clock and the lock of that moment: the vote folded
\* into the counts is the vote counted, and a target check that answers late
\* asks the gate again.
GateOpen == Mergeable(Recount(vote))
GroupVoteHolds ==
  [][p.by = Nobody /\ p'.by = Group => GateOpen']_vars

\* What waits for a check has one under way, and a follow-up that is pending
\* has somebody at it: a work item of its own, or a request app-delivery has
\* not read, not told of a failure, or answered in a message not read yet.
SomebodyAtIt(k) ==
  IF p.followups[k].job = "delivery"
  THEN delivery.asks > 0 \/ (\E r \in delivery.reqs : ~r.told) \/ mail # <<>>
  ELSE k \in DOMAIN work /\ work[k].pc # "reported"
PendingIsHeld ==
  /\ p.after # NoOne => p.check # None
  /\ p.check # None => p.check \in DOMAIN work
  /\ \A k \in DOMAIN p.followups : p.followups[k].status = "pending" => SomebodyAtIt(k)

\* However often the work is lost, retried, or its replies lost, the issue
\* hears of its closing once.
CommentOnce == comments <= 1

\* A redeploy recorded as done was started after the secret was applied, even
\* when a retry crosses the answer to the request before it.
DoneRunsTheSecret ==
  \A k \in DOMAIN p.followups :
    p.followups[k].job = "delivery" /\ p.followups[k].status = "done" => secret

\* Votes that carry, and go on carrying, are acted on, though the clock and
\* the electorate move without telling anybody and the check of the target
\* may fail.
PassedSettles == (Open /\ GateOpen) ~> (~Open \/ ~GateOpen)

\* What an admin applied is settled, whatever the votes do meanwhile, and so
\* is a proposal whose app is deleted.
ForcedSettles == (Open /\ (p.after \in Voters \/ Outside)) ~> ~Open

\* Every follow-up is answered, the retried ones too.
SomePending == \E k \in DOMAIN p.followups : p.followups[k].status = "pending"
FollowupsSettle == SomePending ~> ~SomePending
=============================================================================
