-------------------------- MODULE GovernanceProofs --------------------------
(***************************************************************************)
(* Proofs about a governance proposal, for any people, electorates, ages   *)
(* and regimes, any number of tries of a work and of retries by admins.    *)
(***************************************************************************)
EXTENDS Governance, FiniteSetTheorems, SequenceTheorems, TLAPS

-----------------------------------------------------------------------------
(* The inductive invariant *)

\* A function of finitely many keys.
Table(f, K, R) ==
  /\ f = [k \in DOMAIN f |-> f[k]] /\ DOMAIN f \subseteq K /\ IsFiniteSet(DOMAIN f)
  /\ \A k \in DOMAIN f : f[k] \in R

CheckKeys == {"check"} \X Nat
FollowKeys == {"target", "bot", "rebuild"} \X Nat
JobNames == {"github", "bot", "delivery"}
Followups == [job : JobNames, status : Statuses]
Items == [job : {"check", "github", "bot"}, pc : {"waiting", "posting", "answered", "reported"},
          at : {"none", "closed", "commenting"}, tries : 0..Tries,
          says : {"none", "open", "closed", "done", "failed", "exhausted"}]

\* Of each job one follow-up stands: the others have been retried.
OneStands(f) ==
  \A j, k \in DOMAIN f :
    f[j].job = f[k].job /\ f[j].status # "retried" /\ f[k].status # "retried" => j = k

\* The proposal on its own.
Shape(q) ==
  q \in [state : {"none", "open"} \cup Closed, check : {None} \cup CheckKeys, checked : BOOLEAN,
         after : {NoOne, Group} \cup Admins, timer : BOOLEAN, followups : {q.followups},
         by : {Nobody, Group, "outside"} \cup Voters, changes : {0, 1}]
ProposalOK(q) ==
  /\ Shape(q)
  /\ q.timer = (q.state = "open")
  /\ q.state # "open" => q.check = None /\ q.after = NoOne
  /\ q.after # NoOne => q.check # None
  /\ q.changes = IF q.state = "applied" THEN 1 ELSE 0
  /\ q.state # "applied" => q.followups = Nothing
  /\ Table(q.followups, FollowKeys, Followups)
  /\ OneStands(q.followups)

\* A work item on its own: one that may still run has a try left, a comment is
\* only posted once that is checkpointed, and an answer is one its follow-up
\* can take.
ItemOK(k, it) ==
  /\ it.job = "check" <=> k \in CheckKeys
  /\ it.pc \in {"waiting", "posting"} => it.tries # 0
  /\ it.pc = "posting" => it.job = "github" /\ it.at = "commenting"
  /\ it.pc = "answered" /\ it.job # "check" => it.says \in {"done", "failed", "exhausted"}
WorkOK(w) == Table(w, CheckKeys \cup FollowKeys, Items) /\ \A k \in DOMAIN w : ItemOK(k, w[k])

\* A follow-up that is not app-delivery's has its item, which has reported
\* when it is no longer pending.
Matches(f, w) ==
  /\ \A k \in DOMAIN w : k \notin CheckKeys => k \in DOMAIN f
  /\ \A k \in DOMAIN f :
       IF f[k].job = "delivery" THEN k \notin DOMAIN w
       ELSE /\ k \in DOMAIN w /\ w[k].job = f[k].job
            /\ f[k].status = "pending" <=> w[k].pc # "reported"

CheckHeld(q, w) == q.check # None => q.check \in DOMAIN w

\* Once the comment is there, whoever may still post it has checkpointed that
\* it would, and looks before it does.
CommentsOK(q, w, n) ==
  /\ n \in {0, 1}
  /\ n = 1 =>
       /\ q.state = "applied"
       /\ \A k \in DOMAIN q.followups :
            q.followups[k].job = "github" /\ q.followups[k].status # "retried" =>
              w[k].at = "commenting" /\ w[k].pc # "posting"

\* app-delivery on its own, and what it knows of the proposal: a redeploy is
\* asked for, and so covered by a deploy, only once it is applied.
DeliveryOK(q, d) ==
  /\ d \in [asks : Nat, reqs : SUBSET [id : Nat, told : BOOLEAN], next : Nat,
            state : {"idle", "deploying", "healing"}, covers : SUBSET Nat, keyed : BOOLEAN,
            drift : {"none", "waiting", "held", "covered"}]
  /\ IsFiniteSet(d.reqs) /\ d.covers \subseteq Ids(d)
  /\ d.state # "deploying" => d.covers = {}
  /\ d.covers # {} => d.keyed
  /\ d.asks > 0 \/ d.reqs # {} => q.state = "applied"
MailOK(m, ran) ==
  /\ m \in Seq({"Delivered", "DeliveryFailed"}) /\ ran \in BOOLEAN
  /\ \A i \in 1..Len(m) : m[i] = "Delivered" => ran

\* A redeploy that is pending is on its way; one that is done ran the secret.
OnItsWay(d, m) == d.asks > 0 \/ (\E r \in d.reqs : ~r.told) \/ m # <<>>
RedeploysOK(f, d, m, ran) ==
  \A k \in DOMAIN f : f[k].job = "delivery" =>
    /\ f[k].status = "pending" => OnItsWay(d, m)
    /\ f[k].status = "done" => ran

WorldOK ==
  /\ row \in [kind : Kinds, status : {"open", "closed", "gone"}, broken : BOOLEAN]
  /\ vote \in [Voters -> Sides] /\ app \in [approvals : Regimes, locked : BOOLEAN]
  /\ electors \in Electorates /\ age \in Ages
  /\ target \in [state : {"open", "closed", "gone"}, told : BOOLEAN]

ProposalInv ==
  /\ ProposalOK(p) /\ WorkOK(work) /\ Matches(p.followups, work) /\ CheckHeld(p, work)
  /\ CommentsOK(p, work, comments)
  /\ DeliveryOK(p, delivery) /\ MailOK(mail, secret)
  /\ RedeploysOK(p.followups, delivery, mail, secret)
GovInv == WorldOK /\ ProposalInv

-----------------------------------------------------------------------------
(* Tables *)

\* What Beside gives of two tables.
IsBeside(h, f, g) ==
  /\ DOMAIN h = DOMAIN f \cup DOMAIN g
  /\ \A k \in DOMAIN f : h[k] = f[k]
  /\ \A k \in DOMAIN g : k \notin DOMAIN f => h[k] = g[k]

LEMMA BesideTable ==
  ASSUME NEW K, NEW R, NEW f, NEW g, Table(f, K, R), Table(g, K, R)
  PROVE  Table(Beside(f, g), K, R) /\ IsBeside(Beside(f, g), f, g)
<1>1. IsFiniteSet(DOMAIN f \cup DOMAIN g)
  BY FS_Union DEF Table
<1> QED
  BY <1>1 DEF Table, Beside, IsBeside

LEMMA AtTable ==
  ASSUME NEW K, NEW R, NEW k \in K, NEW x \in R
  PROVE  Table(At(k, x), K, R) /\ DOMAIN At(k, x) = {k} /\ At(k, x)[k] = x
<1>1. IsFiniteSet({k})
  BY FS_Singleton
<1> QED
  BY <1>1 DEF Table, At

LEMMA NothingTable == ASSUME NEW K, NEW R PROVE Table(Nothing, K, R) /\ DOMAIN Nothing = {}
<1>1. DOMAIN Nothing = {}
  BY DEF Nothing
<1>2. IsFiniteSet({})
  BY FS_EmptySet
<1>3. Nothing = [k \in DOMAIN Nothing |-> Nothing[k]]
  BY DEF Nothing
<1> QED
  BY <1>1, <1>2, <1>3 DEF Table

LEMMA EmptyIsNothing == ASSUME NEW f, f = [k \in {} |-> f[k]] PROVE f = Nothing
BY DEF Nothing

LEMMA ChangedTable ==
  ASSUME NEW K, NEW R, NEW f, Table(f, K, R), NEW k \in DOMAIN f, NEW x \in R
  PROVE  LET g == [f EXCEPT ![k] = x]
         IN  /\ Table(g, K, R) /\ DOMAIN g = DOMAIN f /\ g[k] = x
             /\ \A j \in DOMAIN f : j # k => g[j] = f[j]
BY DEF Table

LEMMA RemovedTable ==
  ASSUME NEW K, NEW R, NEW f, Table(f, K, R), NEW k
  PROVE  LET g == [j \in DOMAIN f \ {k} |-> f[j]]
         IN  /\ Table(g, K, R) /\ DOMAIN g = DOMAIN f \ {k} /\ \A j \in DOMAIN g : g[j] = f[j]
<1>1. IsFiniteSet(DOMAIN f \ {k})
  BY FS_Subset DEF Table
<1> QED
  BY <1>1 DEF Table

\* There is always a key that no item and no follow-up has.
LEMMA FreshKey ==
  ASSUME IsFiniteSet(DOMAIN work), IsFiniteSet(DOMAIN p.followups), NEW name
  PROVE  /\ Fresh(name) \in {name} \X Nat
         /\ Fresh(name) \notin DOMAIN work /\ Fresh(name) \notin DOMAIN p.followups
<1> DEFINE taken == DOMAIN work \cup DOMAIN p.followups
           N == Cardinality(taken) + 1
           f == [k \in 1..N |-> Key(name, k)]
<1>1. IsFiniteSet(taken) /\ Cardinality(taken) \in Nat
  BY FS_Union, FS_CardinalityType
<1>2. IsFiniteSet(1..N) /\ Cardinality(1..N) = N
  <2>1. 1 \in Int /\ N \in Int /\ N >= 1
    BY <1>1
  <2> HIDE DEF N
  <2> QED
    BY <2>1, FS_Interval
<1>3. \E k \in 1..N : Key(name, k) \notin taken
  <2>1. SUFFICES ASSUME \A k \in 1..N : Key(name, k) \in taken PROVE FALSE
    OBVIOUS
  <2>2. f \in [1..N -> taken] /\ Cardinality(taken) < Cardinality(1..N)
    <3>1. Cardinality(taken) < Cardinality(1..N)
      BY <1>1, <1>2
    <3> HIDE DEF taken, N
    <3> QED
      BY <2>1, <3>1
  <2>3. \E i, j \in 1..N : i # j /\ f[i] = f[j]
    <3> HIDE DEF f, taken, N
    <3> QED
      BY <1>1, <1>2, <2>2, FS_PigeonHole
  <2> QED
    BY <2>3 DEF Key
<1> DEFINE n == CHOOSE k \in 1..N : Key(name, k) \notin taken
<1>4. n \in 1..N /\ Key(name, n) \notin taken
  BY <1>3
<1>5. n \in Nat
  BY <1>1, <1>4
<1>6. Fresh(name) = Key(name, n)
  BY DEF Fresh
<1> HIDE DEF n
<1> QED
  BY <1>4, <1>5, <1>6 DEF Key

-----------------------------------------------------------------------------
(* What an outcome can be *)

\* An open proposal a transition starts from, its deadline armed or not.
Draft(q) ==
  /\ Shape(q) /\ q.state = "open" /\ q.followups = Nothing /\ q.changes = 0
  /\ q.check # None => q.check \in DOMAIN work

\* The proposal stays open, as q was but for the deadline and whom it waits to
\* apply for, with a check more at most.
Stays(q, o) ==
  /\ Shape(o.p) /\ o.p.state = "open" /\ o.p.followups = Nothing /\ o.p.changes = 0
  /\ o.p.timer /\ o.p.by = q.by /\ o.asks = 0
  /\ o.p.after # NoOne => o.p.check # None
  /\ \/ o.items = Nothing /\ o.p.check = q.check
     \/ /\ q.check = None /\ o.p.check \in CheckKeys /\ o.p.check \notin DOMAIN work
        /\ o.items = At(o.p.check, Item("check", "none"))

\* It is closed, by anybody, with one follow-up for each job it asks for.
JobsOK(J) ==
  /\ Table(J, FollowKeys, JobNames)
  /\ \A j, k \in DOMAIN J : J[j] = J[k] => j = k
Closes(o) ==
  \E name \in Closed, by \in {Nobody, Group, "outside"} \cup Voters : \E J :
    JobsOK(J) /\ (J = Nothing \/ name = "applied") /\ o = ClosedAs(name, by, J)

LEMMA JobsAreOK == JobsOK(Nothing) /\ \A kind : JobsOK(Jobs(kind))
<1>1. JobsOK(Nothing)
  BY NothingTable DEF JobsOK
<1> SUFFICES ASSUME NEW kind PROVE JobsOK(Jobs(kind))
  BY <1>1
<1> DEFINE t == Key("target", 0)
           b == Key("bot", 0)
           r == Key("rebuild", 0)
<1>2. t \in FollowKeys /\ b \in FollowKeys /\ r \in FollowKeys /\ t # b
  BY DEF Key, FollowKeys
<1>3. /\ Table(At(t, "github"), FollowKeys, JobNames) /\ Table(At(b, "bot"), FollowKeys, JobNames)
      /\ Table(At(r, "delivery"), FollowKeys, JobNames)
      /\ DOMAIN At(t, "github") = {t} /\ DOMAIN At(b, "bot") = {b} /\ DOMAIN At(r, "delivery") = {r}
      /\ At(t, "github")[t] = "github" /\ At(b, "bot")[b] = "bot"
  BY <1>2, AtTable DEF JobNames
<1>4. JobsOK(At(t, "github")) /\ JobsOK(At(r, "delivery"))
  BY <1>3 DEF JobsOK
<1>5. JobsOK(Beside(At(t, "github"), At(b, "bot")))
  <2> DEFINE f == At(t, "github")
             g == At(b, "bot")
             J == Beside(f, g)
  <2>1. Table(J, FollowKeys, JobNames) /\ DOMAIN J = {t} \cup {b} /\ J[t] = "github" /\ J[b] = "bot"
    <3>1. /\ Table(f, FollowKeys, JobNames) /\ Table(g, FollowKeys, JobNames)
          /\ DOMAIN f = {t} /\ DOMAIN g = {b} /\ f[t] = "github" /\ g[b] = "bot" /\ t # b
      BY <1>2, <1>3
    <3>2. Table(J, FollowKeys, JobNames) /\ IsBeside(J, f, g)
      <4> HIDE DEF f, g, t, b
      <4> QED
        BY <3>1, BesideTable
    <3> HIDE DEF J, f, g, t, b
    <3> QED
      BY <3>1, <3>2 DEF IsBeside
  <2>2. JobsOK(J)
    <3> HIDE DEF J, t, b
    <3> QED
      BY <2>1 DEF JobsOK
  <2> QED
    BY <2>2
<1>6. \/ Jobs(kind) = Beside(At(t, "github"), At(b, "bot"))
      \/ Jobs(kind) = At(t, "github") \/ Jobs(kind) = At(r, "delivery") \/ Jobs(kind) = Nothing
  BY DEF Jobs
<1> HIDE DEF t, b, r
<1> QED
  BY <1>1, <1>4, <1>5, <1>6

LEMMA ApplyCloses == ASSUME NEW by \in {Group} \cup Voters PROVE Closes(Apply(by))
BY JobsAreOK DEF Apply, Closes, Closed

LEMMA EndsClose == Closes(Supersede) /\ Closes(EndOutside) /\ Closes(ClosedAs("withdrawn", Author, Nothing))
BY JobsAreOK, PeopleAssumption DEF Supersede, EndOutside, Closes, Closed

LEMMA CheckingStays ==
  ASSUME IsFiniteSet(DOMAIN work), IsFiniteSet(DOMAIN p.followups),
         NEW q, Draft(q), q.timer
  PROVE  Stays(q, Checking(q)) /\ Checking(q).p.after = q.after
<1>1. CASE q.check # None
  BY <1>1 DEF Draft, Checking, Outcome, Stays
<1>2. CASE q.check = None
  <2> DEFINE k == Fresh("check")
             o == Outcome([q EXCEPT !.check = k], At(k, Item("check", "none")), 0)
  <2>1. k \in CheckKeys /\ k \notin DOMAIN work
    BY FreshKey DEF CheckKeys
  <2>2. k # None
    BY <2>1 DEF CheckKeys, None
  <2>3. o = Checking(q)
    BY <1>2 DEF Checking
  <2> HIDE DEF k
  <2>4. Shape([q EXCEPT !.check = k])
    BY <2>1 DEF Draft, Shape
  <2>5. Stays(q, o) /\ o.p.after = q.after
    BY <1>2, <2>1, <2>2, <2>4 DEF Draft, Stays, Outcome, Shape
  <2> QED
    BY <2>3, <2>5
<1> QED
  BY <1>1, <1>2

LEMMA AwaitTargetStays ==
  ASSUME IsFiniteSet(DOMAIN work), IsFiniteSet(DOMAIN p.followups),
         NEW q, Draft(q), NEW by \in {Group} \cup Admins
  PROVE  Stays(q, AwaitTarget(q, by))
<1> DEFINE d == [q EXCEPT !.after = by, !.timer = TRUE]
<1>1. Draft(d) /\ d.timer = TRUE /\ d.check = q.check /\ d.by = q.by
  BY DEF Draft, Shape
<1>2. AwaitTarget(q, by) = Checking(d)
  BY DEF AwaitTarget
<1> HIDE DEF d
<1> QED
  BY <1>1, <1>2, CheckingStays DEF Stays

LEMMA DecideForms ==
  ASSUME IsFiniteSet(DOMAIN work), IsFiniteSet(DOMAIN p.followups),
         NEW q, Draft(q), NEW g, NEW confirmed, NEW due
  PROVE  LET o == Decide(q, g, confirmed, due)
         IN  /\ Stays(q, o) \/ Closes(o)
             /\ q.by = Nobody /\ o.p.by = Group => Mergeable(g)
<1> DEFINE stays == [q EXCEPT !.after = NoOne, !.timer = TRUE]
<1>1. Stays(q, Outcome(stays, Nothing, 0))
  BY DEF Draft, Shape, Stays, Outcome
<1>2. Stays(q, Checking(stays))
  <2>1. Draft(stays) /\ stays.timer = TRUE /\ stays.check = q.check /\ stays.by = q.by
    BY DEF Draft, Shape
  <2> HIDE DEF stays
  <2> QED
    BY <2>1, CheckingStays DEF Stays
<1>3. Stays(q, AwaitTarget(q, Group)) /\ (q.after \in Voters => Stays(q, AwaitTarget(q, q.after)))
  BY PeopleAssumption, AwaitTargetStays DEF Draft, Shape
<1>4. Closes(Apply(Group))
  BY ApplyCloses
<1>5. \/ Mergeable(g) /\ Decide(q, g, confirmed, due) = Apply(Group)
      \/ Decide(q, g, confirmed, due) \in {Outcome(stays, Nothing, 0), Checking(stays), AwaitTarget(q, Group)}
      \/ q.after \in Voters /\ Decide(q, g, confirmed, due) = AwaitTarget(q, q.after)
  BY DEF Decide
<1>6. \A o : Stays(q, o) => o.p.by = q.by
  BY DEF Stays
<1>7. Nobody # Group
  BY DEF Nobody, Group
<1> HIDE DEF stays
<1> QED
  BY <1>1, <1>2, <1>3, <1>4, <1>5, <1>6, <1>7

-----------------------------------------------------------------------------
(* What an outcome leaves of the invariant *)

\* The proposal's items with one more, or as they were.
LEMMA ItemIsOK ==
  ASSUME NEW job \in {"check", "github", "bot"}, NEW at \in {"none", "closed", "commenting"},
         NEW k, job = "check" <=> k \in CheckKeys
  PROVE  Item(job, at) \in Items /\ ItemOK(k, Item(job, at)) /\ Item(job, at).job = job
         /\ Item(job, at).at = at /\ Item(job, at).pc = "waiting"
BY BoundsAssumption DEF Item, Items, ItemOK

LEMMA BesideWork ==
  ASSUME NEW f, NEW g, WorkOK(f), WorkOK(g), NEW h, h = Beside(f, g)
  PROVE  WorkOK(h) /\ IsBeside(h, f, g)
<1>1. Table(h, CheckKeys \cup FollowKeys, Items) /\ IsBeside(h, f, g)
  BY BesideTable DEF WorkOK
<1> QED
  BY <1>1 DEF WorkOK, IsBeside

LEMMA KeysApart == CheckKeys \cap FollowKeys = {} /\ None \notin CheckKeys
BY DEF CheckKeys, FollowKeys, None

\* Before it is applied a proposal has nothing but checks.
LEMMA OnlyChecks ==
  ASSUME ProposalInv, p.state # "applied"
  PROVE  /\ DOMAIN work \subseteq CheckKeys /\ p.followups = Nothing /\ comments = 0
         /\ delivery.asks = 0 /\ delivery.reqs = {}
<1>1. p.followups = Nothing /\ DOMAIN Nothing = {}
  BY NothingTable DEF ProposalInv, ProposalOK
<1>2. delivery.asks \in Nat
  BY DEF ProposalInv, DeliveryOK
<1> QED
  BY <1>1, <1>2 DEF ProposalInv, Matches, CommentsOK, DeliveryOK

LEMMA StaysKeeps ==
  ASSUME ProposalInv, p.state # "applied",
         NEW w, WorkOK(w), DOMAIN w \subseteq DOMAIN work,
         NEW q, q.check # None => q.check \in DOMAIN w,
         NEW o, Stays(q, o), p' = o.p, work' = Beside(o.items, w),
         delivery' = [delivery EXCEPT !.asks = @ + o.asks], UNCHANGED <<comments, mail, secret>>
  PROVE  ProposalInv'
<1>1. /\ DOMAIN work \subseteq CheckKeys /\ comments = 0 /\ delivery.asks = 0 /\ delivery.reqs = {}
      /\ DOMAIN Nothing = {}
  BY OnlyChecks, NothingTable
<1>2. delivery' = delivery
  BY <1>1 DEF Stays, ProposalInv, DeliveryOK
<1>3. WorkOK(work') /\ DOMAIN work' \subseteq CheckKeys
      /\ (o.p.check # None => o.p.check \in DOMAIN work')
  <2>1. WorkOK(Nothing)
    BY <1>1, NothingTable DEF WorkOK
  <2>2. CASE o.items = Nothing /\ o.p.check = q.check
    <3>1. WorkOK(work') /\ IsBeside(work', Nothing, w)
      BY <2>1, <2>2, BesideWork
    <3> QED
      BY <1>1, <2>2, <3>1 DEF IsBeside
  <2>3. CASE o.p.check \in CheckKeys /\ o.items = At(o.p.check, Item("check", "none"))
    <3> DEFINE c == o.p.check
               x == Item("check", "none")
               i == At(c, x)
    <3>1. x \in Items /\ ItemOK(c, x) /\ c \in CheckKeys \cup FollowKeys
      BY <2>3, ItemIsOK
    <3>2. WorkOK(i) /\ DOMAIN i = {c}
      <4> HIDE DEF x, c
      <4>1. Table(i, CheckKeys \cup FollowKeys, Items) /\ DOMAIN i = {c} /\ i[c] = x
        BY <3>1, AtTable
      <4> HIDE DEF i
      <4> QED
        BY <3>1, <4>1 DEF WorkOK
    <3>3. work' = Beside(i, w)
      BY <2>3
    <3> HIDE DEF i
    <3>4. WorkOK(work') /\ IsBeside(work', i, w)
      BY <3>2, <3>3, BesideWork
    <3> QED
      BY <1>1, <2>3, <3>2, <3>4 DEF IsBeside
  <2> QED
    BY <2>2, <2>3 DEF Stays
<1>4. ProposalOK(p')
  BY NothingTable DEF Stays, ProposalOK, OneStands
<1>5. Matches(p'.followups, work') /\ CommentsOK(p', work', comments')
      /\ RedeploysOK(p'.followups, delivery', mail', secret')
  BY <1>1, <1>3 DEF Stays, Matches, CommentsOK, RedeploysOK
<1>6. DeliveryOK(p', delivery') /\ MailOK(mail', secret')
  BY <1>1, <1>2 DEF ProposalInv, DeliveryOK, MailOK
<1> QED
  BY <1>3, <1>4, <1>5, <1>6 DEF ProposalInv, CheckHeld

\* The record ClosedAs makes of the proposal, and its fields.
ClosedRecord(name, by, F) ==
  [p EXCEPT !.state = name, !.by = by, !.timer = FALSE, !.check = None, !.checked = FALSE, !.after = NoOne,
            !.changes = @ + (IF name = "applied" THEN 1 ELSE 0), !.followups = F]
IsClosed(q, name, F) ==
  /\ Shape(q) /\ q.state = name /\ q.timer = FALSE /\ q.check = None /\ q.after = NoOne
  /\ q.followups = F /\ q.changes = IF name = "applied" THEN 1 ELSE 0

LEMMA ClosedFields ==
  ASSUME Shape(p), NEW name \in Closed, NEW by \in {Nobody, Group, "outside"} \cup Voters, NEW F,
         p.changes = 0
  PROVE  IsClosed(ClosedRecord(name, by, F), name, F)
<1> DEFINE n == IF name = "applied" THEN 1 ELSE 0
           q == [p EXCEPT !.state = name, !.by = by, !.timer = FALSE, !.check = None,
                          !.checked = FALSE, !.after = NoOne, !.changes = n, !.followups = F]
<1>1. p.changes + n = n /\ n \in {0, 1}
  OBVIOUS
<1>2. ClosedRecord(name, by, F) = q
  BY <1>1 DEF Shape, ClosedRecord
<1> HIDE DEF n
<1>3. /\ q.state = name /\ q.by = by /\ q.timer = FALSE /\ q.check = None /\ q.after = NoOne
      /\ q.followups = F /\ q.changes = n
  BY DEF Shape
<1>4. q \in [state : {"none", "open"} \cup Closed, check : {None} \cup CheckKeys, checked : BOOLEAN,
             after : {NoOne, Group} \cup Admins, timer : BOOLEAN, followups : {F},
             by : {Nobody, Group, "outside"} \cup Voters, changes : {0, 1}]
  BY <1>1 DEF Shape
<1> HIDE DEF q
<1> QED
  BY <1>2, <1>3, <1>4 DEF Shape, n, IsClosed

LEMMA ClosesKeeps ==
  ASSUME ProposalInv, p.state # "applied",
         NEW w, WorkOK(w), DOMAIN w \subseteq DOMAIN work,
         NEW o, Closes(o), p' = o.p, work' = Beside(o.items, w),
         delivery' = [delivery EXCEPT !.asks = @ + o.asks], UNCHANGED <<comments, mail, secret>>
  PROVE  ProposalInv'
<1> PICK name \in Closed, by \in {Nobody, Group, "outside"} \cup Voters :
      \E J : JobsOK(J) /\ (J = Nothing \/ name = "applied") /\ o = ClosedAs(name, by, J)
  BY DEF Closes
<1> PICK J : JobsOK(J) /\ (J = Nothing \/ name = "applied") /\ o = ClosedAs(name, by, J)
  OBVIOUS
<1> DEFINE asked == {k \in DOMAIN J : J[k] = "delivery"}
           ran == DOMAIN J \ asked
           F == [k \in DOMAIN J |-> FollowedUp(J[k])]
           W == [k \in ran |-> Item(J[k], "none")]
<1>1. /\ DOMAIN work \subseteq CheckKeys /\ comments = 0 /\ delivery.asks = 0 /\ delivery.reqs = {}
      /\ DOMAIN Nothing = {}
  BY OnlyChecks, NothingTable
<1>2. p' = ClosedRecord(name, by, F) /\ o.items = W /\ o.asks = Cardinality(asked)
  BY DEF ClosedAs, Outcome, ClosedRecord
<1>3. IsClosed(p', name, F)
  <2>1. Shape(p) /\ p.changes = 0
    BY DEF ProposalInv, ProposalOK
  <2> HIDE DEF F
  <2> QED
    BY <1>2, <2>1, ClosedFields
<1>4. /\ DOMAIN J \subseteq FollowKeys /\ IsFiniteSet(DOMAIN J)
      /\ \A k \in DOMAIN J : J[k] \in JobNames
      /\ \A j, k \in DOMAIN J : J[j] = J[k] => j = k
  BY DEF JobsOK, Table
<1>5. /\ Table(F, FollowKeys, Followups) /\ DOMAIN F = DOMAIN J
      /\ \A k \in DOMAIN J : F[k].job = J[k] /\ F[k].status = "pending"
  BY <1>4 DEF Table, FollowedUp, Followups, Statuses
<1>6. /\ WorkOK(W) /\ DOMAIN W = ran
      /\ \A k \in ran : W[k].job = J[k] /\ W[k].pc = "waiting"
  <2>1. \A k \in ran : /\ W[k] \in Items /\ ItemOK(k, W[k]) /\ W[k].job = J[k] /\ W[k].pc = "waiting"
    BY <1>4, KeysApart, ItemIsOK DEF JobNames
  <2>2. IsFiniteSet(ran)
    BY <1>4, FS_Subset
  <2> QED
    BY <1>4, <2>1, <2>2 DEF WorkOK, Table
<1>7. IsFiniteSet(asked) /\ Cardinality(asked) \in Nat /\ (asked = {} <=> Cardinality(asked) = 0)
  <2>1. asked \subseteq DOMAIN J
    OBVIOUS
  <2> HIDE DEF asked
  <2>2. IsFiniteSet(asked)
    BY <1>4, <2>1, FS_Subset
  <2> QED
    BY <2>2, FS_CardinalityType, FS_EmptySet
<1>8. J # Nothing => name = "applied"
  OBVIOUS
<1> HIDE DEF F, W, asked
<1>9. WorkOK(work') /\ IsBeside(work', W, w)
  BY <1>2, <1>6, BesideWork
<1>10. ProposalOK(p')
  <2>1. name # "applied" => F = Nothing
    BY <1>1, <1>4, <1>8 DEF F, Nothing
  <2>2. name # "open"
    BY DEF Closed
  <2>3. OneStands(F)
    BY <1>4, <1>5 DEF OneStands
  <2> QED
    BY <1>3, <1>5, <2>1, <2>2, <2>3 DEF ProposalOK, IsClosed
<1>11. delivery' = [delivery EXCEPT !.asks = Cardinality(asked)]
  BY <1>1, <1>2, <1>7
<1>12. asked # {} => name = "applied"
  BY <1>1, <1>8 DEF asked
<1>13. Matches(F, work')
  BY <1>1, <1>4, <1>5, <1>6, <1>9, KeysApart DEF Matches, IsBeside, asked
<1>14. CommentsOK(p', work', comments')
  BY <1>1 DEF CommentsOK
<1>15. DeliveryOK(p', delivery')
  BY <1>1, <1>3, <1>7, <1>11, <1>12, FS_EmptySet DEF ProposalInv, DeliveryOK, Ids, IsClosed
<1>16. RedeploysOK(F, delivery', mail', secret')
  BY <1>4, <1>5, <1>7, <1>11 DEF RedeploysOK, OnItsWay, asked, ProposalInv, DeliveryOK
<1> QED
  BY <1>3, <1>9, <1>10, <1>13, <1>14, <1>15, <1>16 DEF ProposalInv, CheckHeld, MailOK, IsClosed

-----------------------------------------------------------------------------
(* The transitions of an open proposal *)

LEMMA Finite ==
  ASSUME ProposalInv PROVE IsFiniteSet(DOMAIN work) /\ IsFiniteSet(DOMAIN p.followups)
BY DEF ProposalInv, ProposalOK, WorkOK, Table

LEMMA OutcomeKeeps ==
  ASSUME ProposalInv, p.state # "applied",
         NEW w, WorkOK(w), DOMAIN w \subseteq DOMAIN work,
         NEW q, q.check # None => q.check \in DOMAIN w,
         NEW o, Stays(q, o) \/ Closes(o), BecomesWith(o, w), UNCHANGED <<comments, mail, secret>>
  PROVE  ProposalInv'
<1>1. p' = o.p /\ work' = Beside(o.items, w) /\ delivery' = [delivery EXCEPT !.asks = @ + o.asks]
  BY DEF BecomesWith
<1>2. CASE Stays(q, o)
  BY <1>1, <1>2, StaysKeeps
<1>3. CASE Closes(o)
  BY <1>1, <1>3, ClosesKeeps
<1> QED
  BY <1>2, <1>3

LEMMA BecomesKeeps ==
  ASSUME ProposalInv, p.state # "applied", NEW q, Draft(q),
         NEW o, Stays(q, o) \/ Closes(o), Becomes(o), UNCHANGED <<comments, mail, secret>>
  PROVE  ProposalInv'
<1>1. WorkOK(work) /\ (q.check # None => q.check \in DOMAIN work) /\ BecomesWith(o, work)
  BY DEF ProposalInv, Draft, Becomes
<1> QED
  BY <1>1, OutcomeKeeps

\* What a row closed by something else makes of an outcome.
LEMMA WatchingForms ==
  ASSUME Shape(p), NEW q, NEW o, Stays(q, o) \/ Closes(o)
  PROVE  /\ Stays(q, Watching(o)) \/ Closes(Watching(o))
         /\ Watching(o).p.by = Group => Watching(o) = o
<1>1. Closes(EndOutside)
  BY EndsClose
<1>2. EndOutside.p = ClosedRecord("superseded", "outside", [k \in DOMAIN Nothing |-> FollowedUp(Nothing[k])])
  BY DEF EndOutside, ClosedAs, Outcome, ClosedRecord
<1>3. CASE Outside
  <2>1. Watching(o) = EndOutside
    BY <1>3 DEF Watching
  <2>2. EndOutside.p.by # Group
    BY <1>2 DEF ClosedRecord, Group, Shape
  <2> QED
    BY <1>1, <2>1, <2>2
<1>4. CASE ~Outside
  BY <1>4 DEF Watching
<1> QED
  BY <1>3, <1>4

LEMMA DraftOfOpen ==
  ASSUME ProposalInv, Open
  PROVE  /\ p.timer = TRUE /\ p.state # "applied" /\ Draft(p) /\ Draft([p EXCEPT !.timer = FALSE])
         /\ [p EXCEPT !.timer = FALSE].by = p.by
         /\ LET q == [p EXCEPT !.check = None, !.checked = TRUE]
            IN  Draft(q) /\ q.check = None /\ q.by = p.by /\ q.timer = TRUE /\ q.after = p.after
<1>1. /\ Shape(p) /\ p.state = "open" /\ p.followups = Nothing /\ p.changes = 0 /\ p.timer = TRUE
      /\ p.check # None => p.check \in DOMAIN work
  BY DEF ProposalInv, ProposalOK, CheckHeld, Open
<1> QED
  BY <1>1 DEF Shape, Draft

\* Each of them keeps the invariant; and where it decides for the group, the
\* gate it read let the proposal through.
ByGroup == p.by = Nobody /\ p'.by = Group

LEMMA FiledKeeps == ASSUME ProposalInv, Filed PROVE ProposalInv' /\ (ByGroup => Mergeable(Gate))
<1> DEFINE q == [p EXCEPT !.state = "open"]
           o == Decide(q, Gate, FALSE, TRUE)
<1>1. /\ Shape(p) /\ p.state = "none" /\ p.check = None /\ p.followups = Nothing /\ p.changes = 0
  BY DEF ProposalInv, ProposalOK, Filed
<1>2. Draft(q) /\ q.by = p.by
  BY <1>1 DEF Draft, Shape
<1>3. Becomes(o) /\ UNCHANGED <<comments, mail, secret>>
  BY DEF Filed, github
<1> HIDE DEF q
<1>4. (Stays(q, o) \/ Closes(o)) /\ (q.by = Nobody /\ o.p.by = Group => Mergeable(Gate))
  BY <1>2, Finite, DecideForms
<1> HIDE DEF o
<1>5. ProposalInv'
  BY <1>1, <1>2, <1>3, <1>4, BecomesKeeps
<1>6. p' = o.p
  BY <1>3 DEF Becomes, BecomesWith
<1> QED
  BY <1>2, <1>4, <1>5, <1>6 DEF ByGroup

LEMMA VoteKeeps ==
  ASSUME ProposalInv, NEW x, NEW side, VoteCast(x, side)
  PROVE  /\ ProposalInv'
         /\ ByGroup => ~Outside /\ Mergeable(WithVote(Gate, x, vote[x], IF vote[x] = side THEN "none" ELSE side))
<1> DEFINE now == IF vote[x] = side THEN "none" ELSE side
<1>1. Draft(p) /\ p.state # "applied" /\ Shape(p)
  BY DraftOfOpen DEF VoteCast, ProposalInv, ProposalOK
<1> PICK due \in Due : Becomes(Watching(Decide(p, WithVote(Gate, x, vote[x], now), FALSE, due)))
  BY DEF VoteCast
<1> DEFINE g == WithVote(Gate, x, vote[x], now)
           o == Decide(p, g, FALSE, due)
<1>2. Becomes(Watching(o)) /\ UNCHANGED <<comments, mail, secret>>
  BY DEF VoteCast, github
<1> HIDE DEF g
<1>3. (Stays(p, o) \/ Closes(o)) /\ (p.by = Nobody /\ o.p.by = Group => Mergeable(g))
  BY <1>1, Finite, DecideForms
<1> HIDE DEF o
<1> DEFINE v == Watching(o)
<1>4. (Stays(p, v) \/ Closes(v)) /\ (v.p.by = Group => v = o)
  BY <1>1, <1>3, WatchingForms
<1>5. Outside => v.p.by # Group
  <2>1. Outside => v = EndOutside
    BY DEF Watching
  <2>2. EndOutside.p = ClosedRecord("superseded", "outside", [k \in DOMAIN Nothing |-> FollowedUp(Nothing[k])])
    BY DEF EndOutside, ClosedAs, Outcome, ClosedRecord
  <2>3. EndOutside.p.by # Group
    BY <1>1, <2>2 DEF ClosedRecord, Shape, Group
  <2> QED
    BY <2>1, <2>3
<1> HIDE DEF v
<1>6. ProposalInv'
  BY <1>1, <1>2, <1>4, BecomesKeeps DEF v
<1>7. p' = v.p
  BY <1>2 DEF Becomes, BecomesWith, v
<1> QED
  BY <1>3, <1>4, <1>5, <1>6, <1>7 DEF ByGroup, g

LEMMA EvaluateKeeps == ASSUME ProposalInv, Evaluate PROVE ProposalInv' /\ (ByGroup => Mergeable(Gate))
<1> DEFINE q == [p EXCEPT !.timer = FALSE]
<1>1. Draft(q) /\ p.state # "applied" /\ q.by = p.by /\ Shape(p)
  BY DraftOfOpen DEF Evaluate, ProposalInv, ProposalOK
<1> PICK due \in Due : Becomes(Watching(Decide(q, Gate, FALSE, due)))
  BY DEF Evaluate
<1> DEFINE o == Decide(q, Gate, FALSE, due)
<1>2. Becomes(Watching(o)) /\ UNCHANGED <<comments, mail, secret>>
  BY DEF Evaluate, github
<1> HIDE DEF q
<1>3. (Stays(q, o) \/ Closes(o)) /\ (q.by = Nobody /\ o.p.by = Group => Mergeable(Gate))
  BY <1>1, Finite, DecideForms
<1> HIDE DEF o
<1> DEFINE v == Watching(o)
<1>4. (Stays(q, v) \/ Closes(v)) /\ (v.p.by = Group => v = o)
  BY <1>1, <1>3, WatchingForms
<1>5. p' = v.p
  BY <1>2 DEF Becomes, BecomesWith
<1>6. Becomes(v)
  BY <1>2
<1> HIDE DEF v
<1>7. ProposalInv'
  BY <1>1, <1>2, <1>4, <1>6, BecomesKeeps
<1> QED
  BY <1>1, <1>3, <1>4, <1>5, <1>7 DEF ByGroup

\* Nobody but the group's vote is the group.
LEMMA NotTheGroup ==
  ASSUME Shape(p)
  PROVE  /\ \A by \in Voters : Apply(by).p.by # Group
         /\ Supersede.p.by # Group /\ EndOutside.p.by # Group
         /\ ClosedAs("withdrawn", Author, Nothing).p.by # Group
<1>1. \A name, by, J : ClosedAs(name, by, J).p.by = by
  <2> SUFFICES ASSUME NEW name, NEW by, NEW J PROVE ClosedAs(name, by, J).p.by = by
    OBVIOUS
  <2> DEFINE F == [k \in DOMAIN J |-> FollowedUp(J[k])]
  <2>1. ClosedAs(name, by, J).p = ClosedRecord(name, by, F)
    BY DEF ClosedAs, Outcome, ClosedRecord
  <2> HIDE DEF F
  <2>2. ClosedRecord(name, by, F).by = by
    BY DEF ClosedRecord, Shape
  <2> QED
    BY <2>1, <2>2
<1>2. Group \notin Voters /\ Author \in Voters /\ Nobody # Group /\ "outside" # Group
  BY PeopleAssumption DEF Group, Nobody
<1> QED
  BY <1>1, <1>2 DEF Apply, Supersede, EndOutside

LEMMA AdminApplyKeeps == ASSUME ProposalInv, NEW x \in Admins, AdminApply(x) PROVE ProposalInv' /\ ~ByGroup
<1> DEFINE o == IF ChecksTarget THEN AwaitTarget(p, x) ELSE Apply(x)
<1>1. Draft(p) /\ p.state # "applied" /\ Shape(p)
  BY DraftOfOpen DEF AdminApply, ProposalInv, ProposalOK
<1>2. Becomes(Watching(o)) /\ UNCHANGED <<comments, mail, secret>>
  BY DEF AdminApply, github
<1>3. x \in Voters
  BY PeopleAssumption
<1>4. (Stays(p, o) \/ Closes(o)) /\ (o.p.by = Group => p.by = Group)
  <2>1. Stays(p, AwaitTarget(p, x)) /\ Closes(Apply(x)) /\ Apply(x).p.by # Group
    BY <1>1, <1>3, Finite, AwaitTargetStays, ApplyCloses, NotTheGroup
  <2> QED
    BY <2>1 DEF Stays
<1> HIDE DEF o
<1> DEFINE v == Watching(o)
<1>5. (Stays(p, v) \/ Closes(v)) /\ (v.p.by = Group => v = o)
  BY <1>1, <1>4, WatchingForms
<1>6. p' = v.p
  BY <1>2 DEF Becomes, BecomesWith
<1>7. Becomes(v)
  BY <1>2
<1> HIDE DEF v
<1>8. ProposalInv'
  BY <1>1, <1>2, <1>5, <1>7, BecomesKeeps
<1> QED
  BY <1>4, <1>5, <1>6, <1>8 DEF ByGroup, Nobody, Group

LEMMA WithdrawKeeps == ASSUME ProposalInv, Withdraw PROVE ProposalInv' /\ ~ByGroup
<1> DEFINE o == ClosedAs("withdrawn", Author, Nothing)
           v == Watching(o)
<1>1. Draft(p) /\ p.state # "applied" /\ Shape(p)
  BY DraftOfOpen DEF Withdraw, ProposalInv, ProposalOK
<1>2. Becomes(v) /\ UNCHANGED <<comments, mail, secret>>
  BY DEF Withdraw, github
<1>3. Closes(o) /\ o.p.by # Group
  BY <1>1, EndsClose, NotTheGroup
<1> HIDE DEF o
<1>4. (Stays(p, v) \/ Closes(v)) /\ (v.p.by = Group => v = o)
  BY <1>1, <1>3, WatchingForms
<1>5. p' = v.p
  BY <1>2 DEF Becomes, BecomesWith
<1> HIDE DEF v
<1>6. ProposalInv'
  BY <1>1, <1>2, <1>4, BecomesKeeps
<1> QED
  BY <1>3, <1>4, <1>5, <1>6 DEF ByGroup

LEMMA TargetClosedKeeps == ASSUME ProposalInv, TargetClosed PROVE ProposalInv' /\ ~ByGroup
<1> DEFINE v == Watching(Supersede)
<1>1. Shape(p)
  BY DEF ProposalInv, ProposalOK
<1>2. UNCHANGED <<comments, mail, secret>>
  BY DEF TargetClosed
<1>3. CASE Open /\ Becomes(v)
  <2>1. Draft(p) /\ p.state # "applied"
    BY <1>3, DraftOfOpen
  <2>2. (Stays(p, v) \/ Closes(v)) /\ (v.p.by = Group => v = Supersede)
    BY <1>1, EndsClose, WatchingForms
  <2>3. p' = v.p
    BY <1>3 DEF Becomes, BecomesWith
  <2>4. v.p.by # Group
    BY <1>1, <2>2, NotTheGroup
  <2> HIDE DEF v
  <2>5. ProposalInv'
    BY <1>2, <1>3, <2>1, <2>2, BecomesKeeps
  <2> QED
    BY <2>3, <2>4, <2>5 DEF ByGroup
<1>4. CASE UNCHANGED <<p, row, work, delivery>>
  BY <1>2, <1>4 DEF ProposalInv, ByGroup, Nobody, Group
<1> QED
  BY <1>3, <1>4 DEF TargetClosed

\* The target check's answer: it settles what waited for it.
LEMMA AnsweredForms ==
  ASSUME ProposalInv, Open, NEW says,
         NEW q, q = [p EXCEPT !.check = None, !.checked = TRUE]
  PROVE  /\ Stays(q, Answered(says)) \/ Closes(Answered(says))
         /\ ByGroup /\ p' = Answered(says).p => Mergeable(Gate)
<1> DEFINE o == Decide(q, Gate, TRUE, FALSE)
<1>1. Shape(p) /\ Draft(q) /\ q.check = None /\ q.by = p.by /\ q.timer = TRUE /\ q.after = p.after
  BY DraftOfOpen DEF ProposalInv, ProposalOK
<1>2. (Stays(q, o) \/ Closes(o)) /\ (q.by = Nobody /\ o.p.by = Group => Mergeable(Gate))
  BY <1>1, Finite, DecideForms
<1>3. p.after = NoOne => Stays(q, Outcome(q, Nothing, 0))
  BY <1>1 DEF Draft, Stays, Outcome
<1>4. p.after \in Voters => Closes(Apply(p.after)) /\ Apply(p.after).p.by # Group
  BY <1>1, ApplyCloses, NotTheGroup
<1>5. Closes(Supersede) /\ Supersede.p.by # Group
  BY <1>1, EndsClose, NotTheGroup
<1>6. \/ Answered(says) = Supersede
      \/ p.after = NoOne /\ Answered(says) = Outcome(q, Nothing, 0)
      \/ p.after \in Voters /\ Answered(says) = Apply(p.after)
      \/ Answered(says) = o
  BY DEF Answered
<1> HIDE DEF o
<1>7. Outcome(q, Nothing, 0).p = q
  BY DEF Outcome
<1>8. Nobody # Group
  BY DEF Nobody, Group
<1> DEFINE a == Answered(says)
<1>9. CASE a = Supersede
  BY <1>5, <1>9 DEF ByGroup
<1>10. CASE p.after = NoOne /\ a = Outcome(q, Nothing, 0)
  BY <1>1, <1>3, <1>7, <1>8, <1>10 DEF ByGroup
<1>11. CASE p.after \in Voters /\ a = Apply(p.after)
  BY <1>4, <1>11 DEF ByGroup
<1>12. CASE a = o
  BY <1>1, <1>2, <1>12 DEF ByGroup
<1> HIDE DEF a
<1> QED
  BY <1>6, <1>9, <1>10, <1>11, <1>12 DEF a

LEMMA CheckResultKeeps ==
  ASSUME ProposalInv, NEW k, CheckResult(k)
  PROVE  ProposalInv' /\ (ByGroup => Mergeable(Gate))
<1> DEFINE w == [j \in DOMAIN work \ {k} |-> work[j]]
           q == [p EXCEPT !.check = None, !.checked = TRUE]
<1>1. WorkOK(w) /\ DOMAIN w = DOMAIN work \ {k} /\ (\A j \in DOMAIN w : w[j] = work[j])
  <2>1. Table(work, CheckKeys \cup FollowKeys, Items) /\ \A j \in DOMAIN work : ItemOK(j, work[j])
    BY DEF ProposalInv, WorkOK
  <2>2. Table(w, CheckKeys \cup FollowKeys, Items) /\ DOMAIN w = DOMAIN work \ {k}
        /\ \A j \in DOMAIN w : w[j] = work[j]
    BY <2>1, RemovedTable
  <2> HIDE DEF w
  <2> QED
    BY <2>1, <2>2 DEF WorkOK
<1>2. UNCHANGED <<comments, mail, secret>>
  BY DEF CheckResult, github
<1>3. CASE Open /\ (Outside \/ p.check = k) /\ BecomesWith(Watching(Answered(work[k].says)), w)
  <2> DEFINE o == Answered(work[k].says)
             v == Watching(o)
  <2>1. Shape(p) /\ p.state # "applied" /\ q.check = None
    BY <1>3, DraftOfOpen DEF ProposalInv, ProposalOK
  <2>2. /\ Stays(q, o) \/ Closes(o)
        /\ ByGroup /\ p' = o.p => Mergeable(Gate)
    BY <1>3, AnsweredForms
  <2>3. (Stays(q, v) \/ Closes(v)) /\ (v.p.by = Group => v = o)
    <3> HIDE DEF o, q
    <3> QED
      BY <2>1, <2>2, WatchingForms
  <2>4. BecomesWith(v, w)
    BY <1>3
  <2> HIDE DEF o, v, w, q
  <2>5. ProposalInv'
    BY <1>1, <1>2, <2>1, <2>3, <2>4, OutcomeKeeps
  <2>6. p' = v.p
    BY <2>4 DEF BecomesWith
  <2> QED
    BY <2>2, <2>3, <2>5, <2>6 DEF ByGroup
<1>4. CASE ~(Open /\ (Outside \/ p.check = k)) /\ BecomesWith(Outcome(p, Nothing, 0), w)
  <2>1. p' = p /\ work' = Beside(Nothing, w) /\ delivery' = delivery
    <3>1. delivery.asks + 0 = delivery.asks
      BY DEF ProposalInv, DeliveryOK
    <3>2. [delivery EXCEPT !.asks = delivery.asks] = delivery
      BY DEF ProposalInv, DeliveryOK
    <3> HIDE DEF w
    <3> QED
      BY <1>4, <3>1, <3>2 DEF BecomesWith, Outcome
  <2>2. work' = w
    BY <1>1, <2>1, NothingTable DEF Beside
  <2>3. k \in CheckKeys /\ (p.check # None => p.check # k) /\ k \in DOMAIN work /\ work[k].job = "check"
    <3>1. k \in DOMAIN work /\ work[k].job = "check" /\ ItemOK(k, work[k])
      BY DEF CheckResult, ProposalInv, WorkOK
    <3>2. p.check # None => Open
      BY DEF ProposalInv, ProposalOK, Open
    <3> QED
      BY <1>4, <3>1, <3>2 DEF ItemOK
  <2> HIDE DEF w
  <2>4. \A j \in DOMAIN p.followups : j # k
    BY <2>3, KeysApart DEF ProposalInv, ProposalOK, Table
  <2>5. Matches(p.followups, work')
    BY <1>1, <2>2, <2>4 DEF ProposalInv, Matches
  <2>6. CommentsOK(p, work', comments)
    <3>1. \A j \in DOMAIN p.followups : p.followups[j].job = "github" => work'[j] = work[j]
      BY <1>1, <2>2, <2>4 DEF ProposalInv, Matches
    <3> QED
      BY <3>1 DEF ProposalInv, CommentsOK
  <2> QED
    BY <1>1, <1>2, <2>1, <2>2, <2>3, <2>5, <2>6 DEF ProposalInv, CheckHeld, ByGroup, Nobody, Group
<1> QED
  BY <1>3, <1>4 DEF CheckResult

-----------------------------------------------------------------------------
(* The transitions of a closed one *)

\* One follow-up gets another status.
Restated(q, k, s) ==
  /\ q.state = p.state /\ q.check = p.check /\ q.by = p.by
  /\ DOMAIN q.followups = DOMAIN p.followups
  /\ q.followups[k].job = p.followups[k].job /\ q.followups[k].status = s
  /\ \A j \in DOMAIN p.followups : j # k => q.followups[j] = p.followups[j]

LEMMA StatusChanges ==
  ASSUME ProposalOK(p), NEW k \in DOMAIN p.followups, p.followups[k].status # "retried",
         NEW s \in Statuses
  PROVE  LET q == [p EXCEPT !.followups[k].status = s] IN ProposalOK(q) /\ Restated(q, k, s)
<1> DEFINE f == p.followups
           x == [f[k] EXCEPT !.status = s]
           g == [f EXCEPT ![k] = x]
           q == [p EXCEPT !.followups = g]
<1>1. Shape(p) /\ Table(f, FollowKeys, Followups) /\ OneStands(f) /\ f[k] \in Followups
  BY DEF ProposalOK, Table
<1>2. x \in Followups /\ x.job = f[k].job /\ x.status = s
  BY <1>1 DEF Followups
<1>3. [p EXCEPT !.followups[k].status = s] = q
  OBVIOUS
<1> HIDE DEF x
<1>4. /\ Table(g, FollowKeys, Followups) /\ DOMAIN g = DOMAIN f /\ g[k] = x
      /\ \A j \in DOMAIN f : j # k => g[j] = f[j]
  BY <1>1, <1>2, ChangedTable
<1> HIDE DEF g
<1>5. OneStands(g)
  BY <1>1, <1>2, <1>4 DEF OneStands
<1>6. /\ Shape(q) /\ q.state = p.state /\ q.check = p.check /\ q.by = p.by /\ q.followups = g
      /\ q.timer = p.timer /\ q.after = p.after /\ q.changes = p.changes
  BY <1>1 DEF Shape
<1>7. p.state = "applied"
  <2>1. DOMAIN f # {} /\ DOMAIN Nothing = {}
    BY NothingTable
  <2> QED
    BY <2>1 DEF ProposalOK
<1> HIDE DEF q
<1>8. ProposalOK(q)
  BY <1>4, <1>5, <1>6, <1>7 DEF ProposalOK
<1>9. Restated(q, k, s)
  BY <1>2, <1>4, <1>6 DEF Restated
<1> QED
  BY <1>3, <1>8, <1>9

LEMMA ReportedItem ==
  ASSUME NEW it \in Items
  PROVE  LET x == [it EXCEPT !.pc = "reported", !.says = "none", !.tries = 0]
         IN  x \in Items /\ x.job = it.job /\ x.at = it.at /\ x.pc = "reported"
<1>1. 0 \in 0..Tries
  BY BoundsAssumption
<1> QED
  BY <1>1 DEF Items

LEMMA FollowupResultKeeps ==
  ASSUME ProposalInv, NEW k, FollowupResult(k)
  PROVE  ProposalInv' /\ ~ByGroup
<1> DEFINE x == [work[k] EXCEPT !.pc = "reported", !.says = "none", !.tries = 0]
           s == work[k].says
<1>1. k \in DOMAIN work /\ work[k] \in Items /\ ItemOK(k, work[k]) /\ work[k].job # "check" /\ work[k].pc = "answered"
  BY DEF FollowupResult, ProposalInv, WorkOK, Table
<1>2. /\ k \notin CheckKeys /\ k \in DOMAIN p.followups /\ s \in {"done", "failed", "exhausted"}
      /\ p.followups[k].job # "delivery" /\ p.followups[k].job = work[k].job
      /\ p.followups[k].status = "pending"
  BY <1>1 DEF ProposalInv, Matches, ItemOK
<1>3. work' = [work EXCEPT ![k] = x] /\ p' = [p EXCEPT !.followups[k].status = s]
  BY <1>2 DEF FollowupResult
<1>4. ProposalOK(p') /\ Restated(p', k, s)
  <2>1. s \in Statuses /\ ProposalOK(p)
    BY <1>2 DEF Statuses, ProposalInv
  <2> HIDE DEF s
  <2> QED
    BY <1>2, <1>3, <2>1, StatusChanges
<1>5. /\ x \in Items /\ ItemOK(k, x) /\ x.job = work[k].job /\ x.at = work[k].at /\ x.pc = "reported"
  <2>1. x \in Items /\ x.job = work[k].job /\ x.at = work[k].at /\ x.pc = "reported"
    BY <1>1, ReportedItem
  <2> HIDE DEF x
  <2> QED
    BY <1>1, <2>1 DEF ItemOK
<1> HIDE DEF x
<1>6. /\ WorkOK(work') /\ DOMAIN work' = DOMAIN work /\ work'[k] = x
      /\ \A j \in DOMAIN work : j # k => work'[j] = work[j]
  <2>1. Table(work, CheckKeys \cup FollowKeys, Items)
    BY DEF ProposalInv, WorkOK
  <2>2. /\ Table(work', CheckKeys \cup FollowKeys, Items) /\ DOMAIN work' = DOMAIN work /\ work'[k] = x
        /\ \A j \in DOMAIN work : j # k => work'[j] = work[j]
    BY <1>1, <1>3, <1>5, <2>1, ChangedTable
  <2> QED
    BY <1>5, <2>2 DEF ProposalInv, WorkOK
<1>7. UNCHANGED <<comments, delivery, mail, secret>>
  BY DEF FollowupResult, github
<1>8. Matches(p'.followups, work')
  BY <1>2, <1>4, <1>5, <1>6 DEF Matches, Restated, ProposalInv
<1>9. CommentsOK(p', work', comments')
  <2>1. \A j \in DOMAIN p.followups : p.followups[j].job = "github" => j \in DOMAIN work
    BY DEF ProposalInv, Matches
  <2> QED
    BY <1>2, <1>4, <1>5, <1>6, <1>7, <2>1 DEF CommentsOK, Restated, ProposalInv
<1>10. RedeploysOK(p'.followups, delivery', mail', secret')
  BY <1>2, <1>4, <1>7 DEF RedeploysOK, Restated, ProposalInv, OnItsWay
<1>11. CheckHeld(p', work') /\ DeliveryOK(p', delivery') /\ MailOK(mail', secret')
  BY <1>4, <1>6, <1>7 DEF ProposalInv, CheckHeld, Restated, DeliveryOK, MailOK
<1> QED
  BY <1>4, <1>6, <1>8, <1>9, <1>10, <1>11 DEF ProposalInv, Restated, ByGroup, Nobody, Group

\* The only redeploy that is asked for and not served.
LEMMA AskedIsOne ==
  ASSUME ProposalInv, AskedKeys # {}
  PROVE  AskedKeys = {AskedKey} /\ AskedKey \in DOMAIN p.followups
<1>1. \A j, k \in AskedKeys : j = k
  BY DEF AskedKeys, ProposalInv, ProposalOK, OneStands
<1>2. \A k \in AskedKeys : k \in DOMAIN p.followups /\ k[2] \in Nat
  BY DEF AskedKeys, ProposalInv, ProposalOK, Table, FollowKeys
<1>3. \E k \in AskedKeys : \A j \in AskedKeys : j[2] <= k[2]
  BY <1>1, <1>2
<1>4. AskedKey \in AskedKeys
  BY <1>3 DEF AskedKey
<1> QED
  BY <1>1, <1>2, <1>4

LEMMA TailIsMail ==
  ASSUME NEW m, NEW ran, MailOK(m, ran), m # <<>>
  PROVE  MailOK(Tail(m), ran) /\ Head(m) \in {"Delivered", "DeliveryFailed"}
         /\ (Head(m) = "Delivered" => ran)
<1>1. m \in Seq({"Delivered", "DeliveryFailed"}) /\ Len(m) \in Nat /\ Len(m) >= 1
  BY EmptySeq DEF MailOK
<1>2. /\ Tail(m) \in Seq({"Delivered", "DeliveryFailed"}) /\ Len(Tail(m)) = Len(m) - 1
      /\ \A i \in 1..Len(m)-1 : Tail(m)[i] = m[i + 1]
  BY <1>1
<1>3. Head(m) = m[1] /\ m[1] \in {"Delivered", "DeliveryFailed"}
  BY <1>1
<1> QED
  BY <1>1, <1>2, <1>3 DEF MailOK

LEMMA DeliveryAnswerKeeps == ASSUME ProposalInv, DeliveryAnswer PROVE ProposalInv' /\ ~ByGroup
<1> DEFINE s == IF Head(mail) = "Delivered" THEN "done" ELSE "failed"
<1>1. MailOK(mail', secret') /\ (Head(mail) = "Delivered" => secret) /\ UNCHANGED <<comments, work, delivery, secret>>
  BY TailIsMail DEF ProposalInv, DeliveryAnswer, github
<1>2. CASE AskedKeys = {}
  <2>1. p' = p
    BY <1>2 DEF DeliveryAnswer
  <2>2. RedeploysOK(p.followups, delivery, mail', secret)
    BY <1>2 DEF RedeploysOK, AskedKeys, ProposalInv
  <2> QED
    BY <1>1, <2>1, <2>2 DEF ProposalInv, ByGroup, Nobody, Group
<1>3. CASE AskedKeys # {}
  <2> DEFINE k == AskedKey
  <2>1. AskedKeys = {k} /\ k \in DOMAIN p.followups
    BY <1>3, AskedIsOne
  <2>2. k \in AskedKeys /\ p.followups[k].job = "delivery" /\ p.followups[k].status # "retried"
    BY <2>1 DEF AskedKeys
  <2>3. p' = [p EXCEPT !.followups[k].status = s] /\ s \in Statuses
    BY <1>3 DEF DeliveryAnswer, Statuses
  <2>4. ProposalOK(p') /\ Restated(p', k, s)
    <3>1. ProposalOK(p)
      BY DEF ProposalInv
    <3> HIDE DEF s, k
    <3> QED
      BY <2>1, <2>2, <2>3, <3>1, StatusChanges
  <2> HIDE DEF k
  <2>5. RedeploysOK(p'.followups, delivery', mail', secret')
    <3>1. \A j \in DOMAIN p.followups : p.followups[j].job = "delivery" /\ p.followups[j].status = "pending" => j = k
      BY <2>1 DEF AskedKeys
    <3> QED
      BY <1>1, <2>2, <2>4, <3>1 DEF RedeploysOK, Restated, ProposalInv
  <2>6. Matches(p'.followups, work')
    BY <1>1, <2>2, <2>4 DEF Matches, Restated, ProposalInv
  <2>7. CommentsOK(p', work', comments')
    BY <1>1, <2>2, <2>4 DEF CommentsOK, Restated, ProposalInv
  <2>8. CheckHeld(p', work') /\ DeliveryOK(p', delivery') /\ WorkOK(work')
    BY <1>1, <2>4 DEF ProposalInv, CheckHeld, Restated, DeliveryOK
  <2> QED
    BY <1>1, <2>4, <2>5, <2>6, <2>7, <2>8 DEF ProposalInv, Restated, ByGroup, Nobody, Group
<1> QED
  BY <1>2, <1>3

\* A retried follow-up stands no longer, and another of its job does, which is
\* given the work anew from where it had got to, or asks app-delivery again.
LEMMA RetryKeeps ==
  ASSUME ProposalInv, NEW k, RetryFollowup(k)
  PROVE  ProposalInv' /\ ~ByGroup
<1> DEFINE f == p.followups
           key == Fresh(k[1])
           job == f[k].job
           new == FollowedUp(job)
           old == [f[k] EXCEPT !.status = "retried"]
           g == [f EXCEPT ![k] = old]
           h == Beside(At(key, new), g)
           i == Resumed(k)
<1>1. /\ k \in DOMAIN f /\ f[k].status \in {"failed", "exhausted"} /\ Shape(p)
      /\ Table(f, FollowKeys, Followups) /\ f[k] \in Followups /\ OneStands(f)
  BY DEF RetryFollowup, ProposalInv, ProposalOK, Table
<1>2. key \in FollowKeys /\ key \notin DOMAIN work /\ key \notin DOMAIN f /\ key \notin CheckKeys
  <2>1. k \in FollowKeys
    BY <1>1 DEF Table
  <2>2. key \in {k[1]} \X Nat /\ key \notin DOMAIN work /\ key \notin DOMAIN f
    BY Finite, FreshKey
  <2>3. k[1] \in {"target", "bot", "rebuild"}
    BY <2>1 DEF FollowKeys
  <2> HIDE DEF key
  <2>4. key \in FollowKeys
    BY <2>2, <2>3 DEF FollowKeys
  <2> QED
    BY <2>2, <2>4, KeysApart
<1>3. /\ new \in Followups /\ new.job = job /\ new.status = "pending"
      /\ old \in Followups /\ old.job = job /\ old.status = "retried" /\ job \in JobNames
  BY <1>1 DEF FollowedUp, Followups, Statuses
<1>4. p.state = "applied"
  <2>1. DOMAIN f # {} /\ DOMAIN Nothing = {}
    BY <1>1, NothingTable
  <2> QED
    BY <2>1 DEF ProposalInv, ProposalOK
<1>5. /\ p' = [p EXCEPT !.followups = h]
      /\ IF job = "delivery" THEN delivery' = [delivery EXCEPT !.asks = @ + 1] /\ UNCHANGED work
         ELSE work' = Beside(At(key, i), work) /\ UNCHANGED delivery
      /\ UNCHANGED <<comments, mail, secret>>
  BY DEF RetryFollowup, github
<1>6. /\ Table(h, FollowKeys, Followups) /\ DOMAIN h = DOMAIN f \cup {key} /\ h[key] = new /\ h[k] = old
      /\ \A j \in DOMAIN f : j # k => h[j] = f[j]
  <2> DEFINE a == At(key, new)
  <2> HIDE DEF key, new, old
  <2>1. /\ Table(g, FollowKeys, Followups) /\ DOMAIN g = DOMAIN f /\ g[k] = old
        /\ \A j \in DOMAIN f : j # k => g[j] = f[j]
    <3>1. Table(f, FollowKeys, Followups) /\ k \in DOMAIN f /\ old \in Followups
      BY <1>1, <1>3
    <3> HIDE DEF f
    <3> QED
      BY <3>1, ChangedTable
  <2>2. Table(a, FollowKeys, Followups) /\ DOMAIN a = {key} /\ a[key] = new
    <3>1. key \in FollowKeys /\ new \in Followups
      BY <1>2, <1>3
    <3> QED
      BY <3>1, AtTable
  <2>3. h = Beside(a, g)
    OBVIOUS
  <2> HIDE DEF g, a, h
  <2>4. Table(h, FollowKeys, Followups) /\ IsBeside(h, a, g)
    BY <2>1, <2>2, <2>3, BesideTable
  <2> QED
    BY <1>1, <1>2, <2>1, <2>2, <2>4 DEF IsBeside
<1> HIDE DEF new, old, g, h
<1>7. OneStands(h)
  BY <1>1, <1>2, <1>3, <1>6 DEF OneStands
<1>8. /\ Shape(p') /\ p'.state = p.state /\ p'.check = p.check /\ p'.by = p.by /\ p'.followups = h
      /\ p'.timer = p.timer /\ p'.after = p.after /\ p'.changes = p.changes
  BY <1>1, <1>5 DEF Shape
<1>9. ProposalOK(p')
  BY <1>4, <1>6, <1>7, <1>8 DEF ProposalInv, ProposalOK
<1> HIDE DEF key
<1>10. CASE job = "delivery"
  <2>1. /\ work' = work /\ delivery.asks \in Nat /\ DeliveryOK(p', delivery') /\ delivery'.asks > 0
    BY <1>4, <1>5, <1>8, <1>10 DEF ProposalInv, DeliveryOK, Ids
  <2>2. Matches(h, work)
    BY <1>1, <1>2, <1>3, <1>6, <1>10 DEF ProposalInv, Matches
  <2>3. CommentsOK(p', work, comments)
    BY <1>1, <1>2, <1>3, <1>6, <1>8, <1>10 DEF ProposalInv, CommentsOK
  <2>4. RedeploysOK(h, delivery', mail, secret)
    BY <1>2, <1>3, <1>6, <2>1 DEF ProposalInv, RedeploysOK, OnItsWay
  <2> QED
    BY <1>5, <1>8, <1>9, <2>1, <2>2, <2>3, <2>4 DEF ProposalInv, CheckHeld, MailOK, ByGroup, Nobody, Group
<1>11. CASE job # "delivery"
  <2>1. delivery' = delivery /\ work' = Beside(At(key, i), work)
    BY <1>5, <1>11
  <2>2. k \in DOMAIN work /\ work[k].job = job /\ work[k] \in Items
    BY <1>1, <1>11 DEF ProposalInv, Matches, WorkOK, Table
  <2>3. /\ i \in Items /\ ItemOK(key, i) /\ i.job = job /\ i.pc = "waiting" /\ i.at = work[k].at
    <3>1. i = Item(job, work[k].at) /\ work[k].at \in {"none", "closed", "commenting"}
          /\ job \in {"check", "github", "bot"} /\ job # "check"
      BY <1>3, <1>11, <2>2 DEF Resumed, Items, JobNames
    <3> HIDE DEF job, i
    <3> QED
      BY <1>2, <3>1, ItemIsOK
  <2> HIDE DEF i, job
  <2> DEFINE a == At(key, i)
  <2>4. WorkOK(a) /\ DOMAIN a = {key} /\ a[key] = i
    <3>1. Table(a, CheckKeys \cup FollowKeys, Items) /\ DOMAIN a = {key} /\ a[key] = i
      <4>1. key \in CheckKeys \cup FollowKeys /\ i \in Items
        BY <1>2, <2>3
      <4> QED
        BY <4>1, AtTable
    <3> HIDE DEF a
    <3> QED
      BY <2>3, <3>1 DEF WorkOK
  <2> HIDE DEF a
  <2>5. WorkOK(work') /\ IsBeside(work', a, work)
    BY <2>1, <2>4, BesideWork DEF ProposalInv, a
  <2>6. DOMAIN work' = DOMAIN work \cup {key} /\ work'[key] = i /\ \A j \in DOMAIN work : work'[j] = work[j]
    BY <1>2, <2>4, <2>5 DEF IsBeside
  <2>7. Matches(h, work')
    <3>1. \A j \in DOMAIN work' : j \notin CheckKeys => j \in DOMAIN h
      BY <1>6, <2>6 DEF ProposalInv, Matches
    <3>2. ASSUME NEW j \in DOMAIN f, j # k
          PROVE  IF h[j].job = "delivery" THEN j \notin DOMAIN work'
                 ELSE /\ j \in DOMAIN work' /\ work'[j].job = h[j].job
                      /\ h[j].status = "pending" <=> work'[j].pc # "reported"
      BY <1>2, <1>6, <2>6, <3>2 DEF ProposalInv, Matches
    <3>3. job # "delivery" /\ f[k].status # "pending" /\ f[k].job = job
      BY <1>1, <1>11 DEF job
    <3>4. work'[k].job = h[k].job /\ k \in DOMAIN work' /\ h[k].job = job
          /\ h[k].status # "pending" /\ work'[k].pc = "reported"
      BY <1>1, <1>3, <1>6, <2>2, <2>6, <3>3 DEF ProposalInv, Matches
    <3>5. h[key].job = job /\ h[key].status = "pending" /\ key \in DOMAIN work' /\ work'[key].job = job
          /\ work'[key].pc # "reported"
      BY <1>3, <1>6, <2>3, <2>6
    <3> QED
      BY <1>6, <3>1, <3>2, <3>3, <3>4, <3>5 DEF Matches
  <2>8. CommentsOK(p', work', comments)
    <3>1. \A j \in DOMAIN f : f[j].job = "github" => j \in DOMAIN work
      BY DEF ProposalInv, Matches
    <3>2. f[k].job = job /\ f[k].status # "retried"
      BY <1>1 DEF job
    <3> QED
      BY <1>1, <1>2, <1>3, <1>6, <1>8, <2>3, <2>6, <3>1, <3>2 DEF ProposalInv, CommentsOK
  <2>9. RedeploysOK(h, delivery, mail, secret)
    BY <1>2, <1>3, <1>6, <1>11 DEF ProposalInv, RedeploysOK, job
  <2> QED
    BY <1>5, <1>8, <1>9, <2>1, <2>5, <2>6, <2>7, <2>8, <2>9
       DEF ProposalInv, CheckHeld, MailOK, DeliveryOK, ByGroup, Nobody, Group
<1> QED
  BY <1>10, <1>11

-----------------------------------------------------------------------------
(* The work handlers *)

\* One item changes, and has not reported.
LEMMA ItemChanges ==
  ASSUME ProposalInv, NEW k \in DOMAIN work, work[k].pc # "reported",
         NEW x \in Items, ItemOK(k, x), x.job = work[k].job, x.pc # "reported",
         work' = [work EXCEPT ![k] = x], UNCHANGED <<p, delivery, mail, secret>>
  PROVE  /\ CommentsOK(p, work', comments') => ProposalInv'
         /\ DOMAIN work' = DOMAIN work /\ work'[k] = x /\ \A j \in DOMAIN work : j # k => work'[j] = work[j]
<1>1. /\ Table(work', CheckKeys \cup FollowKeys, Items) /\ DOMAIN work' = DOMAIN work /\ work'[k] = x
      /\ \A j \in DOMAIN work : j # k => work'[j] = work[j]
  <2>1. Table(work, CheckKeys \cup FollowKeys, Items)
    BY DEF ProposalInv, WorkOK
  <2> QED
    BY <2>1, ChangedTable
<1>2. WorkOK(work')
  BY <1>1 DEF ProposalInv, WorkOK
<1>3. Matches(p.followups, work')
  BY <1>1 DEF ProposalInv, Matches
<1>4. CheckHeld(p, work')
  BY <1>1 DEF ProposalInv, CheckHeld
<1> QED
  BY <1>1, <1>2, <1>3, <1>4 DEF ProposalInv

\* The same, no comment being made.
LEMMA QuietItemChanges ==
  ASSUME ProposalInv, NEW k \in DOMAIN work, work[k].pc # "reported",
         NEW x \in Items, ItemOK(k, x), x.job = work[k].job, x.pc # "reported",
         work' = [work EXCEPT ![k] = x], UNCHANGED <<p, delivery, mail, secret, comments>>,
         comments = 1 /\ work[k].at = "commenting" => x.at = "commenting" /\ x.pc # "posting"
  PROVE  ProposalInv'
<1>1. DOMAIN work' = DOMAIN work /\ work'[k] = x /\ \A j \in DOMAIN work : j # k => work'[j] = work[j]
  BY ItemChanges
<1>2. \A j \in DOMAIN p.followups : p.followups[j].job = "github" => j \in DOMAIN work
  BY DEF ProposalInv, Matches
<1>3. CommentsOK(p, work', comments')
  BY <1>1, <1>2 DEF ProposalInv, CommentsOK
<1> QED
  BY <1>3, ItemChanges

LEMMA SaidItem ==
  ASSUME NEW it \in Items, NEW what \in {"open", "closed", "done", "failed", "exhausted"}
  PROVE  LET x == [it EXCEPT !.pc = "answered", !.says = what]
         IN  x \in Items /\ x.job = it.job /\ x.at = it.at /\ x.pc = "answered" /\ x.says = what
BY DEF Items

LEMMA SaysOf ==
  ASSUME ProposalInv, NEW k \in DOMAIN work, NEW what, Says(k, what)
  PROVE  work' = [work EXCEPT ![k] = [work[k] EXCEPT !.pc = "answered", !.says = what]]
<1>1. work[k] \in Items
  BY DEF ProposalInv, WorkOK, Table
<1> QED
  BY <1>1 DEF Says, Items

LEMMA LostItem ==
  ASSUME NEW it \in Items, it.tries # 0
  PROVE  /\ Lost(it) \in Items /\ Lost(it).job = it.job /\ Lost(it).at = it.at
         /\ Lost(it).pc \in {"answered", "waiting"}
         /\ Lost(it).pc = "answered" => Lost(it).says = "exhausted"
         /\ Lost(it).pc = "waiting" => Lost(it).tries # 0
<1>1. it.tries \in 0..Tries /\ Tries \in Nat
  BY BoundsAssumption DEF Items
<1>2. CASE it.tries = 1
  <2>1. 0 \in 0..Tries
    BY <1>1
  <2> QED
    BY <1>2, <2>1 DEF Lost, Items
<1>3. CASE it.tries # 1
  <2> DEFINE n == it.tries - 1
  <2>1. n \in 0..Tries /\ n # 0
    BY <1>1, <1>3
  <2>2. Lost(it) = [it EXCEPT !.tries = n, !.pc = "waiting"]
    BY <1>3 DEF Lost
  <2> HIDE DEF n
  <2> QED
    BY <2>1, <2>2 DEF Items
<1> QED
  BY <1>2, <1>3

\* What an attempt's loss, or its answer, leaves of its item.
LEMMA LossKeeps ==
  ASSUME ProposalInv, NEW k \in DOMAIN work, work[k].pc \in {"waiting", "posting"}, work[k].tries # 0
  PROVE  /\ Lost(work[k]) \in Items /\ ItemOK(k, Lost(work[k])) /\ Lost(work[k]).job = work[k].job
         /\ Lost(work[k]).at = work[k].at /\ Lost(work[k]).pc \in {"answered", "waiting"}
<1>1. work[k] \in Items /\ ItemOK(k, work[k])
  BY DEF ProposalInv, WorkOK, Table
<1> DEFINE x == Lost(work[k])
<1>2. /\ x \in Items /\ x.job = work[k].job /\ x.at = work[k].at
      /\ x.pc \in {"answered", "waiting"}
      /\ x.pc = "answered" => x.says = "exhausted"
      /\ x.pc = "waiting" => x.tries # 0
  BY <1>1, LostItem
<1> HIDE DEF x
<1>3. ItemOK(k, x)
  BY <1>1, <1>2 DEF ItemOK
<1> QED
  BY <1>2, <1>3 DEF x

LEMMA SayingKeeps ==
  ASSUME ProposalInv, NEW k \in DOMAIN work, NEW what \in {"open", "closed", "done", "failed", "exhausted"},
         work[k].job = "check" \/ what \in {"done", "failed", "exhausted"}, Says(k, what)
  PROVE  \E x \in Items :
           /\ work' = [work EXCEPT ![k] = x] /\ ItemOK(k, x) /\ x.job = work[k].job
           /\ x.at = work[k].at /\ x.pc = "answered"
<1> DEFINE x == [work[k] EXCEPT !.pc = "answered", !.says = what]
<1>1. work[k] \in Items /\ ItemOK(k, work[k])
  BY DEF ProposalInv, WorkOK, Table
<1>2. x \in Items /\ x.job = work[k].job /\ x.at = work[k].at /\ x.pc = "answered" /\ x.says = what
  BY <1>1, SaidItem
<1>3. work' = [work EXCEPT ![k] = x]
  BY SaysOf
<1> HIDE DEF x
<1>4. ItemOK(k, x)
  BY <1>1, <1>2 DEF ItemOK
<1> QED
  BY <1>2, <1>3, <1>4

LEMMA SaysIsKept ==
  ASSUME ProposalInv, NEW k \in DOMAIN work, NEW what \in {"open", "closed", "done", "failed", "exhausted"},
         work[k].job = "check" \/ what \in {"done", "failed", "exhausted"}, work[k].pc # "reported",
         Says(k, what), UNCHANGED <<p, delivery, mail, secret, comments>>
  PROVE  ProposalInv'
<1>1. PICK x \in Items :
        /\ work' = [work EXCEPT ![k] = x] /\ ItemOK(k, x) /\ x.job = work[k].job
        /\ x.at = work[k].at /\ x.pc = "answered"
  BY SayingKeeps
<1> QED
  BY <1>1, QuietItemChanges

LEMMA LossIsKept ==
  ASSUME ProposalInv, NEW k \in DOMAIN work, work[k].pc \in {"waiting", "posting"},
         work' = [work EXCEPT ![k] = Lost(@)], UNCHANGED <<p, delivery, mail, secret, comments>>
  PROVE  ProposalInv'
<1> DEFINE x == Lost(work[k])
<1>1. work[k].tries # 0
  BY DEF ProposalInv, WorkOK, ItemOK
<1>2. /\ x \in Items /\ ItemOK(k, x) /\ x.job = work[k].job /\ x.at = work[k].at
      /\ x.pc \in {"answered", "waiting"}
  BY <1>1, LossKeeps
<1>3. work' = [work EXCEPT ![k] = x]
  OBVIOUS
<1> HIDE DEF x
<1> QED
  BY <1>2, <1>3, QuietItemChanges

LEMMA CloseIssueKeeps == ASSUME ProposalInv, NEW k \in DOMAIN work, CloseIssue(k) PROVE ProposalInv'
<1>1. /\ work[k] \in Items /\ ItemOK(k, work[k]) /\ work[k].job = "github" /\ work[k].pc = "waiting"
      /\ work[k].at = "none" /\ UNCHANGED <<p, delivery, mail, secret, comments>>
  BY DEF CloseIssue, Waiting, AtWork, ProposalInv, WorkOK, Table
<1>2. CASE Says(k, "done")
  BY <1>1, <1>2, SaysIsKept
<1>3. CASE work' = [work EXCEPT ![k].at = "closed"]
  <2> DEFINE x == [work[k] EXCEPT !.at = "closed"]
  <2>1. x \in Items /\ x.job = work[k].job /\ x.at = "closed" /\ x.pc = "waiting" /\ x.tries = work[k].tries
    BY <1>1 DEF Items
  <2>2. work' = [work EXCEPT ![k] = x]
    BY <1>3
  <2> HIDE DEF x
  <2>3. ItemOK(k, x)
    BY <1>1, <2>1 DEF ItemOK
  <2> QED
    BY <1>1, <2>1, <2>2, <2>3, QuietItemChanges
<1>4. CASE work' = [work EXCEPT ![k] = Lost(@)]
  BY <1>1, <1>4, LossIsKept
<1> QED
  BY <1>2, <1>3, <1>4 DEF CloseIssue

LEMMA StartCommentKeeps == ASSUME ProposalInv, NEW k \in DOMAIN work, StartComment(k) PROVE ProposalInv'
<1>1. /\ work[k] \in Items /\ ItemOK(k, work[k]) /\ work[k].job = "github" /\ work[k].pc = "waiting"
      /\ UNCHANGED <<p, delivery, mail, secret, comments>>
  BY DEF StartComment, Waiting, AtWork, github, ProposalInv, WorkOK, Table
<1>2. CASE Says(k, "done")
  BY <1>1, <1>2, SaysIsKept
<1>3. CASE /\ ~(work[k].at = "commenting" /\ comments > 0)
           /\ work' = [work EXCEPT ![k].at = "commenting", ![k].pc = "posting"]
  <2> DEFINE x == [work[k] EXCEPT !.at = "commenting", !.pc = "posting"]
  <2>1. x \in Items /\ x.job = work[k].job /\ x.at = "commenting" /\ x.pc = "posting" /\ x.tries = work[k].tries
    BY <1>1 DEF Items
  <2>2. work' = [work EXCEPT ![k] = x]
    <3>1. work[k] \in Items
      BY <1>1
    <3> QED
      BY <1>3, <3>1 DEF Items
  <2> HIDE DEF x
  <2>3. ItemOK(k, x)
    BY <1>1, <2>1 DEF ItemOK
  <2>4. ~(comments = 1 /\ work[k].at = "commenting")
    BY <1>3
  <2> QED
    BY <1>1, <2>1, <2>2, <2>3, <2>4, QuietItemChanges
<1> QED
  BY <1>2, <1>3 DEF StartComment

\* A comment is posted only where there is none: whoever may post is the one
\* follow-up that stands.
LEMMA PostCommentKeeps == ASSUME ProposalInv, NEW k \in DOMAIN work, PostComment(k) PROVE ProposalInv'
<1> DEFINE f == p.followups
<1>1. /\ work[k] \in Items /\ ItemOK(k, work[k]) /\ work[k].pc = "posting"
      /\ work[k].job = "github" /\ work[k].at = "commenting"
      /\ UNCHANGED <<p, delivery, mail, secret>> /\ comments' = comments + 1
  BY DEF PostComment, AtWork, ProposalInv, WorkOK, ItemOK, Table
<1>2. /\ k \in DOMAIN f /\ f[k].job = "github" /\ f[k].status = "pending"
  BY <1>1 DEF ProposalInv, Matches, ItemOK
<1>3. comments = 0 /\ comments' = 1
  BY <1>1, <1>2 DEF ProposalInv, CommentsOK
<1>4. p.state = "applied"
  <2>1. DOMAIN f # {} /\ DOMAIN Nothing = {}
    BY <1>2, NothingTable
  <2> QED
    BY <2>1 DEF ProposalInv, ProposalOK
<1>5. \A j \in DOMAIN f : f[j].job = "github" /\ f[j].status # "retried" => j = k
  BY <1>2 DEF ProposalInv, ProposalOK, OneStands
<1>6. ASSUME NEW x \in Items, work' = [work EXCEPT ![k] = x], ItemOK(k, x), x.job = work[k].job,
             x.at = work[k].at, x.pc \in {"answered", "waiting"}
      PROVE  ProposalInv'
  <2>1. work'[k] = x
    BY <1>1, <1>6, ItemChanges
  <2>2. CommentsOK(p, work', comments')
    BY <1>1, <1>3, <1>4, <1>5, <1>6, <2>1 DEF CommentsOK
  <2> QED
    BY <1>1, <1>6, <2>2, ItemChanges
<1>7. CASE Says(k, "done")
  <2> PICK x \in Items :
        /\ work' = [work EXCEPT ![k] = x] /\ ItemOK(k, x) /\ x.job = work[k].job
        /\ x.at = work[k].at /\ x.pc = "answered"
    BY <1>7, SayingKeeps
  <2> QED
    BY <1>6
<1>8. CASE work' = [work EXCEPT ![k] = Lost(@)]
  <2> DEFINE x == Lost(work[k])
  <2>1. work[k].tries # 0
    BY <1>1 DEF ItemOK
  <2>2. /\ x \in Items /\ ItemOK(k, x) /\ x.job = work[k].job /\ x.at = work[k].at
        /\ x.pc \in {"answered", "waiting"}
    BY <1>1, <2>1, LossKeeps
  <2>3. work' = [work EXCEPT ![k] = x]
    BY <1>8
  <2> HIDE DEF x
  <2> QED
    BY <1>6, <2>2, <2>3
<1> QED
  BY <1>7, <1>8 DEF PostComment

LEMMA HandlesKeeps == ASSUME ProposalInv, NEW k \in DOMAIN work, Handles(k) PROVE ProposalInv' /\ p' = p
<1> USE DEF AtWork, github
<1>1. CASE CheckTarget(k)
  <2> DEFINE what == IF target.state = "open" THEN "open" ELSE "closed"
  <2>1. what \in {"open", "closed", "done", "failed", "exhausted"} /\ Says(k, what)
        /\ work[k].job = "check" /\ work[k].pc = "waiting" /\ UNCHANGED <<p, delivery, mail, secret, comments>>
    BY <1>1 DEF CheckTarget, Waiting
  <2> HIDE DEF what
  <2> QED
    BY <2>1, SaysIsKept
<1>2. CASE CloseIssue(k)
  BY <1>2, CloseIssueKeeps DEF CloseIssue
<1>3. CASE StartComment(k)
  BY <1>3, StartCommentKeeps DEF StartComment
<1>4. CASE PostComment(k)
  BY <1>4, PostCommentKeeps DEF PostComment
<1>5. CASE BotRequestsClosed(k)
  <2>1. Says(k, "done") /\ work[k].pc = "waiting" /\ UNCHANGED <<p, delivery, mail, secret, comments>>
    BY <1>5 DEF BotRequestsClosed, Waiting
  <2> QED
    BY <2>1, SaysIsKept
<1>6. CASE AttemptLost(k)
  <2>1. /\ work[k].pc \in {"waiting", "posting"} /\ work' = [work EXCEPT ![k] = Lost(@)]
        /\ UNCHANGED <<p, delivery, mail, secret, comments>>
    BY <1>6 DEF AttemptLost
  <2> QED
    BY <2>1, LossIsKept
<1>7. CASE NotConfigured(k)
  <2>1. Says(k, "failed") /\ work[k].pc = "waiting" /\ UNCHANGED <<p, delivery, mail, secret, comments>>
    BY <1>7 DEF NotConfigured, Waiting
  <2> QED
    BY <2>1, SaysIsKept
<1> QED
  BY <1>1, <1>2, <1>3, <1>4, <1>5, <1>6, <1>7 DEF Handles

-----------------------------------------------------------------------------
(* app-delivery *)

LEMMA DeliveryStep ==
  ASSUME ProposalInv, UNCHANGED <<p, work, comments>>,
         DeliveryOK(p, delivery'), MailOK(mail', secret'), secret => secret',
         OnItsWay(delivery, mail) => OnItsWay(delivery', mail')
  PROVE  ProposalInv' /\ p' = p
<1>1. RedeploysOK(p.followups, delivery', mail', secret')
  BY DEF ProposalInv, RedeploysOK
<1> QED
  BY <1>1 DEF ProposalInv

LEMMA MailGrows ==
  ASSUME NEW m, NEW ran, MailOK(m, ran), NEW n \in Nat, NEW a \in {"Delivered", "DeliveryFailed"},
         NEW since \in BOOLEAN, ran => since, a = "Delivered" /\ n > 0 => since
  PROVE  /\ MailOK(m \o Copies(n, a), since)
         /\ m # <<>> \/ n > 0 => m \o Copies(n, a) # <<>>
<1> DEFINE S == {"Delivered", "DeliveryFailed"}
           c == Copies(n, a)
           l == m \o c
<1>1. c \in Seq(S) /\ Len(c) = n /\ \A i \in 1..n : c[i] = a
  BY DEF Copies
<1>2. m \in Seq(S) /\ Len(m) \in Nat
  BY DEF MailOK
<1> HIDE DEF c
<1>3. /\ l \in Seq(S) /\ Len(l) = Len(m) + n
      /\ \A i \in 1..(Len(m) + n) : l[i] = IF i <= Len(m) THEN m[i] ELSE c[i - Len(m)]
  BY <1>1, <1>2
<1> HIDE DEF l
<1>4. ASSUME NEW i \in 1..Len(l), l[i] = "Delivered" PROVE since
  <2>1. CASE i <= Len(m)
    <3>1. i \in 1..Len(m) /\ m[i] = "Delivered"
      BY <1>2, <1>3, <1>4, <2>1
    <3> QED
      BY <3>1 DEF MailOK
  <2>2. CASE i > Len(m)
    <3>1. i - Len(m) \in 1..n /\ n > 0 /\ l[i] = c[i - Len(m)]
      BY <1>2, <1>3, <1>4, <2>2
    <3> QED
      BY <1>1, <1>4, <3>1
  <2> QED
    BY <1>2, <1>3, <2>1, <2>2
<1>5. MailOK(l, since)
  BY <1>3, <1>4 DEF MailOK
<1>6. m # <<>> \/ n > 0 => l # <<>>
  <2>1. m # <<>> => Len(m) > 0
    BY <1>2, EmptySeq
  <2>2. Len(<<>>) = 0
    OBVIOUS
  <2> QED
    BY <1>2, <1>3, <2>1, <2>2
<1> QED
  BY <1>5, <1>6 DEF l, c

\* A delivery without regard to the deploy under way.
Requests(d) ==
  /\ d \in [asks : Nat, reqs : SUBSET [id : Nat, told : BOOLEAN], next : Nat,
            state : {"idle", "deploying", "healing"}, covers : SUBSET Nat, keyed : BOOLEAN,
            drift : {"none", "waiting", "held", "covered"}]
  /\ IsFiniteSet(d.reqs)
  /\ d.asks > 0 \/ d.reqs # {} => p.state = "applied"

\* A deploy that starts covers every request recorded, and is of the applied
\* secret if there is one; and one that rests covers none.
LEMMA StartedOK ==
  ASSUME NEW d, Requests(d)
  PROVE  /\ DeliveryOK(p, Started(d)) /\ Started(d).asks = d.asks /\ Started(d).reqs = d.reqs
         /\ DeliveryOK(p, Rested(d)) /\ Rested(d).asks = d.asks /\ Rested(d).reqs = d.reqs
<1>1. Ids(d) \subseteq Nat /\ (Ids(d) # {} => d.reqs # {})
  BY DEF Requests, Ids
<1> DEFINE D == IF d.drift = "none" THEN "none" ELSE "covered"
           K == p.state = "applied"
           s == [d EXCEPT !.state = "deploying", !.covers = Ids(d), !.keyed = K, !.drift = D]
           r == [d EXCEPT !.state = "idle", !.covers = {}, !.keyed = FALSE]
<1>2. Started(d) = s /\ Rested(d) = r
  BY DEF Started, Rested
<1>3. D \in {"none", "waiting", "held", "covered"} /\ K \in BOOLEAN
  OBVIOUS
<1>4. d.reqs # {} => K
  BY DEF Requests
<1> HIDE DEF D, K
<1>5. /\ Requests(s) /\ s.asks = d.asks /\ s.reqs = d.reqs /\ s.state = "deploying" /\ s.covers = Ids(d)
      /\ s.keyed = K
  BY <1>1, <1>3 DEF Requests
<1>6. /\ Requests(r) /\ r.asks = d.asks /\ r.reqs = d.reqs /\ r.state = "idle" /\ r.covers = {}
  BY DEF Requests
<1> HIDE DEF s, r
<1>7. DeliveryOK(p, s)
  BY <1>1, <1>4, <1>5 DEF DeliveryOK, Requests, Ids
<1>8. DeliveryOK(p, r)
  BY <1>6 DEF DeliveryOK, Requests
<1> QED
  BY <1>2, <1>5, <1>6, <1>7, <1>8

LEMMA DeliveryIsRequests == ASSUME ProposalInv PROVE Requests(delivery)
BY DEF ProposalInv, DeliveryOK, Requests

LEMMA WayOf ==
  ASSUME NEW d, NEW e, e.asks = d.asks, e.reqs = d.reqs, NEW m, OnItsWay(d, m)
  PROVE  OnItsWay(e, m)
BY DEF OnItsWay

LEMMA DeployRequestedKeeps == ASSUME ProposalInv, DeployRequested PROVE ProposalInv' /\ p' = p
<1> DEFINE d == [delivery EXCEPT !.asks = @ - 1]
           new == [id |-> delivery.next, told |-> FALSE]
           r == Recorded(d)
<1>1. /\ Requests(delivery) /\ delivery.asks > 0 /\ p.state = "applied" /\ MailOK(mail, secret)
      /\ delivery.covers \subseteq Ids(delivery)
      /\ delivery.state # "deploying" => delivery.covers = {}
      /\ delivery.covers # {} => delivery.keyed
  BY DeliveryIsRequests DEF DeployRequested, Requests, ProposalInv, DeliveryOK
<1>2. UNCHANGED <<p, work, comments, secret>>
  BY DEF DeployRequested, AtDelivery, github
<1>3. delivery.asks - 1 \in Nat /\ delivery.next + 1 \in Nat /\ new \in [id : Nat, told : BOOLEAN]
  BY <1>1 DEF Requests
<1>4. /\ Requests(d) /\ d.reqs = delivery.reqs /\ d.covers = delivery.covers /\ d.state = delivery.state
      /\ d.keyed = delivery.keyed /\ d.next = delivery.next
  BY <1>1, <1>3 DEF Requests
<1>5. /\ Requests(r) /\ r.reqs = delivery.reqs \cup {new} /\ r.covers = delivery.covers
      /\ r.state = delivery.state /\ r.keyed = delivery.keyed
  <2>1. IsFiniteSet(delivery.reqs \cup {new})
    BY <1>1, FS_AddElement DEF Requests
  <2>2. r = [d EXCEPT !.reqs = delivery.reqs \cup {new}, !.next = delivery.next + 1]
    BY <1>4 DEF Recorded
  <2> HIDE DEF d, new, r
  <2> QED
    BY <1>1, <1>3, <1>4, <2>1, <2>2 DEF Requests
<1>6. DeliveryOK(p, d)
  BY <1>1, <1>4 DEF DeliveryOK, Requests, Ids
<1>7. DeliveryOK(p, r)
  <2> HIDE DEF r, new, d
  <2>1. Ids(delivery) \subseteq Ids(r)
    BY <1>5 DEF Ids
  <2> QED
    BY <1>1, <1>5, <2>1 DEF DeliveryOK, Requests
<1>8. CASE delivery' = (IF d.state = "idle" THEN Started(r) ELSE r) /\ UNCHANGED mail
  <2>1. DeliveryOK(p, delivery') /\ delivery'.reqs = r.reqs
    <3> HIDE DEF r, d
    <3> QED
      BY <1>5, <1>7, <1>8, StartedOK
  <2>2. OnItsWay(delivery', mail')
    <3>1. new \in delivery'.reqs /\ ~new.told
      BY <1>5, <2>1
    <3> QED
      BY <3>1 DEF OnItsWay
  <2> HIDE DEF r, d
  <2> QED
    BY <1>1, <1>2, <1>8, <2>1, <2>2, DeliveryStep
<1>9. CASE delivery' = d /\ mail' = Append(mail, "DeliveryFailed")
  <2>1. mail' = mail \o Copies(1, "DeliveryFailed")
    BY <1>1, <1>9 DEF Copies, MailOK
  <2>2. MailOK(mail', secret) /\ mail' # <<>>
    BY <1>1, <2>1, MailGrows DEF MailOK
  <2> HIDE DEF d
  <2> QED
    BY <1>2, <1>6, <1>9, <2>2, DeliveryStep DEF OnItsWay
<1> QED
  BY <1>8, <1>9 DEF DeployRequested

LEMMA MainMovedKeeps == ASSUME ProposalInv, MainMoved PROVE ProposalInv' /\ p' = p
<1> DEFINE d == [delivery EXCEPT !.drift = "waiting"]
           h == [d EXCEPT !.drift = "held"]
<1>1. Requests(delivery) /\ DeliveryOK(p, delivery) /\ MailOK(mail, secret)
  BY DeliveryIsRequests DEF ProposalInv
<1>2. UNCHANGED <<p, work, comments, mail, secret>>
  BY DEF MainMoved, AtDelivery, github
<1>3. Requests(d) /\ DeliveryOK(p, d) /\ d.asks = delivery.asks /\ d.reqs = delivery.reqs
  BY <1>1 DEF DeliveryOK, Ids, Requests
<1>4. DeliveryOK(p, h) /\ h.asks = delivery.asks /\ h.reqs = delivery.reqs
  BY <1>1 DEF DeliveryOK, Ids
<1>5. delivery' \in {Started(d), h, d}
  BY DEF MainMoved
<1> HIDE DEF h, d
<1>6. DeliveryOK(p, delivery') /\ delivery'.asks = delivery.asks /\ delivery'.reqs = delivery.reqs
  BY <1>3, <1>4, <1>5, StartedOK
<1>7. OnItsWay(delivery, mail) => OnItsWay(delivery', mail)
  BY <1>6, WayOf
<1> QED
  BY <1>1, <1>2, <1>6, <1>7, DeliveryStep

\* What a deploy that succeeds has covered is told, and leaves.
LEMMA DeployedKeeps == ASSUME ProposalInv, Deployed PROVE ProposalInv' /\ p' = p
<1> DEFINE served == Served(delivery)
           n == Cardinality(served)
<1>1. Requests(delivery) /\ DeliveryOK(p, delivery) /\ MailOK(mail, secret)
  BY DeliveryIsRequests DEF ProposalInv
<1>2. UNCHANGED <<p, work, comments>>
  BY DEF Deployed, AtDelivery, github
<1>3. served \subseteq delivery.reqs /\ IsFiniteSet(served) /\ n \in Nat /\ (served = {} <=> n = 0)
  <2>1. served \subseteq delivery.reqs
    BY DEF Served
  <2> HIDE DEF served
  <2>2. IsFiniteSet(served)
    BY <1>1, <2>1, FS_Subset DEF Requests
  <2> QED
    BY <2>1, <2>2, FS_CardinalityType, FS_EmptySet
<1>4. served # {} => delivery.keyed
  BY <1>1 DEF Served, DeliveryOK
<1>5. mail' = mail \o Copies(n, "Delivered") /\ secret' = (secret \/ delivery.keyed)
  BY DEF Deployed
<1>6. secret' \in BOOLEAN /\ (secret => secret') /\ (n > 0 => secret')
  <2>1. secret \in BOOLEAN /\ delivery.keyed \in BOOLEAN
    BY <1>1 DEF MailOK, Requests
  <2>2. n > 0 => delivery.keyed
    <3>1. n > 0 => n # 0
      BY <1>3
    <3> HIDE DEF n, served
    <3> QED
      BY <1>3, <1>4, <3>1
  <2> DEFINE keyed == delivery.keyed
  <2>3. secret' = (secret \/ keyed)
    BY <1>5
  <2>4. secret \in BOOLEAN /\ keyed \in BOOLEAN /\ (n > 0 => keyed)
    BY <2>1, <2>2
  <2> DEFINE some == n > 0
  <2>5. some => keyed
    BY <2>4
  <2> HIDE DEF n, served, keyed, some
  <2>6. secret' \in BOOLEAN /\ (secret => secret') /\ (some => secret')
    BY <2>3, <2>4, <2>5, Zenon
  <2> QED
    BY <2>6 DEF some
<1>7. MailOK(mail', secret') /\ (mail # <<>> \/ n > 0 => mail' # <<>>)
  <2>1. "Delivered" \in {"Delivered", "DeliveryFailed"} /\ n \in Nat /\ MailOK(mail, secret)
    BY <1>1, <1>3
  <2> HIDE DEF n
  <2> DEFINE since == secret'
  <2>2. since \in BOOLEAN /\ (secret => since) /\ (n > 0 => since)
    BY <1>6
  <2> HIDE DEF since
  <2>3. MailOK(mail \o Copies(n, "Delivered"), since)
        /\ (mail # <<>> \/ n > 0 => mail \o Copies(n, "Delivered") # <<>>)
    BY <2>1, <2>2, MailGrows
  <2> QED
    BY <1>5, <2>3 DEF since
<1>8. PICK drift \in {"none", delivery.drift} \ {"covered"} :
        LET d == [delivery EXCEPT !.reqs = @ \ served, !.drift = drift]
        IN delivery' = IF d.reqs # {} \/ drift = "waiting" THEN Started(d) ELSE Rested(d)
  BY DEF Deployed
<1> DEFINE d == [delivery EXCEPT !.reqs = @ \ served, !.drift = drift]
<1>9. Requests(d) /\ d.asks = delivery.asks /\ d.reqs = delivery.reqs \ served
  <2>1. IsFiniteSet(delivery.reqs \ served)
    BY <1>1, FS_Subset DEF Requests
  <2>2. drift \in {"none", "waiting", "held", "covered"}
    BY <1>1 DEF Requests
  <2> HIDE DEF served
  <2> QED
    BY <1>1, <2>1, <2>2 DEF Requests
<1>10. delivery' \in {Started(d), Rested(d)}
  BY <1>8
<1> HIDE DEF d
<1>11. DeliveryOK(p, delivery') /\ delivery'.asks = d.asks /\ delivery'.reqs = d.reqs
  BY <1>9, <1>10, StartedOK
<1> HIDE DEF served, n
<1>12. OnItsWay(delivery, mail) => OnItsWay(delivery', mail')
  <2>1. ASSUME NEW r \in delivery.reqs, ~r.told PROVE OnItsWay(delivery', mail')
    <3>1. CASE r \in served
      BY <1>3, <1>7, <3>1 DEF OnItsWay
    <3>2. CASE r \notin served
      BY <1>9, <1>11, <2>1, <3>2 DEF OnItsWay
    <3> QED
      BY <3>1, <3>2
  <2> QED
    BY <1>7, <1>9, <1>11, <2>1 DEF OnItsWay
<1> QED
  BY <1>2, <1>6, <1>7, <1>11, <1>12, DeliveryStep

\* A failure is told once to those it covered, who stay.
LEMMA DeployFailedKeeps == ASSUME ProposalInv, DeployFailed PROVE ProposalInv' /\ p' = p
<1> DEFINE untold == {r \in Served(delivery) : ~r.told}
           n == Cardinality(untold)
           told == Told(delivery)
<1>1. Requests(delivery) /\ DeliveryOK(p, delivery) /\ MailOK(mail, secret)
  BY DeliveryIsRequests DEF ProposalInv
<1>2. UNCHANGED <<p, work, comments, secret>>
  BY DEF DeployFailed, AtDelivery, github
<1>3. IsFiniteSet(untold) /\ n \in Nat /\ (untold = {} <=> n = 0)
  <2>1. untold \subseteq delivery.reqs
    BY DEF Served
  <2> HIDE DEF untold
  <2>2. IsFiniteSet(untold)
    BY <1>1, <2>1, FS_Subset DEF Requests
  <2> QED
    BY <2>2, FS_CardinalityType, FS_EmptySet
<1>4. mail' = mail \o Copies(n, "DeliveryFailed")
  BY DEF DeployFailed
<1>5. MailOK(mail', secret) /\ (mail # <<>> \/ n > 0 => mail' # <<>>)
  <2>1. secret \in BOOLEAN
    BY <1>1 DEF MailOK
  <2> HIDE DEF n
  <2> QED
    BY <1>1, <1>3, <1>4, <2>1, MailGrows
<1>6. /\ told \in SUBSET [id : Nat, told : BOOLEAN] /\ IsFiniteSet(told) /\ (told # {} => delivery.reqs # {})
      /\ \A r \in delivery.reqs : ~r.told => r \in untold \/ \E s \in told : ~s.told
  <2> DEFINE new(r) == [r EXCEPT !.told = @ \/ r.id \in delivery.covers]
             f == [r \in delivery.reqs |-> new(r)]
  <2>1. \A r \in delivery.reqs : r \in [id : Nat, told : BOOLEAN]
    BY <1>1 DEF Requests
  <2>2. \A r \in delivery.reqs : new(r) \in [id : Nat, told : BOOLEAN]
    BY <2>1
  <2>3. told = {new(r) : r \in delivery.reqs}
    BY DEF Told
  <2>4. told = {f[r] : r \in delivery.reqs}
    BY <2>3
  <2>5. IsFiniteSet(told)
    <3>1. f \in [delivery.reqs -> told]
      <4> HIDE DEF new
      <4> QED
        BY <2>3
    <3>2. f \in Surjection(delivery.reqs, told)
      <4> HIDE DEF f
      <4>1. \A s \in told : \E r \in delivery.reqs : f[r] = s
        BY <2>4
      <4> QED
        BY <3>1, <4>1 DEF Surjection
    <3> QED
      BY <1>1, <3>2, FS_Surjection DEF Requests
  <2>6. \A r \in delivery.reqs : ~r.told => r \in untold \/ ~new(r).told
    BY <2>1 DEF Served
  <2> HIDE DEF new, untold
  <2> QED
    BY <2>2, <2>3, <2>5, <2>6
<1>7. PICK held \in {"none", "held"} :
        LET d == [delivery EXCEPT !.reqs = told, !.drift = IF @ = "covered" THEN held ELSE @]
        IN delivery' = IF Late(delivery) THEN Started(d) ELSE Rested(d)
  BY DEF DeployFailed
<1> DEFINE w == IF delivery.drift = "covered" THEN held ELSE delivery.drift
           d == [delivery EXCEPT !.reqs = told, !.drift = w]
<1>8. delivery' \in {Started(d), Rested(d)}
  BY <1>7
<1>9. w \in {"none", "waiting", "held", "covered"}
  BY <1>1 DEF Requests
<1> HIDE DEF w, told
<1>10. Requests(d) /\ d.asks = delivery.asks /\ d.reqs = told
  BY <1>1, <1>6, <1>9 DEF Requests
<1> HIDE DEF d
<1>11. DeliveryOK(p, delivery') /\ delivery'.asks = delivery.asks /\ delivery'.reqs = told
  BY <1>8, <1>10, StartedOK
<1> HIDE DEF untold, n
<1>12. OnItsWay(delivery, mail) => OnItsWay(delivery', mail')
  <2>1. ASSUME NEW r \in delivery.reqs, ~r.told PROVE OnItsWay(delivery', mail')
    <3>1. CASE r \in untold
      <4>1. mail' # <<>>
        BY <1>3, <1>5, <3>1 DEF n
      <4> QED
        BY <4>1 DEF OnItsWay
    <3>2. CASE \E s \in told : ~s.told
      BY <1>11, <3>2 DEF OnItsWay
    <3> QED
      BY <1>6, <2>1, <3>1, <3>2
  <2> QED
    BY <1>5, <1>11, <2>1 DEF OnItsWay
<1> QED
  BY <1>2, <1>5, <1>11, <1>12, DeliveryStep

LEMMA RetryDueKeeps == ASSUME ProposalInv, RetryDue PROVE ProposalInv' /\ p' = p
<1>1. Requests(delivery) /\ DeliveryOK(p, delivery) /\ MailOK(mail, secret)
  BY DeliveryIsRequests DEF ProposalInv
<1>2. UNCHANGED <<p, work, comments, secret>> /\ delivery.state = "idle"
  BY DEF RetryDue, AtDelivery, github
<1>3. CASE delivery' = Started(delivery) /\ UNCHANGED mail
  <2>1. DeliveryOK(p, delivery') /\ (OnItsWay(delivery, mail) => OnItsWay(delivery', mail))
    BY <1>1, <1>3, StartedOK, WayOf
  <2> QED
    BY <1>1, <1>2, <1>3, <2>1, DeliveryStep
<1>4. CASE /\ delivery' = [delivery EXCEPT !.reqs = {}, !.drift = "none"]
           /\ mail' = mail \o Copies(Cardinality({r \in delivery.reqs : ~r.told}), "DeliveryFailed")
  <2> DEFINE untold == {r \in delivery.reqs : ~r.told}
             n == Cardinality(untold)
  <2>1. IsFiniteSet(untold) /\ n \in Nat /\ (untold = {} <=> n = 0)
    <3>1. untold \subseteq delivery.reqs
      OBVIOUS
    <3> HIDE DEF untold
    <3>2. IsFiniteSet(untold)
      BY <1>1, <3>1, FS_Subset DEF Requests
    <3> QED
      BY <3>2, FS_CardinalityType, FS_EmptySet
  <2>2. MailOK(mail', secret) /\ (mail # <<>> \/ n > 0 => mail' # <<>>)
    <3>1. secret \in BOOLEAN /\ mail' = mail \o Copies(n, "DeliveryFailed")
      BY <1>1, <1>4 DEF MailOK
    <3> HIDE DEF n
    <3> QED
      BY <1>1, <2>1, <3>1, MailGrows
  <2>3. DeliveryOK(p, delivery') /\ delivery'.asks = delivery.asks
    BY <1>1, <1>2, <1>4, FS_EmptySet DEF DeliveryOK, Ids
  <2>4. OnItsWay(delivery, mail) => OnItsWay(delivery', mail')
    <3>1. (\E r \in delivery.reqs : ~r.told) => n > 0
      <4>1. (\E r \in delivery.reqs : ~r.told) => untold # {}
        OBVIOUS
      <4> HIDE DEF untold
      <4> QED
        BY <2>1, <4>1
    <3> HIDE DEF n
    <3> QED
      BY <2>2, <2>3, <3>1 DEF OnItsWay
  <2> HIDE DEF n
  <2> QED
    BY <1>2, <2>2, <2>3, <2>4, DeliveryStep
<1> QED
  BY <1>3, <1>4 DEF RetryDue

LEMMA HealsKeep == ASSUME ProposalInv, HealStarts \/ HealEnds PROVE ProposalInv' /\ p' = p
<1>1. Requests(delivery) /\ DeliveryOK(p, delivery) /\ MailOK(mail, secret)
  BY DeliveryIsRequests DEF ProposalInv
<1>2. UNCHANGED <<p, work, comments, mail, secret>>
  BY DEF HealStarts, HealEnds, AtDelivery, github
<1>3. CASE HealStarts
  <2>1. DeliveryOK(p, delivery') /\ delivery'.asks = delivery.asks /\ delivery'.reqs = delivery.reqs
    BY <1>1, <1>3 DEF HealStarts, DeliveryOK, Ids
  <2> QED
    BY <1>1, <1>2, <2>1, WayOf, DeliveryStep
<1>4. CASE HealEnds
  <2>1. DeliveryOK(p, delivery') /\ delivery'.asks = delivery.asks /\ delivery'.reqs = delivery.reqs
    BY <1>1, <1>4, StartedOK DEF HealEnds
  <2> QED
    BY <1>1, <1>2, <2>1, WayOf, DeliveryStep
<1> QED
  BY <1>3, <1>4

LEMMA DeliversKeeps == ASSUME ProposalInv, Delivers PROVE ProposalInv' /\ p' = p
BY DeployRequestedKeeps, MainMovedKeeps, DeployedKeeps, DeployFailedKeeps, RetryDueKeeps, HealsKeep DEF Delivers

-----------------------------------------------------------------------------
(* What happens around the proposal *)

LEMMA ApartKeeps == ASSUME ProposalInv, Apart PROVE ProposalInv' /\ p' = p
<1>1. UNCHANGED <<p, work, comments, delivery, mail, secret>>
  BY DEF Apart
<1> QED
  BY <1>1 DEF ProposalInv, CheckHeld, CommentsOK, DeliveryOK, Ids, RedeploysOK

LEMMA EnvironmentKeeps == ASSUME ProposalInv, Environment PROVE ProposalInv' /\ p' = p
<1>1. Apart
  BY DEF Environment, TimePasses, ElectorateMoves, Breaks, AppGoes, TargetMoves
<1> QED
  BY <1>1, ApartKeeps

Rows == [kind : Kinds, status : {"open", "closed", "gone"}, broken : BOOLEAN]
Targets == [state : {"open", "closed", "gone"}, told : BOOLEAN]

\* An outcome closes its row and leaves the rest of it alone.
LEMMA RowKept ==
  ASSUME row \in Rows, NEW o, NEW w, BecomesWith(o, w)
  PROVE  row' \in Rows /\ row'.kind = row.kind
<1>1. row' = row \/ row' = [row EXCEPT !.status = "closed"]
  BY DEF BecomesWith
<1> QED
  BY <1>1 DEF Rows

\* A decision moves one vote at most, and no clock, lock or electorate.
DecidesIn(x, side) ==
  \/ Filed \/ VoteCast(x, side) \/ Evaluate \/ AdminApply(x) \/ Withdraw \/ TargetClosed
LEMMA DecisionWorld ==
  ASSUME WorldOK, NEW x \in Voters, NEW side \in {"up", "down"}, DecidesIn(x, side)
  PROVE  WorldOK' /\ row'.kind = row.kind
<1>1. row \in Rows /\ target \in Targets
  BY DEF WorldOK, Rows, Targets
<1>2. row' \in Rows /\ row'.kind = row.kind
  <2>1. ASSUME NEW o, Becomes(o) PROVE row' \in Rows /\ row'.kind = row.kind
    BY <1>1, <2>1, RowKept DEF Becomes
  <2>2. CASE UNCHANGED row
    BY <1>1, <2>2
  <2>3. CASE Filed
    <3> DEFINE o == Decide([p EXCEPT !.state = "open"], Gate, FALSE, TRUE)
    <3>1. Becomes(o)
      BY <2>3 DEF Filed
    <3> HIDE DEF o
    <3> QED
      BY <2>1, <3>1
  <2>4. CASE VoteCast(x, side)
    <3>1. PICK o : Becomes(o)
      BY <2>4 DEF VoteCast
    <3> QED
      BY <2>1, <3>1
  <2>5. CASE Evaluate
    <3>1. PICK o : Becomes(o)
      BY <2>5 DEF Evaluate
    <3> QED
      BY <2>1, <3>1
  <2>6. CASE AdminApply(x)
    <3> DEFINE o == Watching(IF ChecksTarget THEN AwaitTarget(p, x) ELSE Apply(x))
    <3>1. Becomes(o)
      BY <2>6 DEF AdminApply
    <3> HIDE DEF o
    <3> QED
      BY <2>1, <3>1
  <2>7. CASE Withdraw
    <3> DEFINE o == Watching(ClosedAs("withdrawn", Author, Nothing))
    <3>1. Becomes(o)
      BY <2>7 DEF Withdraw
    <3> HIDE DEF o
    <3> QED
      BY <2>1, <3>1
  <2>8. CASE TargetClosed
    <3> DEFINE o == Watching(Supersede)
    <3>1. Becomes(o) \/ UNCHANGED row
      BY <2>8 DEF TargetClosed
    <3> HIDE DEF o
    <3> QED
      BY <2>1, <2>2, <3>1
  <2> QED
    BY <2>3, <2>4, <2>5, <2>6, <2>7, <2>8 DEF DecidesIn
<1>3. vote' \in [Voters -> Sides]
  <2>1. CASE VoteCast(x, side)
    <3> DEFINE now == IF vote[x] = side THEN "none" ELSE side
    <3>1. now \in Sides
      BY DEF Sides
    <3>2. vote' = IF Outside THEN vote ELSE [vote EXCEPT ![x] = now]
      BY <2>1 DEF VoteCast
    <3> HIDE DEF now
    <3> QED
      BY <3>1, <3>2 DEF WorldOK
  <2>2. CASE ~VoteCast(x, side)
    BY <2>2 DEF DecidesIn, Filed, Evaluate, AdminApply, Withdraw, TargetClosed, people, WorldOK
  <2> QED
    BY <2>1, <2>2
<1>4. UNCHANGED <<app, electors, age>>
  BY DEF DecidesIn, Filed, VoteCast, Evaluate, AdminApply, Withdraw, TargetClosed, people
<1>5. target' \in Targets
  <2>1. target' = target \/ target' = [target EXCEPT !.told = FALSE]
    BY DEF DecidesIn, Filed, VoteCast, Evaluate, AdminApply, Withdraw, TargetClosed, github
  <2> QED
    BY <1>1, <2>1 DEF Targets
<1> QED
  BY <1>2, <1>3, <1>4, <1>5 DEF WorldOK, Rows, Targets

LEMMA ResultWorld ==
  ASSUME WorldOK, NEW k, CheckResult(k) PROVE WorldOK' /\ row'.kind = row.kind
<1>1. PICK o, w : BecomesWith(o, w)
  BY DEF CheckResult
<1>2. row' \in Rows /\ row'.kind = row.kind
  BY <1>1, RowKept DEF WorldOK, Rows
<1> QED
  BY <1>2 DEF CheckResult, people, github, WorldOK, Rows

LEMMA WorkWorld ==
  ASSUME WorldOK, NEW k, Handles(k) PROVE WorldOK'
<1>1. UNCHANGED <<row, people>>
  BY DEF Handles, CheckTarget, CloseIssue, StartComment, PostComment, BotRequestsClosed, AttemptLost,
     NotConfigured, AtWork
<1>2. target' = target \/ target' = [target EXCEPT !.state = Goal]
  BY DEF Handles, CheckTarget, CloseIssue, StartComment, PostComment, BotRequestsClosed, AttemptLost,
     NotConfigured, github
<1> QED
  BY <1>1, <1>2 DEF people, WorldOK, Goal

LEMMA EnvironmentWorld == ASSUME WorldOK, Environment PROVE WorldOK'
<1>1. CASE TimePasses
  BY <1>1 DEF TimePasses, WorldOK
<1>2. CASE ElectorateMoves
  BY <1>2 DEF ElectorateMoves, WorldOK
<1>3. CASE Breaks
  BY <1>3 DEF Breaks, people, WorldOK
<1>4. CASE AppGoes
  BY <1>4 DEF AppGoes, people, WorldOK
<1>5. CASE TargetMoves
  <2>1. target' \in Targets
    <3>1. target \in Targets /\ target.told \in BOOLEAN
      BY DEF WorldOK, Targets
    <3>2. CASE target' = [target EXCEPT !.state = "open"]
      BY <3>1, <3>2 DEF Targets
    <3>3. ASSUME NEW s \in {"closed", "gone"}, NEW told \in {Open, FALSE},
                 target' = [state |-> s, told |-> target.told \/ told]
          PROVE  target' \in Targets
      <4> DEFINE both == target.told \/ told
      <4>1. both \in BOOLEAN
        BY <3>1, Zenon
      <4> HIDE DEF both
      <4> QED
        BY <3>3, <4>1 DEF Targets, both
    <3> QED
      BY <1>5, <3>2, <3>3 DEF TargetMoves
  <2> QED
    BY <1>5, <2>1 DEF TargetMoves, people, WorldOK, Targets
<1> QED
  BY <1>1, <1>2, <1>3, <1>4, <1>5 DEF Environment

-----------------------------------------------------------------------------
(* The invariant *)

LEMMA GovInit == Init => GovInv
<1> SUFFICES ASSUME Init PROVE GovInv
  OBVIOUS
<1>1. WorldOK
  <2>1. target \in [state : {"open", "closed", "gone"}, told : BOOLEAN]
    BY DEF Init
  <2>2. row \in [kind : Kinds, status : {"open", "closed", "gone"}, broken : BOOLEAN]
    BY DEF Init
  <2> QED
    BY <2>1, <2>2 DEF Init, WorldOK
<1>2. /\ p = [state |-> "none", check |-> None, checked |-> FALSE, after |-> NoOne, timer |-> FALSE,
              followups |-> Nothing, by |-> Nobody, changes |-> 0]
      /\ work = Nothing /\ comments = 0 /\ mail = <<>> /\ secret = FALSE
  BY DEF Init
<1>3. \A K, R : Table(Nothing, K, R) /\ DOMAIN Nothing = {}
  BY NothingTable
<1>4. Table(Nothing, FollowKeys, Followups) /\ Table(Nothing, CheckKeys \cup FollowKeys, Items)
  BY <1>3
<1> HIDE DEF Nothing
<1>5. /\ p.state = "none" /\ p.check = None /\ p.after = NoOne /\ p.timer = FALSE /\ p.changes = 0
      /\ p.followups = Nothing
  BY <1>2
<1>6. ProposalOK(p)
  <2>1. Shape(p)
    BY <1>2 DEF Shape
  <2> QED
    BY <1>3, <1>4, <1>5, <2>1 DEF ProposalOK, OneStands
<1>7. WorkOK(work) /\ Matches(p.followups, work) /\ CheckHeld(p, work) /\ CommentsOK(p, work, comments)
  BY <1>2, <1>3, <1>4, <1>5 DEF WorkOK, Matches, CheckHeld, CommentsOK
<1>8. MailOK(mail, secret) /\ RedeploysOK(p.followups, delivery, mail, secret)
  <2>1. mail \in Seq({"Delivered", "DeliveryFailed"}) /\ Len(mail) = 0
    BY <1>2
  <2>2. MailOK(mail, secret)
    <3>1. \A i \in 1..Len(mail) : FALSE
      BY <2>1
    <3>2. secret \in BOOLEAN
      BY <1>2
    <3> QED
      BY <2>1, <3>1, <3>2 DEF MailOK
  <2> QED
    BY <1>3, <1>5, <2>2 DEF RedeploysOK
<1>9. DeliveryOK(p, delivery)
  <2>1. delivery = [asks |-> 0, reqs |-> {}, next |-> 1, state |-> "idle", covers |-> {}, keyed |-> FALSE,
                    drift |-> "none"]
    BY DEF Init
  <2>2. IsFiniteSet({})
    BY FS_EmptySet
  <2> QED
    BY <2>1, <2>2 DEF DeliveryOK, Ids
<1> QED
  BY <1>1, <1>6, <1>7, <1>8, <1>9 DEF GovInv, ProposalInv

\* Every step keeps the invariant.
LEMMA GovStep ==
  ASSUME GovInv, Next
  PROVE  GovInv'
<1>1. ProposalInv /\ WorldOK
  BY DEF GovInv
<1>2. CASE Filed
  <2>1. DecidesIn(Author, "up") /\ Author \in Voters
    BY <1>2, PeopleAssumption DEF DecidesIn
  <2> QED
    BY <1>1, <1>2, <2>1, FiledKeeps, DecisionWorld DEF GovInv
<1>3. ASSUME NEW x \in Voters, NEW side \in {"up", "down"}, VoteCast(x, side) PROVE GovInv'
  <2>1. DecidesIn(x, side)
    BY <1>3 DEF DecidesIn
  <2> QED
    BY <1>1, <1>3, <2>1, VoteKeeps, DecisionWorld DEF GovInv
<1>4. CASE Evaluate
  <2>1. DecidesIn(Author, "up") /\ Author \in Voters
    BY <1>4, PeopleAssumption DEF DecidesIn
  <2> QED
    BY <1>1, <1>4, <2>1, EvaluateKeeps, DecisionWorld DEF GovInv
<1>5. ASSUME NEW x \in Admins, AdminApply(x) PROVE GovInv'
  <2>1. DecidesIn(x, "up") /\ x \in Voters
    BY <1>5, PeopleAssumption DEF DecidesIn
  <2> QED
    BY <1>1, <1>5, <2>1, AdminApplyKeeps, DecisionWorld DEF GovInv
<1>6. CASE Withdraw
  <2>1. DecidesIn(Author, "up") /\ Author \in Voters
    BY <1>6, PeopleAssumption DEF DecidesIn
  <2> QED
    BY <1>1, <1>6, <2>1, WithdrawKeeps, DecisionWorld DEF GovInv
<1>7. CASE TargetClosed
  <2>1. DecidesIn(Author, "up") /\ Author \in Voters
    BY <1>7, PeopleAssumption DEF DecidesIn
  <2> QED
    BY <1>1, <1>7, <2>1, TargetClosedKeeps, DecisionWorld DEF GovInv
<1>8. ASSUME NEW k \in DOMAIN work, CheckResult(k) PROVE GovInv'
  BY <1>1, <1>8, CheckResultKeeps, ResultWorld DEF GovInv
<1>9. ASSUME NEW k \in DOMAIN work, FollowupResult(k) PROVE GovInv'
  <2>1. WorldOK'
    BY <1>1, <1>9 DEF FollowupResult, people, github, WorldOK
  <2> QED
    BY <1>1, <1>9, <2>1, FollowupResultKeeps DEF GovInv
<1>10. CASE DeliveryAnswer
  <2>1. WorldOK'
    BY <1>1, <1>10 DEF DeliveryAnswer, people, github, WorldOK
  <2> QED
    BY <1>1, <1>10, <2>1, DeliveryAnswerKeeps DEF GovInv
<1>11. ASSUME NEW k \in DOMAIN p.followups, RetryFollowup(k) PROVE GovInv'
  <2>1. WorldOK'
    BY <1>1, <1>11 DEF RetryFollowup, people, github, WorldOK
  <2> QED
    BY <1>1, <1>11, <2>1, RetryKeeps DEF GovInv
<1>12. ASSUME NEW k \in DOMAIN work, Handles(k) PROVE GovInv'
  BY <1>1, <1>12, HandlesKeeps, WorkWorld DEF GovInv
<1>13. CASE Delivers
  <2>1. UNCHANGED <<row, people, github>>
    BY <1>13 DEF Delivers, DeployRequested, MainMoved, Deployed, DeployFailed, RetryDue, HealStarts,
       HealEnds, AtDelivery
  <2>2. WorldOK'
    BY <1>1, <2>1 DEF people, github, WorldOK
  <2> QED
    BY <1>1, <1>13, <2>2, DeliversKeeps DEF GovInv
<1>14. CASE Environment
  BY <1>1, <1>14, EnvironmentKeeps, EnvironmentWorld DEF GovInv
<1> QED
  BY <1>2, <1>3, <1>4, <1>5, <1>6, <1>7, <1>8, <1>9, <1>10, <1>11, <1>12, <1>13, <1>14
  DEF Next, Decides

LEMMA GovNext == GovInv /\ [Next]_vars => GovInv'
<1> SUFFICES ASSUME GovInv, [Next]_vars PROVE GovInv'
  OBVIOUS
<1>1. CASE Next
  BY <1>1, GovStep
<1>2. CASE UNCHANGED vars
  <2>1. Apart /\ UNCHANGED <<row, vote, app, electors, age, target>>
    BY <1>2 DEF vars, Apart
  <2>2. WorldOK'
    BY <2>1 DEF GovInv, WorldOK
  <2> QED
    BY <2>1, <2>2, ApartKeeps DEF GovInv
<1> QED
  BY <1>1, <1>2

-----------------------------------------------------------------------------
(* The theorems *)

\* The invariant: the proposal, its work items, its redeploys and the answers
\* on their way agree, whoever votes, forces, retries, loses or deploys.
THEOREM GovInvariant == Spec => []GovInv
<1>1. Init => GovInv
  BY GovInit
<1>2. GovInv /\ [Next]_vars => GovInv'
  BY GovNext
<1> QED
  BY <1>1, <1>2, PTL DEF Spec

LEMMA GovInvTypes == ASSUME GovInv PROVE GovTypeOK
<1>1. ProposalOK(p) /\ Shape(p) /\ WorkOK(work) /\ DeliveryOK(p, delivery) /\ WorldOK
  BY DEF GovInv, ProposalInv, ProposalOK
<1>2. /\ p.state \in {"none", "open"} \cup Closed /\ p.timer = Open
      /\ p.state # "open" => p.check = None /\ p.after = NoOne
      /\ p.after \in {NoOne, Group} \cup Admins
      /\ p.changes = IF p.state = "applied" THEN 1 ELSE 0
  BY <1>1 DEF ProposalOK, Shape, Open
<1>3. p.state \in {"none", "open"} => p.followups = Nothing
  BY <1>1 DEF ProposalOK
<1>4. \A k \in DOMAIN p.followups : p.followups[k].status \in Statuses
  BY <1>1 DEF ProposalOK, Table, Followups
<1>5. \A k \in DOMAIN work :
        /\ work[k].job \in {"check", "github", "bot"}
        /\ work[k].pc \in {"waiting", "posting", "answered", "reported"}
        /\ work[k].at \in {"none", "closed", "commenting"}
        /\ work[k].tries \in 0..Tries
  BY <1>1 DEF WorkOK, Table, Items
<1>6. /\ vote \in [Voters -> Sides] /\ electors \in Electorates /\ age \in Ages
      /\ target.state \in {"open", "closed", "gone"}
  BY <1>1 DEF WorldOK
<1>7. delivery.state \in {"idle", "deploying", "healing"} /\ delivery.covers \subseteq Ids(delivery)
  BY <1>1 DEF DeliveryOK
<1> QED
  BY <1>2, <1>3, <1>4, <1>5, <1>6, <1>7 DEF GovTypeOK

\* GovTypeOK: an open proposal always has its deadline armed and a closed one
\* nothing it still waits for, and what it changes it changes once.
THEOREM GovTypesHold == Spec => []GovTypeOK
<1>1. GovInv => GovTypeOK
  BY GovInvTypes
<1> QED
  BY <1>1, GovInvariant, PTL

LEMMA GovInvHeld == ASSUME GovInv PROVE PendingIsHeld
<1>1. (p.after # NoOne => p.check # None) /\ (p.check # None => p.check \in DOMAIN work)
  BY DEF GovInv, ProposalInv, ProposalOK, CheckHeld
<1>2. ASSUME NEW k \in DOMAIN p.followups, p.followups[k].status = "pending"
      PROVE  SomebodyAtIt(k)
  <2>1. CASE p.followups[k].job = "delivery"
    BY <1>2, <2>1 DEF GovInv, ProposalInv, RedeploysOK, OnItsWay, SomebodyAtIt
  <2>2. CASE p.followups[k].job # "delivery"
    BY <1>2, <2>2 DEF GovInv, ProposalInv, Matches, SomebodyAtIt
  <2> QED
    BY <2>1, <2>2
<1> QED
  BY <1>1, <1>2 DEF PendingIsHeld

\* PendingIsHeld: whatever waits for a target check has one under way, and a
\* pending follow-up always has somebody at it, so nothing waits for nobody.
THEOREM PendingAlwaysHeld == Spec => []PendingIsHeld
<1>1. GovInv => PendingIsHeld
  BY GovInvHeld
<1> QED
  BY <1>1, GovInvariant, PTL

\* CommentOnce: the issue hears of its closing once, however often the work
\* is lost, retried by an admin, or its replies lost.
THEOREM CommentedOnce == Spec => []CommentOnce
<1>1. GovInv => CommentOnce
  BY DEF GovInv, ProposalInv, CommentsOK, CommentOnce
<1> QED
  BY <1>1, GovInvariant, PTL

\* DoneRunsTheSecret: a redeploy recorded as done was served by a deploy that
\* started after the secret was applied, whatever answers a retry crosses.
THEOREM DoneAlwaysRan == Spec => []DoneRunsTheSecret
<1>1. GovInv => DoneRunsTheSecret
  BY DEF GovInv, ProposalInv, RedeploysOK, DoneRunsTheSecret
<1> QED
  BY <1>1, GovInvariant, PTL

-----------------------------------------------------------------------------
(* A group's vote *)

\* The votes of E for one side, and what one vote that changes makes of them.
Count(v, E, side) == Cardinality({y \in E : v[y] = side})
LEMMA CountMoves ==
  ASSUME NEW E, IsFiniteSet(E), NEW v, NEW u, NEW x \in E, \A y \in E : y # x => u[y] = v[y],
         NEW side
  PROVE  Count(u, E, side) = Count(v, E, side) + Step(v[x], u[x], side)
<1> DEFINE A == {y \in E : v[y] = side}
           B == {y \in E : u[y] = side}
<1>1. IsFiniteSet(A) /\ IsFiniteSet(B)
  <2>1. A \subseteq E /\ B \subseteq E
    OBVIOUS
  <2> HIDE DEF A, B
  <2> QED
    BY <2>1, FS_Subset
<1>2. Cardinality(A) \in Nat
  <2> HIDE DEF A
  <2> QED
    BY <1>1, FS_CardinalityType
<1>3. Count(v, E, side) = Cardinality(A) /\ Count(u, E, side) = Cardinality(B)
  BY DEF Count
<1>4. CASE u[x] = side /\ v[x] # side
  <2>1. B = A \cup {x} /\ x \notin A
    BY <1>4
  <2>2. Step(v[x], u[x], side) = 1
    BY <1>4 DEF Step
  <2> HIDE DEF A, B
  <2>3. Cardinality(B) = Cardinality(A) + 1
    BY <1>1, <2>1, FS_AddElement
  <2> QED
    BY <1>2, <1>3, <2>2, <2>3
<1>5. CASE u[x] # side /\ v[x] = side
  <2>1. B = A \ {x} /\ x \in A
    BY <1>5
  <2>2. Step(v[x], u[x], side) = -1
    BY <1>5 DEF Step
  <2> HIDE DEF A, B
  <2>3. Cardinality(B) = Cardinality(A) - 1
    BY <1>1, <2>1, FS_RemoveElement
  <2> QED
    BY <1>2, <1>3, <2>2, <2>3
<1>6. CASE (u[x] = side) <=> (v[x] = side)
  <2>1. B = A
    BY <1>6
  <2>2. Step(v[x], u[x], side) = 0
    BY <1>6 DEF Step
  <2> QED
    BY <1>2, <1>3, <2>1, <2>2
<1> QED
  BY <1>4, <1>5, <1>6

LEMMA CountIsNat ==
  ASSUME NEW E, IsFiniteSet(E), NEW v, NEW side PROVE Count(v, E, side) \in Nat
<1> DEFINE A == {y \in E : v[y] = side}
<1>1. A \subseteq E
  OBVIOUS
<1> HIDE DEF A
<1>2. Cardinality(A) \in Nat
  BY <1>1, FS_Subset, FS_CardinalityType
<1> QED
  BY <1>2 DEF A, Count

LEMMA CountStays ==
  ASSUME NEW E, NEW v, NEW u, NEW x, x \notin E, \A y \in E : y # x => u[y] = v[y], NEW side
  PROVE  Count(u, E, side) = Count(v, E, side)
<1>1. {y \in E : u[y] = side} = {y \in E : v[y] = side}
  OBVIOUS
<1> QED
  BY <1>1 DEF Count

\* The vote folded into the counts is the vote counted.
LEMMA VoteIsCounted ==
  ASSUME WorldOK, NEW x \in Voters, NEW now \in Sides
  PROVE  WithVote(Recount(vote), x, vote[x], now) = Recount([vote EXCEPT ![x] = now])
<1> DEFINE u == [vote EXCEPT ![x] = now]
           counted == electors.counted
           others == counted \ {Author}
           g == Recount(vote)
           ups(v) == {y \in Admins : v[y] = "up"}
           admins == (ups(vote) \ {x}) \cup (IF x \in Admins /\ now = "up" THEN {x} ELSE {})
           active == AtLeast(electors.active, 1)
<1>1. vote \in [Voters -> Sides] /\ counted \subseteq Voters /\ Admins \subseteq Voters /\ IsFiniteSet(Voters)
  BY PeopleAssumption DEF WorldOK
<1>2. IsFiniteSet(counted) /\ IsFiniteSet(others) /\ others \subseteq Voters
  <2>1. counted \subseteq Voters /\ others \subseteq Voters
    BY <1>1
  <2> HIDE DEF others
  <2> QED
    BY <1>1, <2>1, FS_Subset
<1>3. u[x] = now /\ \A y \in Voters : y # x => u[y] = vote[y]
  BY <1>1
<1> HIDE DEF u, counted
<1>4. ups(u) = admins
  BY <1>1, <1>3
<1>5. ASSUME NEW side, NEW E \in {counted, others}, x \in E
      PROVE  Count(u, E, side) = Count(vote, E, side) + Step(vote[x], now, side)
  <2>1. IsFiniteSet(E) /\ \A y \in E : y # x => u[y] = vote[y]
    BY <1>1, <1>2, <1>3
  <2> HIDE DEF others
  <2> QED
    BY <1>3, <1>5, <2>1, CountMoves
<1>6. ASSUME NEW side, NEW E \in {counted, others}, x \notin E
      PROVE  Count(u, E, side) = Count(vote, E, side)
  <2>1. \A y \in E : y # x => u[y] = vote[y]
    BY <1>1, <1>2, <1>3
  <2> HIDE DEF others
  <2> QED
    BY <1>6, <2>1, CountStays
<1>7. \A side, E : E \in {counted, others} => Count(vote, E, side) \in Nat
  <2> HIDE DEF others
  <2> QED
    BY <1>2, CountIsNat
<1>8. g = [active |-> active, yes |-> Count(vote, counted, "up"), no |-> Count(vote, counted, "down"),
           otherYes |-> Count(vote, others, "up"), adminUp |-> ups(vote)]
  BY DEF Recount, Count, counted
<1>9. Recount(u) = [active |-> active, yes |-> Count(u, counted, "up"), no |-> Count(u, counted, "down"),
           otherYes |-> Count(u, others, "up"), adminUp |-> ups(u)]
  BY DEF Recount, Count, counted
<1>10. x \in others <=> x \in counted /\ x # Author
  OBVIOUS
<1> HIDE DEF active, g, ups, others
<1> DEFINE h == [g EXCEPT !.adminUp = admins]
<1>11. g.adminUp = ups(vote)
  BY <1>8
<1>12. h = [active |-> active, yes |-> Count(vote, counted, "up"), no |-> Count(vote, counted, "down"),
            otherYes |-> Count(vote, others, "up"), adminUp |-> admins]
  BY <1>8
<1> HIDE DEF admins
<1>13. WithVote(g, x, vote[x], now) =
         IF x \notin counted THEN h
         ELSE [h EXCEPT !.yes = @ + Step(vote[x], now, "up"), !.no = @ + Step(vote[x], now, "down"),
                        !.otherYes = @ + (IF x # Author THEN Step(vote[x], now, "up") ELSE 0)]
  BY <1>11 DEF WithVote, admins, counted
<1> HIDE DEF h
<1>14. CASE x \notin counted
  BY <1>4, <1>6, <1>9, <1>10, <1>12, <1>13, <1>14 DEF g, u
<1>15. CASE x \in counted
  <2> DEFINE other == Count(vote, others, "up") + (IF x # Author THEN Step(vote[x], now, "up") ELSE 0)
  <2>1. WithVote(g, x, vote[x], now) =
          [active |-> active, yes |-> Count(vote, counted, "up") + Step(vote[x], now, "up"),
           no |-> Count(vote, counted, "down") + Step(vote[x], now, "down"),
           otherYes |-> other, adminUp |-> admins]
    BY <1>12, <1>13, <1>15
  <2>2. Count(u, counted, "up") = Count(vote, counted, "up") + Step(vote[x], now, "up")
    BY <1>5, <1>15
  <2>3. Count(u, counted, "down") = Count(vote, counted, "down") + Step(vote[x], now, "down")
    BY <1>5, <1>15
  <2>4. other = Count(u, others, "up")
    <3>1. CASE x # Author
      BY <1>5, <1>10, <1>15, <3>1
    <3>2. CASE x = Author
      BY <1>6, <1>7, <1>10, <3>2
    <3> QED
      BY <3>1, <3>2
  <2> HIDE DEF other
  <2> QED
    BY <1>4, <1>9, <2>1, <2>2, <2>3, <2>4 DEF g, u
<1> QED
  BY <1>14, <1>15

\* A gate that is open on the counts it leaves is open.
LEMMA GateAsked ==
  ASSUME row'.kind = row.kind, UNCHANGED <<app, age>>,
         NEW g, Mergeable(g), g = Recount(vote)'
  PROVE  GateOpen'
BY DEF GateOpen, Mergeable, Approved, VotesIn

LEMMA GateUnmoved ==
  ASSUME row'.kind = row.kind, UNCHANGED <<vote, app, electors, age>>, Mergeable(Gate)
  PROVE  GateOpen'
<1>1. Gate = Recount(vote)'
  BY DEF Gate, Recount
<1> QED
  BY <1>1, GateAsked

\* Whichever step the group decides in, the gate was read in it, and read as
\* the step leaves it.
LEMMA GroupDecides ==
  ASSUME GovInv, Next, ByGroup
  PROVE  GateOpen'
<1>1. ProposalInv /\ WorldOK
  BY DEF GovInv
<1>2. ~(p' = p)
  BY DEF ByGroup, Nobody, Group
<1>3. CASE Filed
  <2>1. DecidesIn(Author, "up") /\ Author \in Voters
    BY <1>3, PeopleAssumption DEF DecidesIn
  <2>2. Mergeable(Gate) /\ row'.kind = row.kind
    BY <1>1, <1>3, <2>1, FiledKeeps, DecisionWorld
  <2> QED
    BY <1>3, <2>2, GateUnmoved DEF Filed, people
<1>4. ASSUME NEW x \in Voters, NEW side \in {"up", "down"}, VoteCast(x, side) PROVE GateOpen'
  <2> DEFINE now == IF vote[x] = side THEN "none" ELSE side
             u == [vote EXCEPT ![x] = now]
             g == WithVote(Gate, x, vote[x], now)
  <2>1. DecidesIn(x, side) /\ now \in Sides
    BY <1>4 DEF DecidesIn, Sides
  <2>2. row'.kind = row.kind
    BY <1>1, <2>1, DecisionWorld
  <2>3. ~Outside /\ Mergeable(g)
    BY <1>1, <1>4, VoteKeeps
  <2>4. vote' = u /\ UNCHANGED <<app, electors, age>>
    BY <1>4, <2>3 DEF VoteCast
  <2>5. g = Recount(u)
    <3> HIDE DEF now
    <3> QED
      BY <1>1, <2>1, VoteIsCounted DEF Gate
  <2>6. Recount(u) = Recount(vote)'
    <3> HIDE DEF u
    <3> QED
      BY <2>4 DEF Recount
  <2> HIDE DEF g, u
  <2> QED
    BY <2>2, <2>3, <2>4, <2>5, <2>6, GateAsked
<1>5. CASE Evaluate
  <2>1. DecidesIn(Author, "up") /\ Author \in Voters
    BY <1>5, PeopleAssumption DEF DecidesIn
  <2>2. Mergeable(Gate) /\ row'.kind = row.kind
    BY <1>1, <1>5, <2>1, EvaluateKeeps, DecisionWorld
  <2> QED
    BY <1>5, <2>2, GateUnmoved DEF Evaluate, people
<1>6. ASSUME NEW k \in DOMAIN work, CheckResult(k) PROVE GateOpen'
  <2>1. Mergeable(Gate) /\ row'.kind = row.kind
    BY <1>1, <1>6, CheckResultKeeps, ResultWorld
  <2> QED
    BY <1>6, <2>1, GateUnmoved DEF CheckResult, people
<1>7. CASE Decides
  BY <1>1, <1>3, <1>4, <1>5, <1>6, <1>7, AdminApplyKeeps, WithdrawKeeps, TargetClosedKeeps,
     FollowupResultKeeps, DeliveryAnswerKeeps, RetryKeeps DEF Decides
<1>8. CASE (\E k \in DOMAIN work : Handles(k)) \/ Delivers \/ Environment
  BY <1>1, <1>2, <1>8, HandlesKeeps, DeliversKeeps, EnvironmentKeeps
<1> QED
  BY <1>7, <1>8 DEF Next

\* GroupVoteHolds: a group's vote decides only what the votes it leaves
\* behind carry, under the electorate, the clock and the lock of that moment.
THEOREM GroupAlwaysCarries == Spec => GroupVoteHolds
<1>1. GovInv /\ [Next]_vars => [p.by = Nobody /\ p'.by = Group => GateOpen']_vars
  <2> SUFFICES ASSUME GovInv, Next, p.by = Nobody, p'.by = Group PROVE GateOpen'
    OBVIOUS
  <2>1. ByGroup
    BY DEF ByGroup
  <2> QED
    BY <2>1, GroupDecides
<1> QED
  BY <1>1, GovInvariant, PTL DEF Spec, GroupVoteHolds
=============================================================================
