---------------------------- MODULE MergeProofs -----------------------------
(* Theorems about the merge line (MergeLine), for any number of proposals   *)
(* and any bounds, and their proofs.                                        *)
EXTENDS MergeLine, FiniteSetTheorems, TLAPS

(***************************************************************************)
(* Types.  What the inboxes and the works hold makes MergeTypeOK inductive.*)
(***************************************************************************)
Letters ==
  [type : {"MergeWanted"}, p : Proposals \cup {None}]
    \cup [type : {"AttemptEnded", "ResolutionEnded"}, p : Proposals, n : AnyNumber]
    \cup [type : {"Check"}]
GateOutcomes == {"ready", "blocked"}
AttemptOutcomes == {"merged", "back", "exhausted", "closed", "rate_limited", "base_moved",
                    "conflict", "held", "busy"}
Dones(kind, outcomes) ==
  [type : {"WorkDone"}, p : Proposals, kind : {kind}, n : AnyNumber, outcome : outcomes,
   head : Heads, epoch : Nat]
Events ==
  [type : {"MergeRequested"}, p : Proposals, n : AnyNumber, force : BOOLEAN]
    \cup [type : {"SyncRequested"}, p : Proposals, n : AnyNumber, approved : BOOLEAN, github : BOOLEAN]
    \cup [type : {"Merged"}, p : Proposals]
    \cup Dones("gate", GateOutcomes) \cup Dones("attempt", AttemptOutcomes)
Works == [p : Proposals, kind : {"gate", "attempt", "sync"}, n : AnyNumber, head : AnyHead]

LettersOK == inbox \subseteq Letters /\ pin \subseteq Events /\ work \subseteq Works
TypeInv == MergeTypeOK /\ LettersOK

\* Numbers are picked from those nothing names.
LEMMA PickFresh == ASSUME NEW S, S # {} PROVE Pick(S) \in S
BY DEF Pick

LEMMA FreshNumbers ==
  /\ FreshAsks # {} => Pick(FreshAsks) \in Numbers
  /\ \A p : FreshWorks(p) # {} => Pick(FreshWorks(p)) \in Numbers
BY PickFresh DEF FreshAsks, FreshWorks

LEMMA HeadsFacts == Heads \subseteq Nat \ {0} /\ NoHead \notin Heads /\ 1 \in Heads /\ AnyHead \subseteq Nat
BY MergeLineAssumption DEF Heads, NoHead, AnyHead

LEMMA BlankTypes ==
  /\ NoAttempt \in AttemptsOf /\ NoSync \in SyncsOf /\ NoSlot \in QueueSlots
  /\ NoRefusal \in Refusals /\ NotGivenUp \in [head : AnyHead, main : Nat]
BY DEF NoAttempt, NoSync, NoSlot, NoRefusal, NotGivenUp, AttemptsOf, SyncsOf, QueueSlots, Refusals,
       AnyHead, AnyNumber, MergeStages

LEMMA InitTypes == Init => TypeInv
<1> SUFFICES ASSUME Init PROVE TypeInv
  OBVIOUS
<1> USE BlankTypes, HeadsFacts
<1>0. left \in [line : SUBSET Proposals, approved : SUBSET Proposals, clean : SUBSET Proposals,
                moves : Nat, faults : Nat, late : Nat, kinds : SUBSET Kinds]
  BY MergeLineAssumption DEF Init
<1>1. queue \in Queues /\ timer \in {"none", "Check", "Sweep"}
  BY DEF Init, Queues
<1>2. prop \in [Proposals -> Props]
  BY <1>0 DEF Init, Props, Open, NoHead, AnyHead
<1>3. row \in [Proposals -> Rows]
  BY <1>0 DEF Init, Rows
<1>4. gh \in [Proposals -> Branches]
  BY DEF Init, Branches, Weight, AnyHead
<1>5. LettersOK
  BY DEF Init, LettersOK, Letters, Wanted
<1> QED
  BY <1>1, <1>2, <1>3, <1>4, <1>5 DEF TypeInv, MergeTypeOK, Init

-----------------------------------------------------------------------------
(* The helpers build what they should                                      *)

LEMMA LetterTypes ==
  ASSUME NEW p \in Proposals, NEW n \in AnyNumber
  PROVE  {Ended(p, n), Resolved(p, n), Wanted(p), Wanted(None), Fired("Check")} \subseteq Letters
BY DEF Ended, Resolved, Wanted, Fired, Letters

LEMMA ToldTypes ==
  ASSUME prop \in [Proposals -> Props], NEW p \in Proposals
  PROVE  AttemptTold(p) \subseteq Letters /\ SyncTold(p) \subseteq Letters /\ SlotsTold(p) \subseteq Letters
<1>1. prop[p].attempt.queueN \in AnyNumber /\ prop[p].sync.queueN \in AnyNumber
  BY DEF Props, AttemptsOf, SyncsOf
<1> QED
  BY <1>1, LetterTypes DEF AttemptTold, SyncTold, SlotsTold

LEMMA EventTypes ==
  ASSUME NEW p \in Proposals, NEW n \in AnyNumber, NEW a \in BOOLEAN, NEW b \in BOOLEAN
  PROVE  {MergeRequested(p, n, a), SyncRequested(p, n, a, b), Merged(p)} \subseteq Events
BY DEF MergeRequested, SyncRequested, Merged, Events

LEMMA WorkTypes ==
  ASSUME NEW p \in Proposals, NEW n \in AnyNumber, NEW h \in AnyHead,
         NEW kind \in {"gate", "attempt", "sync"}
  PROVE  Work(p, kind, n, h) \in Works
BY DEF Work, Works

\* A step of p keeps the types when what it makes of p has them.
LEMMA StepTypes ==
  ASSUME TypeInv, NEW p \in Proposals, NEW m, NEW s \in Props, NEW r \in Rows,
         NEW started \in SUBSET Works, NEW msgs \in SUBSET Letters, Step(p, m, s, r, started, msgs),
         gh' = gh, main' = main, told' \subseteq Proposals
  PROVE  TypeInv'
BY DEF TypeInv, MergeTypeOK, LettersOK, Step, queueVars

LEMMA RowMovesTypes ==
  ASSUME TypeInv, NEW p \in Proposals, NEW r \in Rows, NEW msgs \in SUBSET Letters, RowMoves(p, r, msgs),
         gh' = gh, main' = main, told' \subseteq Proposals
  PROVE  TypeInv'
BY DEF TypeInv, MergeTypeOK, LettersOK, RowMoves, queueVars

\* The records a transition changes are typed field by field.
LEMMA AttemptTypes ==
  ASSUME NEW a \in AttemptsOf, NEW n \in AnyNumber, NEW stage \in MergeStages \cup {"none", "merged"}
  PROVE  [a EXCEPT !.stage = stage] \in AttemptsOf /\ [a EXCEPT !.n = n, !.retried = TRUE] \in AttemptsOf
BY DEF AttemptsOf

LEMMA PropTypes ==
  ASSUME NEW s \in Props, NEW state \in Open \cup {"closed", "merged"}, NEW a \in AttemptsOf,
         NEW y \in SyncsOf, NEW h \in AnyHead
  PROVE  /\ [s EXCEPT !.state = state] \in Props
         /\ [s EXCEPT !.attempt = a] \in Props
         /\ [s EXCEPT !.sync = y] \in Props
         /\ [s EXCEPT !.force = h] \in Props
         /\ [s EXCEPT !.state = state, !.attempt = a] \in Props
         /\ [s EXCEPT !.state = state, !.force = h, !.attempt = a, !.sync = y] \in Props
         /\ s.refused \in Refusals /\ s.force \in AnyHead /\ s.attempt \in AttemptsOf /\ s.sync \in SyncsOf
BY DEF Props

LEMMA StageTypes ==
  ASSUME NEW s \in Props, NEW state \in Open \cup {"closed", "merged"}, NEW n \in AnyNumber,
         NEW stage \in MergeStages \cup {"none", "merged"}
  PROVE  /\ [s EXCEPT !.state = state, !.attempt.stage = stage] \in Props
         /\ [s EXCEPT !.attempt.n = n, !.attempt.retried = TRUE] \in Props
<1>1. s.attempt \in AttemptsOf
  BY DEF Props
<1>2. /\ [s.attempt EXCEPT !.stage = stage] \in AttemptsOf
      /\ [s.attempt EXCEPT !.n = n, !.retried = TRUE] \in AttemptsOf
  BY <1>1, AttemptTypes
<1>3. [s EXCEPT !.state = state, !.attempt.stage = stage]
        = [s EXCEPT !.state = state, !.attempt = [s.attempt EXCEPT !.stage = stage]]
  BY DEF Props
<1>4. [s EXCEPT !.attempt.n = n, !.attempt.retried = TRUE]
        = [s EXCEPT !.attempt = [s.attempt EXCEPT !.n = n, !.retried = TRUE]]
  BY <1>1 DEF Props, AttemptsOf
<1> QED
  BY <1>2, <1>3, <1>4 DEF Props

LEMMA StateNames ==
  {"underway", "in_review", "merging", "unconfirmed", "closed", "merged"} = Open \cup {"closed", "merged"}
BY DEF Open

LEMMA EndsTypes ==
  ASSUME NEW s \in Props, NEW state \in Open \cup {"closed", "merged"}
  PROVE  Ends(s, state) \in Props
BY BlankTypes, PropTypes DEF Ends, AnyHead

LEMMA VotesVoidTypes == ASSUME NEW r \in Rows PROVE VotesVoid(r) \in Rows
<1>1. r.epoch + 1 \in Nat
  BY DEF Rows
<1> QED
  BY <1>1 DEF Rows, VotesVoid

\* What p's records are made of.
LEMMA RecordTypes ==
  ASSUME TypeInv, NEW p \in Proposals
  PROVE  /\ prop[p] \in Props /\ prop[p].attempt \in AttemptsOf /\ prop[p].sync \in SyncsOf
         /\ row[p] \in Rows /\ prop[p].force \in AnyHead /\ prop[p].refused \in Refusals
         /\ row[p].head # NoHead /\ row[p].head \in AnyHead /\ row[p].epoch \in Nat
BY HeadsFacts DEF TypeInv, MergeTypeOK, Props, Rows, AnyHead

-----------------------------------------------------------------------------
(* The queue's pass                                                        *)

LEMMA PassTypes ==
  ASSUME NEW d \in Queues
  PROVE  Pass(d) \in Queues /\ PassOver(d) \in Queues /\ NewPass(d) \in Queues
BY DEF Queues, Pass, NewPass, PassOver

LEMMA AskTypes ==
  ASSUME NEW d \in Queues, NEW ask \in Asks(d), ask # NoAsk
  PROVE  ask \in [lane : {"merge", "sync"}, p : Line] /\ Line \subseteq Proposals
BY DEF Asks, Cheapest, CheapestConflict, Untried, Direct, Resolvable, Line

LEMMA LookTypes ==
  ASSUME TypeInv, NEW d \in Queues, LookAtLine(d)
  PROVE  queue' \in Queues /\ timer' \in {"none", "Check", "Sweep"} /\ pin' \subseteq Events
<1> DEFINE e == Pass(d)
<1>1. e \in Queues /\ PassOver(e) \in Queues
  BY PassTypes
<1>2. PICK ask \in Asks(e) :
        IF ask = NoAsk
        THEN /\ pin' = pin
             /\ IF Working(d)
                THEN queue' = e /\ timer' = timer
                ELSE /\ queue' = PassOver(e)
                     /\ timer' = IF Line # {} THEN "Sweep" ELSE "none"
        ELSE /\ FreshAsks # {}
             /\ Ask(e, ask, Pick(FreshAsks))
             /\ timer' = "Check"
  BY DEF LookAtLine
<1>3. CASE ask = NoAsk
  BY <1>1, <1>2, <1>3 DEF TypeInv, MergeTypeOK, LettersOK
<1>4. CASE ask # NoAsk
  <2> DEFINE n == Pick(FreshAsks)
  <2>1. /\ ask.lane \in {"merge", "sync"} /\ ask.p \in Proposals /\ n \in AnyNumber /\ n \in Numbers
        /\ Ask(e, ask, n) /\ timer' = "Check"
    BY <1>1, <1>2, <1>4, AskTypes, FreshNumbers DEF AnyNumber
  <2>2. Key(ask.lane, ask.p) \in Keys
    BY <2>1 DEF TypeInv, MergeTypeOK, Rows, Key, Keys
  <2>3. [n |-> n, p |-> ask.p] \in QueueSlots
    BY <2>1 DEF QueueSlots
  <2>4. Forced(ask.p) \in BOOLEAN /\ AdmittedApproved(ask.p) \in BOOLEAN /\ GithubConflict(ask.p) \in BOOLEAN
    BY DEF Forced, AdmittedApproved, GithubConflict
  <2>5. /\ MergeRequested(ask.p, n, Forced(ask.p)) \in Events
        /\ SyncRequested(ask.p, n, AdmittedApproved(ask.p), GithubConflict(ask.p)) \in Events
    BY <2>1, <2>4, EventTypes
  <2> HIDE DEF n, e
  <2>6. CASE ask.lane = "merge"
    <3>1. queue' = [e EXCEPT !.attempt = [n |-> n, p |-> ask.p], !.tried = @ \cup {Key("merge", ask.p)}]
      BY <2>1, <2>6 DEF Ask
    <3>2. pin' = pin \cup {MergeRequested(ask.p, n, Forced(ask.p))}
      BY <2>1, <2>6 DEF Ask
    <3> QED
      BY <1>1, <2>1, <2>2, <2>3, <2>5, <2>6, <3>1, <3>2 DEF Queues, TypeInv, LettersOK
  <2>7. CASE ask.lane # "merge"
    <3>1. queue' = [e EXCEPT !.resolution = [n |-> n, p |-> ask.p], !.tried = @ \cup {Key("sync", ask.p)}]
      BY <2>1, <2>7 DEF Ask
    <3>2. pin' = pin \cup {SyncRequested(ask.p, n, AdmittedApproved(ask.p), GithubConflict(ask.p))}
      BY <2>1, <2>7 DEF Ask
    <3>3. ask.lane = "sync"
      BY <2>1, <2>7
    <3> QED
      BY <1>1, <2>1, <2>2, <2>3, <2>5, <3>1, <3>2, <3>3 DEF Queues, TypeInv, LettersOK
  <2> QED
    BY <2>6, <2>7
<1> QED
  BY <1>3, <1>4

LEMMA QueueTypes ==
  ASSUME TypeInv, QueueDecides \/ QSweep \/ CheckDue
  PROVE  TypeInv'
<1>0. queue \in Queues
  BY DEF TypeInv, MergeTypeOK
<1>1. ASSUME NEW p \in Proposals \cup {None}, QWanted(p) PROVE TypeInv'
  <2> DEFINE d == IF Working(queue)
                  THEN [queue EXCEPT !.tried = {k \in @ : k[1] = "sync" \/ k[2] # p},
                                     !.owed = TRUE, !.named = Named(p)]
                  ELSE [queue EXCEPT !.tried = {}, !.owed = FALSE, !.named = Named(p)]
  <2>1. d \in Queues
    BY <1>0, <1>1 DEF Queues, Named
  <2>2. LookAtLine(d)
    BY <1>1 DEF QWanted
  <2> HIDE DEF d
  <2>3. queue' \in Queues /\ timer' \in {"none", "Check", "Sweep"} /\ pin' \subseteq Events
    BY <2>1, <2>2, LookTypes
  <2> QED
    BY <1>1, <2>3 DEF QWanted, Unread, TypeInv, MergeTypeOK, LettersOK, world
<1>2. ASSUME NEW p \in Proposals \cup {None}, NEW m \in AnswersOf(p), QAnswered(m) PROVE TypeInv'
  <2>1. [queue EXCEPT !.attempt = NoSlot] \in Queues /\ [queue EXCEPT !.resolution = NoSlot] \in Queues
    BY <1>0, BlankTypes DEF Queues
  <2>2. queue' \in Queues /\ timer' \in {"none", "Check", "Sweep"} /\ pin' \subseteq Events
    BY <1>2, <2>1, LookTypes DEF QAnswered, queueVars, TypeInv, MergeTypeOK, LettersOK
  <2> QED
    BY <1>2, <2>2 DEF QAnswered, Unread, TypeInv, MergeTypeOK, LettersOK, world
<1>3. CASE QCheck
  <2> DEFINE a == IF queue.attempt # NoSlot /\ HoldsAttempt(queue.attempt) THEN queue.attempt ELSE NoSlot
             r == IF queue.resolution # NoSlot /\ HoldsSync(queue.resolution)
                  THEN queue.resolution ELSE NoSlot
             d == [queue EXCEPT !.attempt = a, !.resolution = r]
  <2>1. queue' \in {queue, d, NewPass(d)}
    BY <1>3 DEF QCheck, queueVars
  <2>2. queue' \in Queues
    <3>1. a \in QueueSlots /\ r \in QueueSlots
      BY <1>0, BlankTypes DEF Queues
    <3>2. d \in Queues
      BY <1>0, <3>1 DEF Queues
    <3> QED
      BY <1>0, <2>1, <3>2, PassTypes
  <2>3. timer' \in {timer, "Check", "none"} /\ inbox' \subseteq inbox \cup {Wanted(None)}
    BY <1>3 DEF QCheck, queueVars, Unread
  <2>4. Wanted(None) \in Letters
    BY DEF Wanted, Letters
  <2> QED
    BY <1>3, <2>2, <2>3, <2>4 DEF QCheck, TypeInv, MergeTypeOK, LettersOK, world
<1>4. CASE QSweep
  <2>1. queue' \in Queues /\ timer' \in {"none", "Check", "Sweep"} /\ pin' \subseteq Events
    BY <1>0, <1>4, PassTypes, LookTypes DEF QSweep
  <2> QED
    BY <1>4, <2>1 DEF QSweep, TypeInv, MergeTypeOK, LettersOK, world
<1>5. CASE CheckDue
  BY <1>5 DEF CheckDue, TypeInv, MergeTypeOK, LettersOK, Fired, Letters
<1> QED
  BY <1>1, <1>2, <1>3, <1>4, <1>5 DEF QueueDecides

-----------------------------------------------------------------------------
(* The merge                                                               *)

LEMMA MergeAskedTypes ==
  ASSUME TypeInv, NEW p \in Proposals, MergeAsked(p)
  PROVE  TypeInv'
<1>1. PICK m \in pin :
        /\ m.type = "MergeRequested" /\ m.p = p
        /\ IF AskRefused(p)
           THEN Step(p, m, prop[p], row[p], {}, {Ended(p, m.n)})
           ELSE /\ FreshWorks(p) # {}
                /\ LET n == Pick(FreshWorks(p))
                       a == [stage |-> "gate", n |-> n, queueN |-> m.n, force |-> m.force /\ Forced(p),
                             head |-> row[p].head, epoch |-> row[p].epoch, retried |-> FALSE]
                   IN Step(p, m, [prop[p] EXCEPT !.attempt = a], row[p], {Work(p, "gate", n, NoHead)}, {})
  BY DEF MergeAsked
<1>2. m.n \in AnyNumber /\ m.force \in BOOLEAN
  BY <1>1 DEF TypeInv, LettersOK, Events, Dones
<1>3. prop[p] \in Props /\ row[p] \in Rows /\ row[p].head \in Heads /\ row[p].epoch \in Nat
  BY DEF TypeInv, MergeTypeOK, Rows
<1>4. gh' = gh /\ main' = main /\ told' \subseteq Proposals
  BY DEF MergeAsked, world, TypeInv, MergeTypeOK
<1>5. CASE AskRefused(p)
  BY <1>1, <1>2, <1>3, <1>4, <1>5, LetterTypes, StepTypes
<1>6. CASE ~AskRefused(p)
  <2> DEFINE n == Pick(FreshWorks(p))
             a == [stage |-> "gate", n |-> n, queueN |-> m.n, force |-> m.force /\ Forced(p),
                   head |-> row[p].head, epoch |-> row[p].epoch, retried |-> FALSE]
  <2>1. n \in AnyNumber
    BY <1>1, <1>6, FreshNumbers DEF AnyNumber
  <2>2. a \in AttemptsOf
    BY <1>2, <1>3, <2>1 DEF AttemptsOf, MergeStages, AnyHead
  <2>3. [prop[p] EXCEPT !.attempt = a] \in Props
    BY <1>3, <2>2 DEF Props
  <2>4. Work(p, "gate", n, NoHead) \in Works
    BY <2>1, WorkTypes DEF AnyHead
  <2> QED
    BY <1>1, <1>3, <1>4, <1>6, <2>3, <2>4, StepTypes
<1> QED
  BY <1>5, <1>6

LEMMA GatedTypes ==
  ASSUME TypeInv, NEW p \in Proposals, Gated(p)
  PROVE  TypeInv'
<1> DEFINE a == prop[p].attempt
           s == [prop[p] EXCEPT !.state = "merging", !.attempt.stage = "merge"]
           w == Work(p, "attempt", a.n, row[p].head)
           t == [prop[p] EXCEPT !.attempt = NoAttempt]
<1>1. PICK m \in pin : \/ Step(p, m, prop[p], row[p], {}, {})
                       \/ Step(p, m, s, row[p], {w}, {})
                       \/ Step(p, m, t, row[p], {}, {Ended(p, a.queueN)})
  BY DEF Gated
<1>2. prop[p] \in Props /\ row[p] \in Rows /\ a.n \in AnyNumber /\ a.queueN \in AnyNumber
  BY DEF TypeInv, MergeTypeOK, Props, AttemptsOf
<1>3. gh' = gh /\ main' = main /\ told' \subseteq Proposals
  BY DEF Gated, world, TypeInv, MergeTypeOK
<1>4. s \in Props
  BY <1>2, StageTypes, StateNames DEF MergeStages
<1>6. t \in Props
  BY <1>2, BlankTypes DEF Props
<1>5. w \in Works
  BY <1>2, WorkTypes DEF Rows, AnyHead
<1> QED
  BY <1>1, <1>2, <1>3, <1>4, <1>5, <1>6, LetterTypes, StepTypes

LEMMA MergedOnGithubTypes ==
  ASSUME TypeInv, NEW p \in Proposals, NEW m, MergedOnGithub(p, m), gh' = gh, main' = main
  PROVE  TypeInv'
<1> DEFINE s == [prop[p] EXCEPT !.state = "merging", !.attempt = [@ EXCEPT !.stage = "merged"]]
<1>1. s \in Props
  <2>1. prop[p] \in Props /\ prop[p].attempt \in AttemptsOf
    BY DEF TypeInv, MergeTypeOK, Props
  <2>2. [prop[p].attempt EXCEPT !.stage = "merged"] \in AttemptsOf
    BY <2>1 DEF AttemptsOf
  <2> QED
    BY <2>1, <2>2, PropTypes, StateNames DEF Props
<1>2. Step(p, m, s, row[p], {}, AttemptTold(p)) /\ told' \subseteq Proposals
  BY DEF MergedOnGithub, TypeInv, MergeTypeOK
<1> QED
  BY <1>1, <1>2, ToldTypes, StepTypes DEF TypeInv, MergeTypeOK

LEMMA BackTypes ==
  ASSUME TypeInv, NEW p \in Proposals, NEW m, NEW refusal \in Refusals, BackToReview(p, m, refusal),
         gh' = gh, main' = main, told' = told
  PROVE  TypeInv'
<1> DEFINE s == [prop[p] EXCEPT !.state = "in_review", !.attempt = NoAttempt, !.refused = refusal]
<1>1. s \in Props
  BY RecordTypes, BlankTypes DEF Props, Open
<1>2. prop[p].attempt.queueN \in AnyNumber /\ row[p] \in Rows
  BY DEF TypeInv, MergeTypeOK, Props, AttemptsOf
<1>3. Step(p, m, s, row[p], {}, {Ended(p, prop[p].attempt.queueN)})
  BY DEF BackToReview
<1>4. told' \subseteq Proposals
  BY DEF TypeInv, MergeTypeOK
<1> QED
  BY <1>1, <1>2, <1>3, <1>4, LetterTypes, StepTypes

LEMMA AbandonedTypes ==
  ASSUME TypeInv, NEW p \in Proposals, NEW m, Abandoned(p, m), gh' = gh, main' = main, told' = told
  PROVE  TypeInv'
<1> DEFINE s == [prop[p] EXCEPT !.state = "underway", !.force = NoHead, !.attempt = NoAttempt,
                                !.sync = NoSync]
           r == [row[p] EXCEPT !.epoch = @ + 1, !.approved = FALSE]
<1>1. s \in Props
  BY RecordTypes, BlankTypes DEF Props, Open, AnyHead
<1>2. r \in Rows
  BY VotesVoidTypes DEF TypeInv, MergeTypeOK, VotesVoid
<1>3. SlotsTold(p) \subseteq Letters /\ told' \subseteq Proposals
  BY ToldTypes DEF TypeInv, MergeTypeOK
<1> QED
  BY <1>1, <1>2, <1>3, StepTypes DEF Abandoned

LEMMA AskedAgainTypes ==
  ASSUME TypeInv, NEW p \in Proposals, NEW m, AskedAgain(p, m), gh' = gh, main' = main, told' = told
  PROVE  TypeInv'
<1> DEFINE n == Pick(FreshWorks(p))
           s == [prop[p] EXCEPT !.attempt.n = n, !.attempt.retried = TRUE]
<1>1. n \in AnyNumber
  BY FreshNumbers DEF AskedAgain, AnyNumber
<1>2. s \in Props
  BY <1>1, StageTypes, StateNames DEF TypeInv, MergeTypeOK, MergeStages
<1>3. Work(p, "attempt", n, row[p].head) \in Works /\ row[p] \in Rows
  BY <1>1, WorkTypes DEF TypeInv, MergeTypeOK, Rows, AnyHead
<1>4. told' \subseteq Proposals
  BY DEF TypeInv, MergeTypeOK
<1> QED
  BY <1>2, <1>3, <1>4, StepTypes DEF AskedAgain

LEMMA AttemptedTypes ==
  ASSUME TypeInv, NEW p \in Proposals, Attempted(p)
  PROVE  TypeInv'
<1> DEFINE a == prop[p].attempt
           refusal(kind) == [head |-> row[p].head, main |-> row[p].main, kind |-> kind]
           s == [prop[p] EXCEPT !.state = "unconfirmed", !.attempt.stage = "unconfirmed"]
<1>1. PICK m \in pin :
        /\ m.type = "WorkDone" /\ m.kind = "attempt"
        /\ m.outcome # "merged" => told' = told
        /\ \/ Step(p, m, prop[p], row[p], {}, {}) /\ told' = told
           \/ MergedOnGithub(p, m)
           \/ m.outcome # "merged" /\ Step(p, m, s, row[p], {}, AttemptTold(p))
           \/ m.outcome # "merged" /\ BackToReview(p, m, prop[p].refused)
           \/ m.outcome # "merged" /\ Abandoned(p, m)
           \/ m.outcome # "merged" /\ AskedAgain(p, m)
           \/ m.outcome # "merged" /\ BackToReview(p, m, NoRefusal)
           \/ m.outcome \notin {"merged", "exhausted", "back", "closed", "rate_limited", "base_moved"}
                /\ BackToReview(p, m, refusal(m.outcome))
  BY DEF Attempted
<1>2. gh' = gh /\ main' = main
  BY DEF Attempted
<1>3. prop[p] \in Props /\ row[p] \in Rows /\ prop[p].refused \in Refusals
  BY DEF TypeInv, MergeTypeOK, Props
<1>4. s \in Props
  BY <1>3, StageTypes, StateNames DEF MergeStages, AnyNumber
<1>5. m.outcome \in AttemptOutcomes
  BY <1>1 DEF TypeInv, LettersOK, Events, Dones
<1>6. m.outcome \notin {"merged", "exhausted", "back", "closed", "rate_limited", "base_moved"}
        => refusal(m.outcome) \in Refusals
  BY <1>3, <1>5 DEF AttemptOutcomes, Refusals, Rows, AnyHead
<1>7. AttemptTold(p) \subseteq Letters /\ told \subseteq Proposals
  BY ToldTypes DEF TypeInv, MergeTypeOK
<1> QED
  BY <1>1, <1>2, <1>3, <1>4, <1>6, <1>7, BlankTypes, StepTypes, MergedOnGithubTypes, BackTypes,
     AbandonedTypes, AskedAgainTypes

LEMMA OtherMergeTypes ==
  ASSUME TypeInv, NEW p \in Proposals, Observed(p) \/ Resend(p) \/ MergeRecorded(p)
  PROVE  TypeInv'
<1>1. CASE Observed(p)
  <2>1. prop[p].refused \in Refusals
    BY DEF TypeInv, MergeTypeOK, Props
  <2> QED
    BY <1>1, <2>1, MergedOnGithubTypes, BackTypes DEF Observed
<1>2. CASE Resend(p)
  BY <1>2 DEF Resend, TypeInv, MergeTypeOK, LettersOK, queueVars
<1>3. CASE MergeRecorded(p)
  <2> DEFINE a == prop[p].attempt
             stage == IF a.stage = "none" THEN "none" ELSE "merged"
             t == [prop[p] EXCEPT !.state = "merged", !.force = NoHead, !.sync = NoSync,
                                  !.attempt.stage = IF @ = "none" THEN "none" ELSE "merged"]
             s == IF prop[p].state = "merged" THEN prop[p] ELSE t
             msgs == IF prop[p].state = "merged" THEN {} ELSE SlotsTold(p)
  <2>1. prop[p] \in Props /\ a \in AttemptsOf /\ row[p] \in Rows
    BY DEF TypeInv, MergeTypeOK, Props
  <2>2. [a EXCEPT !.stage = stage] \in AttemptsOf
    BY <2>1, AttemptTypes DEF AnyNumber
  <2>3. t = [prop[p] EXCEPT !.state = "merged", !.force = NoHead, !.attempt = [a EXCEPT !.stage = stage],
                            !.sync = NoSync]
    BY <2>1 DEF Props
  <2>4. s \in Props
    <3> DEFINE b == [a EXCEPT !.stage = stage]
    <3> HIDE DEF b, a, stage
    <3>1. [prop[p] EXCEPT !.state = "merged", !.force = NoHead, !.attempt = b, !.sync = NoSync] \in Props
      BY <2>1, <2>2, BlankTypes DEF Props, Open, AnyHead, b
    <3> QED
      BY <2>1, <2>3, <3>1 DEF b
  <2>5. msgs \subseteq Letters
    BY ToldTypes DEF TypeInv, MergeTypeOK
  <2>6. Step(p, Merged(p), s, row[p], {}, msgs) /\ UNCHANGED world
    BY <1>3 DEF MergeRecorded
  <2> HIDE DEF s, msgs
  <2>7. gh' = gh /\ main' = main /\ told' \subseteq Proposals
    BY <2>6 DEF world, TypeInv, MergeTypeOK
  <2> QED
    BY <2>1, <2>4, <2>5, <2>6, <2>7, StepTypes
<1> QED
  BY <1>1, <1>2, <1>3

-----------------------------------------------------------------------------
(* Syncs with main, people, GitHub and the other machines                  *)

LEMMA BeginSyncTypes ==
  ASSUME TypeInv, NEW p \in Proposals, NEW m, NEW q \in AnyNumber, NEW r \in Rows,
         m = NoEvent \/ m \in pin, BeginSync(p, m, q, r), gh' = gh, main' = main, told' = told
  PROVE  TypeInv'
<1> DEFINE n == Pick(FreshWorks(p))
           g == m.type = "SyncRequested" /\ m.github
           y == [n |-> n, queueN |-> q, head |-> row[p].head, github |-> g]
<1>1. n \in AnyNumber
  BY FreshNumbers DEF BeginSync, AnyNumber
<1>2. g \in BOOLEAN
  OBVIOUS
<1>3. row[p].head \in AnyHead /\ prop[p] \in Props /\ told' \subseteq Proposals
  BY DEF TypeInv, MergeTypeOK, Rows, AnyHead
<1>4. y \in SyncsOf
  BY <1>1, <1>2, <1>3 DEF SyncsOf
<1>5. [prop[p] EXCEPT !.sync = y] \in Props
  BY <1>3, <1>4, BlankTypes DEF Props
<1>6. Work(p, "sync", n, NoHead) \in Works
  BY <1>1, WorkTypes DEF AnyHead
<1>7. Step(p, m, [prop[p] EXCEPT !.sync = y], r, {Work(p, "sync", n, NoHead)}, {})
  BY DEF BeginSync
<1> QED
  BY <1>3, <1>5, <1>6, <1>7, StepTypes

LEMMA SyncAskTypes ==
  ASSUME TypeInv, NEW p \in Proposals, SyncAsked(p) \/ PersonSyncs(p)
  PROVE  TypeInv'
<1>0. row[p] \in Rows /\ prop[p] \in Props
  BY DEF TypeInv, MergeTypeOK
<1>1. CASE SyncAsked(p)
  <2>1. PICK m \in pin :
          /\ m.type = "SyncRequested"
          /\ \/ Step(p, m, prop[p], row[p], {}, {Resolved(p, m.n)})
             \/ \E r \in {row[p], [row[p] EXCEPT !.spent = row[p].epoch]} : BeginSync(p, m, m.n, r)
    BY <1>1 DEF SyncAsked
  <2>2. m.n \in AnyNumber
    BY <2>1 DEF TypeInv, LettersOK, Events, Dones
  <2>3. [row[p] EXCEPT !.spent = row[p].epoch] \in Rows
    BY <1>0 DEF Rows
  <2>4. gh' = gh /\ main' = main /\ told' = told /\ told' \subseteq Proposals
    BY <1>1 DEF SyncAsked, world, TypeInv, MergeTypeOK
  <2> QED
    BY <1>0, <2>1, <2>2, <2>3, <2>4, LetterTypes, StepTypes, BeginSyncTypes
<1>2. CASE PersonSyncs(p)
  <2>1. BeginSync(p, NoEvent, 0, row[p]) /\ gh' = gh /\ main' = main /\ told' = told
    BY <1>2 DEF PersonSyncs, Moved
  <2> QED
    BY <1>0, <2>1, BeginSyncTypes DEF AnyNumber
<1> QED
  BY <1>1, <1>2

\* However a sync ends, heard, stopped or neither: it is dropped, or nothing changes.
LEMMA SyncEnds ==
  ASSUME TypeInv, NEW p \in Proposals, SyncReports(p) \/ Stop(p)
  PROVE  /\ told' = told
         /\ \E m \in work \cup {NoEvent} :
              \/ Step(p, m, prop[p], row[p], {}, {})
              \/ \E t \in Props :
                   /\ t.attempt = prop[p].attempt /\ t.state = prop[p].state
                   /\ t.force = prop[p].force /\ t.sync = NoSync
                   /\ Step(p, m, t, row[p], {}, SyncTold(p))
<1>1. CASE SyncReports(p)
  <2>1. PICK w \in work, outcome \in {"done", "level", "unresolvable", "error"} : Synced(p, w, outcome)
    BY <1>1 DEF SyncReports
  <2> DEFINE s == prop[p].sync
             gaveUp == CASE outcome = "unresolvable" -> [head |-> s.head, main |-> main]
                         [] s.github /\ outcome = "level" -> [head |-> s.head, main |-> row[p].main]
                         [] OTHER -> prop[p].gaveUp
             t == [prop[p] EXCEPT !.sync = NoSync, !.gaveUp = gaveUp, !.backoff = outcome = "error"]
  <2>2. /\ [head |-> s.head, main |-> main] \in [head : AnyHead, main : Nat]
        /\ [head |-> s.head, main |-> row[p].main] \in [head : AnyHead, main : Nat]
        /\ prop[p].gaveUp \in [head : AnyHead, main : Nat]
    BY RecordTypes DEF Props, SyncsOf, Rows, TypeInv, MergeTypeOK
  <2>3. gaveUp \in [head : AnyHead, main : Nat]
    BY <2>2
  <2>4. Step(p, w, prop[p], row[p], {}, {}) \/ Step(p, w, t, row[p], {}, SyncTold(p))
    BY <2>1 DEF Synced
  <2>5. told' = told
    BY <1>1 DEF SyncReports
  <2> HIDE DEF gaveUp
  <2>6. /\ t \in Props /\ t.attempt = prop[p].attempt /\ t.state = prop[p].state
        /\ t.force = prop[p].force /\ t.sync = NoSync
    BY <2>3, RecordTypes, BlankTypes DEF Props
  <2> HIDE DEF t
  <2> QED
    BY <2>4, <2>5, <2>6
<1>2. CASE Stop(p)
  <2> DEFINE t == [prop[p] EXCEPT !.sync = NoSync, !.backoff = FALSE]
  <2>1. Step(p, NoEvent, t, row[p], {}, SyncTold(p)) /\ told' = told
    BY <1>2 DEF Stop, Moved
  <2>2. /\ t \in Props /\ t.attempt = prop[p].attempt /\ t.state = prop[p].state
        /\ t.force = prop[p].force /\ t.sync = NoSync
    BY RecordTypes, BlankTypes DEF Props
  <2> HIDE DEF t
  <2> QED
    BY <2>1, <2>2
<1> QED
  BY <1>1, <1>2

LEMMA SyncEndsTypes ==
  ASSUME TypeInv, NEW p \in Proposals, SyncReports(p) \/ Stop(p)
  PROVE  TypeInv'
<1>1. gh' = gh /\ main' = main /\ told' \subseteq Proposals
  BY DEF SyncReports, Stop, Moved, TypeInv, MergeTypeOK
<1>2. SyncTold(p) \subseteq Letters
  BY ToldTypes DEF TypeInv, MergeTypeOK
<1> QED
  BY <1>1, <1>2, RecordTypes, SyncEnds, StepTypes

LEMMA PushTypes ==
  ASSUME TypeInv, NEW p \in Proposals, NEW by \in DOMAIN Weight, Pushed(p, by)
  PROVE  gh' \in [Proposals -> Branches] /\ gh'[p].head \in Heads
<1> DEFINE who == IF gh[p].head # row[p].head /\ Weight[gh[p].by] > Weight[by] THEN gh[p].by ELSE by
           b == [gh[p] EXCEPT !.head = @ + 1, !.by = who]
<1>1. gh[p] \in Branches /\ gh[p].head \in Heads /\ gh[p].by \in DOMAIN Weight
  BY DEF TypeInv, MergeTypeOK, Branches
<1>2. gh[p].head + 1 \in Heads
  BY <1>1, MergeLineAssumption DEF Pushed, Heads
<1>3. who \in DOMAIN Weight
  BY <1>1
<1>4. b \in Branches /\ b.head \in Heads
  BY <1>1, <1>2, <1>3 DEF Branches
<1>5. gh' = [gh EXCEPT ![p] = b]
  BY DEF Pushed
<1> HIDE DEF b
<1> QED
  BY <1>4, <1>5 DEF TypeInv, MergeTypeOK

LEMMA GithubTypes ==
  ASSUME TypeInv, NEW p \in Proposals,
         SyncPushes(p) \/ AuthorPushes(p) \/ MergedByHand(p) \/ GithubMerges(p)
  PROVE  TypeInv'
<1>1. CASE SyncPushes(p)
  <2>1. PICK w \in work :
          /\ \E by \in {"mechanical", "resolved"} : Pushed(p, by)
          /\ work' = (work \ {w}) \cup {[w EXCEPT !.head = gh'[p].head]}
          /\ UNCHANGED <<queueVars, inbox, prop, pin, row, main, told, left>>
    BY <1>1 DEF SyncPushes
  <2>2. gh' \in [Proposals -> Branches] /\ gh'[p].head \in Heads
    BY <2>1, PushTypes DEF Weight
  <2>3. [w EXCEPT !.head = gh'[p].head] \in Works
    BY <2>1, <2>2 DEF TypeInv, LettersOK, Works, AnyHead
  <2> QED
    BY <2>1, <2>2, <2>3 DEF TypeInv, MergeTypeOK, LettersOK, queueVars
<1>2. CASE AuthorPushes(p)
  <2>1. gh' \in [Proposals -> Branches]
    BY <1>2, PushTypes DEF AuthorPushes, Weight
  <2> QED
    BY <1>2, <2>1 DEF AuthorPushes, TypeInv, MergeTypeOK, LettersOK, queueVars
<1>3. CASE Merges(p)
  <2>1. [gh[p] EXCEPT !.merged = gh[p].head] \in Branches
    BY DEF TypeInv, MergeTypeOK, Branches, AnyHead
  <2>2. gh' = [gh EXCEPT ![p] = [gh[p] EXCEPT !.merged = gh[p].head]] /\ main' = main + 1
    BY <1>3 DEF Merges, TypeInv, MergeTypeOK, Branches
  <2> QED
    BY <1>3, <2>1, <2>2 DEF Merges, TypeInv, MergeTypeOK, LettersOK, queueVars
<1> QED
  BY <1>1, <1>2, <1>3 DEF MergedByHand, GithubMerges

LEMMA ReportTypes ==
  ASSUME TypeInv, NEW p \in Proposals,
         GateReports(p) \/ AttemptReports(p) \/ Followups(p) \/ NotHeard(p) \/ Carried(p)
  PROVE  TypeInv'
<1>1. ASSUME NEW w \in work, NEW outcome, Answers(w, outcome),
             \/ w.kind = "gate" /\ outcome \in GateOutcomes
             \/ w.kind = "attempt" /\ outcome \in AttemptOutcomes
      PROVE  TypeInv'
  <2>1. w \in Works /\ row[w.p] \in Rows
    BY DEF TypeInv, MergeTypeOK, LettersOK, Works
  <2>2. Done(w, outcome, row[w.p].head, row[w.p].epoch) \in Events
    <3>1. w.p \in Proposals /\ w.n \in AnyNumber /\ row[w.p].head \in Heads /\ row[w.p].epoch \in Nat
      BY <2>1 DEF Works, Rows
    <3>2. Done(w, outcome, row[w.p].head, row[w.p].epoch)
            \in Dones("gate", GateOutcomes) \cup Dones("attempt", AttemptOutcomes)
      BY <1>1, <3>1 DEF Done, Dones
    <3> QED
      BY <3>2 DEF Events
  <2> QED
    BY <1>1, <2>2 DEF Answers, TypeInv, MergeTypeOK, LettersOK, queueVars
<1>2. CASE GateReports(p)
  BY <1>1, <1>2 DEF GateReports, GateOutcomes
<1>3. CASE AttemptReports(p)
  BY <1>1, <1>3 DEF AttemptReports, AttemptOutcomes
<1>4. ASSUME NEW asks \in {{}, AsksFor(None)}, Recorded(p, asks), told' \subseteq Proposals PROVE TypeInv'
  <2>1. [row EXCEPT ![p].merged = TRUE] \in [Proposals -> Rows]
    BY DEF TypeInv, MergeTypeOK, Rows
  <2>2. Merged(p) \in Events /\ AsksFor(None) \subseteq Letters
    BY DEF Merged, Events, AsksFor, Wanted, Letters
  <2> QED
    BY <1>4, <2>1, <2>2 DEF Recorded, TypeInv, MergeTypeOK, LettersOK, queueVars
<1>5. told \subseteq Proposals
  BY DEF TypeInv, MergeTypeOK
<1>6. CASE Followups(p) \/ Carried(p)
  BY <1>4, <1>5, <1>6 DEF Followups, Carried
<1>7. CASE NotHeard(p)
  BY <1>5, <1>7 DEF NotHeard, TypeInv, MergeTypeOK, LettersOK, queueVars
<1> QED
  BY <1>2, <1>3, <1>6, <1>7

LEMMA PersonTypes ==
  ASSUME TypeInv, NEW p \in Proposals, Stop(p) \/ Proposed(p) \/ Unpromote(p) \/ Close(p) \/ ForceMerge(p)
  PROVE  TypeInv'
<1>1. /\ prop[p] \in Props /\ row[p] \in Rows /\ row[p].head \in AnyHead /\ told \subseteq Proposals
      /\ AttemptTold(p) \subseteq Letters /\ SyncTold(p) \subseteq Letters /\ SlotsTold(p) \subseteq Letters
      /\ AsksFor(None) \subseteq Letters /\ AsksFor(p) \subseteq Letters
  BY ToldTypes DEF TypeInv, MergeTypeOK, Rows, AnyHead, AsksFor, Wanted, Letters
<1>2. CASE Stop(p)
  BY <1>2, SyncEndsTypes
<1>3. CASE Proposed(p)
  <2>1. [prop[p] EXCEPT !.state = "in_review"] \in Props
    BY <1>1, StateNames DEF Props
  <2> QED
    BY <1>1, <1>3, <2>1, StepTypes DEF Proposed, Moved
<1>4. CASE Unpromote(p) \/ Close(p)
  <2>1. Ends(prop[p], "underway") \in Props /\ Ends(prop[p], "closed") \in Props /\ VotesVoid(row[p]) \in Rows
    BY <1>1, EndsTypes, VotesVoidTypes, StateNames
  <2> QED
    BY <1>1, <1>4, <2>1, StepTypes DEF Unpromote, Close, Moved
<1>5. CASE ForceMerge(p)
  <2>1. [prop[p] EXCEPT !.force = row[p].head] \in Props
    BY <1>1 DEF Props
  <2> QED
    BY <1>1, <1>5, <2>1, StepTypes DEF ForceMerge, Moved
<1> QED
  BY <1>2, <1>3, <1>4, <1>5

LEMMA ReviewHeadMovedTypes ==
  ASSUME TypeInv, NEW p \in Proposals, ReviewHeadMoved(p)
  PROVE  TypeInv'
<1> DEFINE to == gh[p].head
           by == gh[p].by
           s == prop[p]
           force == CASE by = "author" -> NoHead
                      [] by = "mechanical" /\ s.force = row[p].head -> to
                      [] OTHER -> s.force
           old == IF by = "author" THEN VotesVoid(row[p]) ELSE row[p]
           new(clean) == [old EXCEPT !.head = to, !.clean = clean, !.main = main,
                                     !.checks = IF by = "mechanical" /\ @ = "passing" THEN @ ELSE "unstarted"]
<1>1. s \in Props /\ row[p] \in Rows /\ to \in Heads /\ main \in Nat /\ s.force \in AnyHead
  BY DEF TypeInv, MergeTypeOK, Branches, Props
<1>2. force \in AnyHead
  BY <1>1 DEF AnyHead
<1>3. [s EXCEPT !.force = force] \in Props
  BY <1>1, <1>2 DEF Props
<1>4. old \in Rows
  BY <1>1, VotesVoidTypes
<1>5. ASSUME NEW clean \in BOOLEAN PROVE new(clean) \in Rows
  <2> HIDE DEF old
  <2> QED
    BY <1>1, <1>4 DEF Rows
<1>6. \E clean \in BOOLEAN : Step(p, NoEvent, [s EXCEPT !.force = force], new(clean), {}, {})
  BY DEF ReviewHeadMoved
<1>7. gh' = gh /\ main' = main /\ told' \subseteq Proposals
  BY DEF ReviewHeadMoved, world, TypeInv, MergeTypeOK
<1> HIDE DEF s, force, new
<1> QED
  BY <1>3, <1>5, <1>6, <1>7, StepTypes

LEMMA LooksTypes ==
  ASSUME TypeInv, NEW p \in Proposals,
         \/ BackoffOver(p) \/ RetryDue(p) \/ PrLooked(p) \/ ReviewCheck(p)
         \/ ChecksStart(p) \/ Verdict(p) \/ TurnEnds(p) \/ MirrorMeasures(p) \/ Vote(p) \/ TurnStarts(p)
  PROVE  TypeInv'
<1>1. /\ prop[p] \in Props /\ row[p] \in Rows /\ main \in Nat /\ told \subseteq Proposals
      /\ SlotsTold(p) \subseteq Letters /\ AsksFor(p) \subseteq Letters
  BY ToldTypes DEF TypeInv, MergeTypeOK, AsksFor, Wanted, Letters
<1>2. CASE BackoffOver(p) \/ RetryDue(p)
  <2>1. [prop[p] EXCEPT !.backoff = FALSE] \in Props /\ [prop[p] EXCEPT !.refused = NoRefusal] \in Props
    BY <1>1, BlankTypes DEF Props
  <2>2. \E s \in Props : prop' = [prop EXCEPT ![p] = s]
    BY <1>2, <2>1 DEF BackoffOver, RetryDue, TypeInv, MergeTypeOK, Props
  <2> QED
    BY <1>2, <2>2 DEF BackoffOver, RetryDue, TypeInv, MergeTypeOK, LettersOK, queueVars, world
<1>3. CASE PrLooked(p)
  <2>1. Ends(prop[p], "closed") \in Props /\ VotesVoid(row[p]) \in Rows
    BY <1>1, EndsTypes, VotesVoidTypes, StateNames
  <2>2. gh' = gh /\ main' = main
    BY <1>3 DEF PrLooked
  <2> QED
    BY <1>1, <1>3, <2>1, <2>2, StepTypes, MergedOnGithubTypes DEF PrLooked
<1>4. ASSUME NEW r \in Rows, NEW msgs \in {{}, AsksFor(p)}, RowMoves(p, r, msgs),
             gh' = gh, main' = main, told' = told
      PROVE  TypeInv'
  BY <1>1, <1>4, RowMovesTypes
<1>5. CASE ReviewCheck(p)
  BY <1>1, <1>4, <1>5 DEF ReviewCheck, world
<1>6. CASE ChecksStart(p) \/ Verdict(p)
  <2>1. \A v \in {"passing", "failing", "pending"} : [row[p] EXCEPT !.checks = v] \in Rows
    BY <1>1 DEF Rows
  <2> QED
    BY <1>4, <1>6, <2>1 DEF ChecksStart, Verdict, world
<1>7. CASE TurnEnds(p) \/ TurnStarts(p)
  <2>1. \A b \in BOOLEAN : [row[p] EXCEPT !.moving = b] \in Rows
    BY <1>1 DEF Rows
  <2> QED
    BY <1>4, <1>7, <2>1 DEF TurnEnds, TurnStarts, Moved, world
<1>8. CASE MirrorMeasures(p)
  <2>1. \A b \in BOOLEAN : [row[p] EXCEPT !.main = main, !.clean = b] \in Rows
    BY <1>1 DEF Rows
  <2> QED
    BY <1>4, <1>8, <2>1 DEF MirrorMeasures, world
<1>9. CASE Vote(p)
  <2>1. /\ VotesVoid(row[p]) \in Rows
        /\ \A b \in BOOLEAN : [row[p] EXCEPT !.approved = b] \in Rows
    BY <1>1, VotesVoidTypes DEF Rows
  <2> QED
    BY <1>4, <1>9, <2>1 DEF Vote, Moved
<1> QED
  BY <1>2, <1>3, <1>5, <1>6, <1>7, <1>8, <1>9

LEMMA NextTypes == TypeInv /\ [Next]_vars => TypeInv'
<1> SUFFICES ASSUME TypeInv, [Next]_vars PROVE TypeInv'
  OBVIOUS
<1>1. CASE UNCHANGED vars
  BY <1>1 DEF vars, TypeInv, MergeTypeOK, LettersOK
<1>2. CASE QueueDecides \/ QSweep \/ CheckDue
  BY <1>2, QueueTypes
<1>3. ASSUME NEW p \in Proposals, Decides(p) PROVE TypeInv'
  BY <1>3, MergeAskedTypes, GatedTypes, AttemptedTypes, OtherMergeTypes, SyncAskTypes, ReportTypes
    DEF Decides
<1>4. ASSUME NEW p \in Proposals, WorkSteps(p) \/ SyncPushes(p) \/ NotHeard(p) PROVE TypeInv'
  BY <1>4, OtherMergeTypes, SyncEndsTypes, GithubTypes, ReportTypes DEF WorkSteps
<1>5. ASSUME NEW p \in Proposals, Looks(p) PROVE TypeInv'
  BY <1>5, LooksTypes, ReviewHeadMovedTypes DEF Looks
<1>6. ASSUME NEW p \in Proposals, Person(p) PROVE TypeInv'
  BY <1>6, PersonTypes, SyncAskTypes, LooksTypes, GithubTypes, ReportTypes DEF Person
<1> QED
  BY <1>1, <1>2, <1>3, <1>4, <1>5, <1>6 DEF Next

LEMMA TypesHold == Spec => []TypeInv
<1>1. TypeInv /\ [Next]_vars => TypeInv'
  BY NextTypes
<1> QED
  BY InitTypes, <1>1, PTL DEF Spec

\* The queue's, the proposals', the rows' and GitHub's records keep their shape.
THEOREM MergeTypeCorrect == Spec => []MergeTypeOK
<1>1. TypeInv => MergeTypeOK
  BY DEF TypeInv
<1> QED
  BY <1>1, TypesHold, PTL

(***************************************************************************)
(* What is true of one proposal.  Each conjunct is carried by the step of  *)
(* that proposal alone: no step changes another.                           *)
(***************************************************************************)
\* A merge under way and a sync exclude each other.
Apart(s) == s.attempt.stage \in MergeStages => s.sync = NoSync
\* A force is of a review.
ForceInReview(s) == s.force # NoHead => s.state \in {"in_review", "merging", "unconfirmed"}
\* Votes only get voided, and a force a gate was asked with goes with them.
GateForce(s, r) ==
  s.attempt.stage = "gate" =>
    /\ s.attempt.epoch <= r.epoch
    /\ s.attempt.force /\ s.attempt.epoch = r.epoch => s.force # NoHead
\* A merge GitHub made waits for the row in merging; a row carried in by
\* another's merge waits in review.
MergeKept(s, r, t) ==
  t \/ r.merged => \/ s.state = "merged"
                   \/ s.state = "merging" /\ s.attempt.stage = "merged"
                   \/ ~t /\ s.state = "in_review"
Sound(s, r, t) == Apart(s) /\ ForceInReview(s) /\ GateForce(s, r) /\ MergeKept(s, r, t)
AllSound == \A p \in Proposals : Sound(prop[p], row[p], p \in told)

\* A step of p that leaves p sound leaves all sound.
LEMMA StepSound ==
  ASSUME TypeInv, AllSound, NEW p \in Proposals, NEW s \in Props, NEW r \in Rows,
         prop' = [prop EXCEPT ![p] = s], row' = [row EXCEPT ![p] = r],
         told' \ {p} = told \ {p}, Sound(s, r, p \in told')
  PROVE  AllSound'
<1> SUFFICES ASSUME NEW q \in Proposals PROVE Sound(prop'[q], row'[q], q \in told')
  BY DEF AllSound
<1>1. CASE q = p
  BY <1>1 DEF TypeInv, MergeTypeOK
<1>2. CASE q # p
  <2>1. prop'[q] = prop[q] /\ row'[q] = row[q] /\ (q \in told' <=> q \in told)
    BY <1>2
  <2> QED
    BY <2>1 DEF AllSound
<1> QED
  BY <1>1, <1>2

LEMMA SoundStep ==
  ASSUME TypeInv, AllSound, NEW p \in Proposals, NEW m, NEW s \in Props, NEW r \in Rows, NEW started, NEW msgs,
         Step(p, m, s, r, started, msgs), told' \ {p} = told \ {p}, Sound(s, r, p \in told')
  PROVE  AllSound'
BY StepSound DEF Step

LEMMA MergeAskedSound ==
  ASSUME TypeInv, AllSound, NEW p \in Proposals, MergeAsked(p)
  PROVE  AllSound'
<1>1. PICK m \in pin :
        /\ m.type = "MergeRequested" /\ m.p = p
        /\ IF AskRefused(p)
           THEN Step(p, m, prop[p], row[p], {}, {Ended(p, m.n)})
           ELSE /\ FreshWorks(p) # {}
                /\ LET n == Pick(FreshWorks(p))
                       a == [stage |-> "gate", n |-> n, queueN |-> m.n, force |-> m.force /\ Forced(p),
                             head |-> row[p].head, epoch |-> row[p].epoch, retried |-> FALSE]
                   IN Step(p, m, [prop[p] EXCEPT !.attempt = a], row[p], {Work(p, "gate", n, NoHead)}, {})
  BY DEF MergeAsked
<1>2. told' = told /\ Sound(prop[p], row[p], p \in told)
  BY DEF MergeAsked, world, AllSound
<1>3. CASE AskRefused(p)
  BY <1>1, <1>2, <1>3, RecordTypes, SoundStep
<1>4. CASE ~AskRefused(p)
  <2> DEFINE n == Pick(FreshWorks(p))
             a == [stage |-> "gate", n |-> n, queueN |-> m.n, force |-> m.force /\ Forced(p),
                   head |-> row[p].head, epoch |-> row[p].epoch, retried |-> FALSE]
             s == [prop[p] EXCEPT !.attempt = a]
  <2>1. Step(p, m, s, row[p], {Work(p, "gate", n, NoHead)}, {})
    BY <1>1, <1>4
  <2>2. m.n \in AnyNumber /\ m.force \in BOOLEAN /\ n \in AnyNumber
    BY <1>1, <1>4, FreshNumbers DEF TypeInv, LettersOK, Events, Dones, AnyNumber
  <2>3. a \in AttemptsOf
    BY <2>2, RecordTypes DEF AttemptsOf, MergeStages
  <2>4. s \in Props /\ s.attempt = a /\ s.state = prop[p].state /\ s.force = prop[p].force /\ s.sync = prop[p].sync
    BY <2>3, RecordTypes DEF Props
  <2>5. prop[p].state = "in_review" /\ prop[p].sync = NoSync
    BY <1>4 DEF AskRefused, Busy
  <2>6. a.stage = "gate" /\ a.epoch = row[p].epoch /\ (a.force => prop[p].force # NoHead)
    BY DEF Forced
  <2>7. MergeKept(s, row[p], p \in told)
    BY <1>2, <2>4, <2>5 DEF Sound, MergeKept
  <2> HIDE DEF a, s
  <2>8. Sound(s, row[p], p \in told')
    BY <1>2, <2>4, <2>5, <2>6, <2>7, RecordTypes DEF Sound, Apart, ForceInReview, GateForce
  <2> QED
    BY <1>2, <2>1, <2>4, <2>8, RecordTypes, SoundStep
<1> QED
  BY <1>3, <1>4

LEMMA GatedSound ==
  ASSUME TypeInv, AllSound, NEW p \in Proposals, Gated(p)
  PROVE  AllSound'
<1> DEFINE a == prop[p].attempt
           s == [prop[p] EXCEPT !.state = "merging", !.attempt.stage = "merge"]
           t == [prop[p] EXCEPT !.attempt = NoAttempt]
           heard(m) == a.stage = "gate" /\ a.n = m.n /\ prop[p].state = "in_review"
<1>0. PICK m \in pin :
        /\ ~heard(m) => Step(p, m, prop[p], row[p], {}, {})
        /\ heard(m) /\ Claimed(p, m) => Step(p, m, s, row[p], {Work(p, "attempt", a.n, row[p].head)}, {})
        /\ heard(m) /\ ~Claimed(p, m) => Step(p, m, t, row[p], {}, {Ended(p, a.queueN)})
  BY DEF Gated
<1>1. \/ Step(p, m, prop[p], row[p], {}, {})
      \/ /\ a.stage = "gate" /\ prop[p].state = "in_review" /\ ~row[p].merged
         /\ Step(p, m, s, row[p], {Work(p, "attempt", a.n, row[p].head)}, {})
      \/ /\ a.stage = "gate" /\ prop[p].state = "in_review"
         /\ Step(p, m, t, row[p], {}, {Ended(p, a.queueN)})
  <2>1. CASE ~heard(m)
    BY <1>0, <2>1
  <2>2. CASE heard(m) /\ Claimed(p, m)
    <3>1. ~row[p].merged
      BY <2>2 DEF Claimed
    <3> QED
      BY <1>0, <2>2, <3>1
  <2>3. CASE heard(m) /\ ~Claimed(p, m)
    BY <1>0, <2>3
  <2> QED
    BY <2>1, <2>2, <2>3
<1>2. told' = told /\ Sound(prop[p], row[p], p \in told)
  BY DEF Gated, world, AllSound
<1>3. CASE a.stage = "gate" /\ prop[p].state = "in_review" /\ ~row[p].merged
            /\ Step(p, m, s, row[p], {Work(p, "attempt", a.n, row[p].head)}, {})
  <2>1. s \in Props
    BY RecordTypes, StageTypes, StateNames DEF MergeStages, AnyNumber
  <2>2. s.attempt.stage = "merge" /\ s.state = "merging" /\ s.force = prop[p].force /\ s.sync = prop[p].sync
    BY RecordTypes DEF Props, AttemptsOf
  <2>3. Sound(s, row[p], p \in told')
    BY <1>2, <1>3, <2>2 DEF Sound, Apart, ForceInReview, GateForce, MergeKept, MergeStages
  <2> QED
    BY <1>2, <1>3, <2>1, <2>3, RecordTypes, SoundStep
<1>4. CASE a.stage = "gate" /\ prop[p].state = "in_review"
            /\ Step(p, m, t, row[p], {}, {Ended(p, a.queueN)})
  <2>1. t \in Props /\ t.attempt = NoAttempt /\ t.state = prop[p].state /\ t.force = prop[p].force
    BY RecordTypes, BlankTypes DEF Props
  <2>2. Sound(t, row[p], p \in told')
    BY <1>2, <1>4, <2>1
      DEF Sound, Apart, ForceInReview, GateForce, MergeKept, MergeStages, NoAttempt
  <2> QED
    BY <1>2, <1>4, <2>1, <2>2, RecordTypes, SoundStep
<1> QED
  BY <1>1, <1>2, <1>3, <1>4, RecordTypes, SoundStep

\* The ways a merge ends, wherever it is told of.
LEMMA MergedOnGithubSound ==
  ASSUME TypeInv, AllSound, NEW p \in Proposals, NEW m, MergedOnGithub(p, m),
         prop[p].state \in {"in_review", "merging", "unconfirmed"}
  PROVE  AllSound'
<1> DEFINE b == [prop[p].attempt EXCEPT !.stage = "merged"]
           s == [prop[p] EXCEPT !.state = "merging", !.attempt = b]
<1>1. b \in AttemptsOf /\ b.stage = "merged"
  BY RecordTypes, AttemptTypes DEF AttemptsOf, AnyNumber
<1> HIDE DEF b
<1>2. s \in Props /\ s.attempt = b /\ s.state = "merging" /\ s.force = prop[p].force
  BY <1>1, RecordTypes DEF Props, Open
<1>3. Sound(prop[p], row[p], p \in told)
  BY DEF AllSound
<1>4. Step(p, m, s, row[p], {}, AttemptTold(p)) /\ told' = told \cup {p}
  BY DEF MergedOnGithub, b
<1> HIDE DEF s
<1>5. Sound(s, row[p], p \in told')
  BY <1>1, <1>2, <1>3 DEF Sound, Apart, ForceInReview, GateForce, MergeKept, MergeStages
<1> QED
  BY <1>2, <1>4, <1>5, RecordTypes, SoundStep

LEMMA BackSound ==
  ASSUME TypeInv, AllSound, NEW p \in Proposals, NEW m, NEW refusal \in Refusals, BackToReview(p, m, refusal),
         \/ prop[p].state = "merging" /\ prop[p].attempt.stage = "merge"
         \/ prop[p].state = "unconfirmed",
         told' = told
  PROVE  AllSound'
<1> DEFINE s == [prop[p] EXCEPT !.state = "in_review", !.attempt = NoAttempt, !.refused = refusal]
<1>1. s \in Props /\ s.attempt = NoAttempt /\ s.state = "in_review"
  BY RecordTypes, BlankTypes DEF Props, Open
<1>2. Sound(prop[p], row[p], p \in told)
  BY DEF AllSound
<1>3. Step(p, m, s, row[p], {}, {Ended(p, prop[p].attempt.queueN)})
  BY DEF BackToReview
<1>4. Sound(s, row[p], p \in told')
  BY <1>1, <1>2 DEF Sound, Apart, ForceInReview, GateForce, MergeKept, MergeStages, NoAttempt
<1> QED
  BY <1>1, <1>3, <1>4, RecordTypes, SoundStep

\* Off the vote: nothing under way is left, and no force.
LEMMA EndedSound ==
  ASSUME TypeInv, AllSound, NEW p \in Proposals, NEW m, NEW started, NEW msgs, NEW state \in {"underway", "closed"},
         Step(p, m, Ends(prop[p], state), VotesVoid(row[p]), started, msgs), told' = told,
         p \notin told, ~row[p].merged
  PROVE  AllSound'
<1> DEFINE s == Ends(prop[p], state)
           r == VotesVoid(row[p])
<1>1. s \in Props /\ r \in Rows
  BY RecordTypes, EndsTypes, VotesVoidTypes, StateNames
<1>2. s.attempt = NoAttempt /\ s.force = NoHead /\ r.merged = row[p].merged
  BY RecordTypes DEF Ends, VotesVoid, Props, Rows
<1> HIDE DEF s, r
<1>3. Sound(s, r, p \in told')
  BY <1>2 DEF Sound, Apart, ForceInReview, GateForce, MergeKept, MergeStages, NoAttempt
<1> QED
  BY <1>1, <1>3, SoundStep DEF s, r

LEMMA AskedAgainSound ==
  ASSUME TypeInv, AllSound, NEW p \in Proposals, NEW m, AskedAgain(p, m), prop[p].attempt.stage = "merge",
         told' = told
  PROVE  AllSound'
<1> DEFINE n == Pick(FreshWorks(p))
           s == [prop[p] EXCEPT !.attempt.n = n, !.attempt.retried = TRUE]
<1>1. n \in AnyNumber
  BY FreshNumbers DEF AskedAgain, AnyNumber
<1>2. s \in Props
  BY <1>1, RecordTypes, StageTypes, StateNames DEF MergeStages
<1>3. /\ s.attempt.stage = prop[p].attempt.stage /\ s.state = prop[p].state
      /\ s.force = prop[p].force /\ s.sync = prop[p].sync
  <2>1. /\ s.attempt = [prop[p].attempt EXCEPT !.n = n, !.retried = TRUE] /\ s.state = prop[p].state
        /\ s.force = prop[p].force /\ s.sync = prop[p].sync
    BY RecordTypes DEF Props, AttemptsOf
  <2>2. [prop[p].attempt EXCEPT !.n = n, !.retried = TRUE].stage = prop[p].attempt.stage
    BY RecordTypes DEF AttemptsOf
  <2> QED
    BY <2>1, <2>2
<1>4. Sound(prop[p], row[p], p \in told)
  BY DEF AllSound
<1>5. Step(p, m, s, row[p], {Work(p, "attempt", n, row[p].head)}, {})
  BY DEF AskedAgain
<1> HIDE DEF s
<1>6. Sound(s, row[p], p \in told')
  BY <1>3, <1>4 DEF Sound, Apart, ForceInReview, GateForce, MergeKept
<1> QED
  BY <1>2, <1>5, <1>6, RecordTypes, SoundStep

LEMMA AttemptedSound ==
  ASSUME TypeInv, AllSound, NEW p \in Proposals, Attempted(p)
  PROVE  AllSound'
<1> DEFINE a == prop[p].attempt
           refusal(kind) == [head |-> row[p].head, main |-> row[p].main, kind |-> kind]
           s == [prop[p] EXCEPT !.state = "unconfirmed", !.attempt.stage = "unconfirmed"]
           claimed == a.stage = "merge" /\ prop[p].state = "merging"
<1>1. PICK m \in pin :
        /\ m.type = "WorkDone" /\ m.kind = "attempt"
        /\ m.outcome # "merged" => told' = told
        /\ \/ Step(p, m, prop[p], row[p], {}, {}) /\ told' = told
           \/ claimed /\ MergedOnGithub(p, m)
           \/ claimed /\ m.outcome # "merged" /\ Step(p, m, s, row[p], {}, AttemptTold(p))
           \/ claimed /\ m.outcome # "merged" /\ BackToReview(p, m, prop[p].refused)
           \/ claimed /\ m.outcome # "merged" /\ Abandoned(p, m)
           \/ claimed /\ m.outcome # "merged" /\ AskedAgain(p, m)
           \/ claimed /\ m.outcome # "merged" /\ BackToReview(p, m, NoRefusal)
           \/ /\ m.outcome \notin {"merged", "exhausted", "back", "closed", "rate_limited", "base_moved"}
              /\ claimed /\ BackToReview(p, m, refusal(m.outcome))
  BY DEF Attempted
<1>2. Sound(prop[p], row[p], p \in told)
  BY DEF AllSound
<1>3. CASE claimed /\ m.outcome # "merged" /\ Step(p, m, s, row[p], {}, AttemptTold(p))
  <2>1. s \in Props
    BY RecordTypes, StageTypes, StateNames DEF MergeStages, AnyNumber
  <2>2. /\ s.attempt.stage = "unconfirmed" /\ s.state = "unconfirmed"
        /\ s.force = prop[p].force /\ s.sync = prop[p].sync
    BY RecordTypes DEF Props, AttemptsOf
  <2> HIDE DEF s
  <2>3. Sound(s, row[p], p \in told')
    BY <1>1, <1>2, <1>3, <2>2 DEF Sound, Apart, ForceInReview, GateForce, MergeKept, MergeStages
  <2> QED
    BY <1>1, <1>3, <2>1, <2>3, RecordTypes, SoundStep
<1>4. CASE claimed /\ m.outcome # "merged" /\ Abandoned(p, m)
  <2>1. Step(p, m, Ends(prop[p], "underway"), VotesVoid(row[p]), {}, SlotsTold(p))
    BY <1>4 DEF Abandoned, Ends, VotesVoid
  <2>2. p \notin told /\ ~row[p].merged
    BY <1>2, <1>4 DEF Sound, MergeKept
  <2> QED
    BY <1>1, <1>4, <2>1, <2>2, EndedSound
<1>5. m.outcome \in AttemptOutcomes
  BY <1>1 DEF TypeInv, LettersOK, Events, Dones
<1>6. m.outcome \notin {"merged", "exhausted", "back", "closed", "rate_limited", "base_moved"}
        => refusal(m.outcome) \in Refusals
  BY <1>5, RecordTypes DEF AttemptOutcomes, Refusals, Rows
<1> QED
  BY <1>1, <1>2, <1>3, <1>4, <1>6, RecordTypes, BlankTypes, SoundStep, MergedOnGithubSound, BackSound,
     AskedAgainSound

LEMMA OtherMergeSound ==
  ASSUME TypeInv, AllSound, NEW p \in Proposals, Observed(p) \/ Resend(p) \/ MergeRecorded(p)
  PROVE  AllSound'
<1>0. Sound(prop[p], row[p], p \in told)
  BY DEF AllSound
<1>1. CASE Observed(p)
  BY <1>1, RecordTypes, MergedOnGithubSound, BackSound DEF Observed
<1>2. CASE Resend(p)
  <2>1. prop[p].state = "merging" /\ prop[p].attempt.stage = "merged" /\ told' = told \cup {p}
    BY <1>2 DEF Resend
  <2>2. Sound(prop[p], row[p], p \in told')
    BY <1>0, <2>1 DEF Sound, MergeKept
  <2>3. prop' = [prop EXCEPT ![p] = prop[p]] /\ row' = [row EXCEPT ![p] = row[p]]
    BY <1>2 DEF Resend, TypeInv, MergeTypeOK
  <2> QED
    BY <2>1, <2>2, <2>3, RecordTypes, StepSound
<1>3. CASE MergeRecorded(p)
  <2> DEFINE a == prop[p].attempt
             b == [a EXCEPT !.stage = IF a.stage = "none" THEN "none" ELSE "merged"]
             t == [prop[p] EXCEPT !.state = "merged", !.force = NoHead, !.attempt = b, !.sync = NoSync]
  <2>1. b \in AttemptsOf /\ b.stage \in {"none", "merged"}
    BY RecordTypes DEF AttemptsOf
  <2> HIDE DEF b
  <2>2. t \in Props /\ t.attempt = b /\ t.state = "merged" /\ t.force = NoHead
    BY <2>1, RecordTypes, BlankTypes DEF Props, Open, AnyHead
  <2>3. t = [prop[p] EXCEPT !.state = "merged", !.force = NoHead, !.sync = NoSync,
                            !.attempt.stage = IF @ = "none" THEN "none" ELSE "merged"]
    BY RecordTypes DEF Props, b
  <2>4. \E s \in {prop[p], t} : \E msgs : Step(p, Merged(p), s, row[p], {}, msgs)
    BY <1>3, <2>3 DEF MergeRecorded
  <2>5. told' = told
    BY <1>3 DEF MergeRecorded, world
  <2> HIDE DEF t
  <2>6. Sound(t, row[p], p \in told')
    BY <2>1, <2>2 DEF Sound, Apart, ForceInReview, GateForce, MergeKept, MergeStages
  <2> QED
    BY <1>0, <2>2, <2>4, <2>5, <2>6, RecordTypes, SoundStep
<1> QED
  BY <1>1, <1>2, <1>3

LEMMA BeginSyncSound ==
  ASSUME TypeInv, AllSound, NEW p \in Proposals, NEW m, NEW q \in AnyNumber, NEW r \in Rows,
         BeginSync(p, m, q, r), prop[p].attempt = NoAttempt, told' = told,
         r.epoch = row[p].epoch, r.merged = row[p].merged
  PROVE  AllSound'
<1> DEFINE n == Pick(FreshWorks(p))
           g == m.type = "SyncRequested" /\ m.github
           y == [n |-> n, queueN |-> q, head |-> row[p].head, github |-> g]
           s == [prop[p] EXCEPT !.sync = y]
<1>1. n \in AnyNumber /\ g \in BOOLEAN
  BY FreshNumbers DEF BeginSync, AnyNumber
<1>2. y \in SyncsOf
  BY <1>1, RecordTypes DEF SyncsOf
<1>3. Step(p, m, s, r, {Work(p, "sync", n, NoHead)}, {})
  BY DEF BeginSync
<1> HIDE DEF y
<1>4. s \in Props /\ s.attempt = prop[p].attempt /\ s.state = prop[p].state /\ s.force = prop[p].force
  BY <1>2, RecordTypes DEF Props
<1>5. Sound(prop[p], row[p], p \in told)
  BY DEF AllSound
<1> HIDE DEF s
<1>6. Sound(s, r, p \in told')
  BY <1>4, <1>5 DEF Sound, Apart, ForceInReview, GateForce, MergeKept, MergeStages, NoAttempt
<1> QED
  BY <1>3, <1>4, <1>6, SoundStep

LEMMA SyncSound ==
  ASSUME TypeInv, AllSound, NEW p \in Proposals, SyncAsked(p) \/ PersonSyncs(p) \/ SyncReports(p) \/ Stop(p)
  PROVE  AllSound'
<1>0. Sound(prop[p], row[p], p \in told)
  BY DEF AllSound
<1>1. CASE SyncAsked(p)
  <2>1. PICK m \in pin :
          /\ m.type = "SyncRequested"
          /\ \/ Step(p, m, prop[p], row[p], {}, {Resolved(p, m.n)})
             \/ /\ ~LaneRefused(p, m.approved)
                /\ \E r \in {row[p], [row[p] EXCEPT !.spent = row[p].epoch]} : BeginSync(p, m, m.n, r)
    BY <1>1 DEF SyncAsked
  <2>2. m.n \in AnyNumber
    BY <2>1 DEF TypeInv, LettersOK, Events, Dones
  <2>3. \A r \in {row[p], [row[p] EXCEPT !.spent = row[p].epoch]} :
           r \in Rows /\ r.epoch = row[p].epoch /\ r.merged = row[p].merged
    BY RecordTypes DEF Rows
  <2>4. told' = told
    BY <1>1 DEF SyncAsked, world
  <2>5. ~LaneRefused(p, m.approved) => prop[p].attempt = NoAttempt
    BY DEF LaneRefused, SyncRefused, Busy
  <2> QED
    BY <1>0, <2>1, <2>2, <2>3, <2>4, <2>5, RecordTypes, SoundStep, BeginSyncSound
<1>2. CASE PersonSyncs(p)
  <2>1. BeginSync(p, NoEvent, 0, row[p]) /\ told' = told /\ prop[p].attempt = NoAttempt
    BY <1>2 DEF PersonSyncs, Moved, SyncRefused, Busy
  <2> QED
    BY <2>1, RecordTypes, BeginSyncSound DEF AnyNumber
<1>3. ASSUME NEW s \in Props, NEW w, NEW msgs, Step(p, w, s, row[p], {}, msgs), told' = told,
             s.attempt = prop[p].attempt, s.state = prop[p].state, s.force = prop[p].force,
             s.sync \in {prop[p].sync, NoSync}
      PROVE  AllSound'
  <2>1. Sound(s, row[p], p \in told')
    BY <1>0, <1>3 DEF Sound, Apart, ForceInReview, GateForce, MergeKept
  <2> QED
    BY <1>3, <2>1, RecordTypes, SoundStep
<1>4. CASE SyncReports(p) \/ Stop(p)
  BY <1>0, <1>3, <1>4, RecordTypes, SyncEnds
<1> QED
  BY <1>1, <1>2, <1>4

\* A row moved on its own: the votes are never given back.
LEMMA RowSound ==
  ASSUME TypeInv, AllSound, NEW p \in Proposals, NEW r \in Rows, NEW msgs, RowMoves(p, r, msgs),
         told' = told, r.merged = row[p].merged, r.epoch \in {row[p].epoch, row[p].epoch + 1}
  PROVE  AllSound'
<1>1. Sound(prop[p], row[p], p \in told)
  BY DEF AllSound
<1>2. r.epoch \in Nat /\ prop[p].attempt.epoch \in Nat
  BY RecordTypes DEF Rows, AttemptsOf
<1>3. Sound(prop[p], r, p \in told')
  BY <1>1, <1>2, RecordTypes DEF Sound, GateForce, MergeKept
<1>4. prop' = [prop EXCEPT ![p] = prop[p]] /\ row' = [row EXCEPT ![p] = r]
  BY DEF RowMoves, TypeInv, MergeTypeOK
<1> QED
  BY <1>3, <1>4, RecordTypes, StepSound

LEMMA WorldSound ==
  ASSUME TypeInv, AllSound, NEW p \in Proposals,
         \/ SyncPushes(p) \/ AuthorPushes(p) \/ MergedByHand(p) \/ GithubMerges(p)
         \/ GateReports(p) \/ AttemptReports(p) \/ NotHeard(p) \/ Followups(p) \/ Carried(p)
  PROVE  AllSound'
<1>1. CASE prop' = prop /\ row' = row /\ told' \subseteq told
  BY <1>1 DEF AllSound, Sound, MergeKept
<1>2. ASSUME NEW asks, Recorded(p, asks), told' \subseteq told, p \in told \/ In(p, {"in_review"}), told \ {p} = told' \ {p},
             p \notin told'
      PROVE  AllSound'
  <2> DEFINE r == [row[p] EXCEPT !.merged = TRUE]
  <2>1. r \in Rows /\ r.epoch = row[p].epoch /\ row' = [row EXCEPT ![p] = r]
    BY <1>2, RecordTypes DEF Rows, Recorded, TypeInv, MergeTypeOK
  <2>2. prop' = [prop EXCEPT ![p] = prop[p]]
    BY <1>2 DEF Recorded, TypeInv, MergeTypeOK
  <2>3. Sound(prop[p], row[p], p \in told)
    BY DEF AllSound
  <2>4. MergeKept(prop[p], r, p \in told')
    BY <1>2, <2>3 DEF Sound, MergeKept, In
  <2> HIDE DEF r
  <2>5. Sound(prop[p], r, p \in told')
    BY <2>1, <2>3, <2>4 DEF Sound, GateForce
  <2> QED
    BY <1>2, <2>1, <2>2, <2>5, RecordTypes, StepSound
<1>3. CASE NotHeard(p)
  BY <1>1, <1>3 DEF NotHeard
<1>4. CASE Followups(p)
  BY <1>2, <1>4 DEF Followups
<1>5. CASE Carried(p)
  <2>1. p \notin told
    BY <1>5 DEF AllSound, Sound, MergeKept, Carried, In
  <2> QED
    BY <1>2, <1>5, <2>1 DEF Carried
<1> QED
  BY <1>1, <1>3, <1>4, <1>5 DEF SyncPushes, AuthorPushes, MergedByHand, GithubMerges, Merges, GateReports,
     AttemptReports, Answers

LEMMA PersonSound ==
  ASSUME TypeInv, AllSound, NEW p \in Proposals,
         Proposed(p) \/ Unpromote(p) \/ Close(p) \/ ForceMerge(p) \/ Vote(p) \/ TurnStarts(p)
  PROVE  AllSound'
<1>0. Sound(prop[p], row[p], p \in told)
  BY DEF AllSound
<1>1. CASE Proposed(p)
  <2> DEFINE s == [prop[p] EXCEPT !.state = "in_review"]
  <2>1. s \in Props /\ s.state = "in_review" /\ s.attempt = prop[p].attempt /\ s.force = prop[p].force
          /\ s.sync = prop[p].sync
    BY RecordTypes, StateNames DEF Props
  <2>2. Step(p, NoEvent, s, row[p], {}, AsksFor(None)) /\ told' = told /\ In(p, {"underway"})
    BY <1>1 DEF Proposed, Moved
  <2> HIDE DEF s
  <2>3. Sound(s, row[p], p \in told')
    BY <1>0, <2>1, <2>2 DEF Sound, Apart, ForceInReview, GateForce, MergeKept, In
  <2> QED
    BY <2>1, <2>2, <2>3, RecordTypes, SoundStep
<1>2. CASE Unpromote(p)
  <2>1. In(p, {"in_review"}) /\ Step(p, NoEvent, Ends(prop[p], "underway"), VotesVoid(row[p]), {}, {})
          /\ told' = told
    BY <1>2 DEF Unpromote, Moved
  <2>2. p \notin told /\ ~row[p].merged
    BY <1>0, <2>1 DEF Sound, MergeKept, In
  <2> QED
    BY <2>1, <2>2, EndedSound
<1>3. CASE Close(p)
  <2>1. In(p, {"underway", "in_review"}) /\ told' = told
          /\ Step(p, NoEvent, Ends(prop[p], "closed"), VotesVoid(row[p]), {}, SlotsTold(p))
    BY <1>3 DEF Close, Moved
  <2>2. p \notin told /\ ~row[p].merged
    BY <1>0, <2>1 DEF Sound, MergeKept, In
  <2> QED
    BY <2>1, <2>2, EndedSound
<1>4. CASE ForceMerge(p)
  <2> DEFINE s == [prop[p] EXCEPT !.force = row[p].head]
  <2>1. s \in Props /\ s.state = prop[p].state /\ s.attempt = prop[p].attempt /\ s.force = row[p].head
          /\ s.sync = prop[p].sync
    BY RecordTypes DEF Props
  <2>2. Step(p, NoEvent, s, row[p], {}, AsksFor(p)) /\ told' = told /\ prop[p].state = "in_review"
    BY <1>4 DEF ForceMerge, Moved, In
  <2> HIDE DEF s
  <2>3. Sound(s, row[p], p \in told')
    BY <1>0, <2>1, <2>2, RecordTypes DEF Sound, Apart, ForceInReview, GateForce, MergeKept
  <2> QED
    BY <2>1, <2>2, <2>3, RecordTypes, SoundStep
<1>5. CASE Vote(p)
  <2>1. \A r \in {[row[p] EXCEPT !.approved = FALSE], VotesVoid(row[p]), [row[p] EXCEPT !.approved = TRUE]} :
           r \in Rows /\ r.merged = row[p].merged /\ r.epoch \in {row[p].epoch, row[p].epoch + 1}
    <3>1. \A b \in BOOLEAN : LET r == [row[p] EXCEPT !.approved = b] IN
            r \in Rows /\ r.merged = row[p].merged /\ r.epoch = row[p].epoch
      BY RecordTypes DEF Rows
    <3>2. LET r == VotesVoid(row[p]) IN
            r \in Rows /\ r.merged = row[p].merged /\ r.epoch = row[p].epoch + 1
      BY RecordTypes, VotesVoidTypes DEF Rows, VotesVoid
    <3> QED
      BY <3>1, <3>2, RecordTypes
  <2>2. /\ told' = told
        /\ \E r \in {[row[p] EXCEPT !.approved = FALSE], VotesVoid(row[p]), [row[p] EXCEPT !.approved = TRUE]} :
              \E msgs : RowMoves(p, r, msgs)
    BY <1>5 DEF Vote, Moved
  <2> QED
    BY <2>1, <2>2, RowSound
<1>6. CASE TurnStarts(p)
  <2>1. LET r == [row[p] EXCEPT !.moving = TRUE] IN
          r \in Rows /\ r.epoch \in {row[p].epoch, row[p].epoch + 1} /\ r.merged = row[p].merged
    BY RecordTypes DEF Rows
  <2>2. told' = told /\ RowMoves(p, [row[p] EXCEPT !.moving = TRUE], {})
    BY <1>6 DEF TurnStarts, Moved
  <2> QED
    BY <2>1, <2>2, RecordTypes, RowSound
<1> QED
  BY <1>1, <1>2, <1>3, <1>4, <1>5, <1>6

LEMMA ReviewHeadMovedSound ==
  ASSUME TypeInv, AllSound, NEW p \in Proposals, ReviewHeadMoved(p)
  PROVE  AllSound'
<1> DEFINE to == gh[p].head
           by == gh[p].by
           force == CASE by = "author" -> NoHead
                      [] by = "mechanical" /\ prop[p].force = row[p].head -> to
                      [] OTHER -> prop[p].force
           old == IF by = "author" THEN VotesVoid(row[p]) ELSE row[p]
           new(clean) == [old EXCEPT !.head = to, !.clean = clean, !.main = main,
                                     !.checks = IF by = "mechanical" /\ @ = "passing" THEN @ ELSE "unstarted"]
           s == [prop[p] EXCEPT !.force = force]
<1>1. to \in Heads /\ to # NoHead /\ main \in Nat
  BY HeadsFacts DEF TypeInv, MergeTypeOK, Branches
<1>2. /\ force \in AnyHead
      /\ by # "author" => (force # NoHead <=> prop[p].force # NoHead)
      /\ by = "author" => force = NoHead
  BY <1>1, RecordTypes DEF AnyHead
<1> HIDE DEF force
<1>3. s \in Props /\ s.force = force /\ s.attempt = prop[p].attempt /\ s.sync = prop[p].sync
        /\ s.state = prop[p].state
  BY <1>2, RecordTypes DEF Props
<1>4. /\ old \in Rows /\ old.merged = row[p].merged
      /\ old.epoch = IF by = "author" THEN row[p].epoch + 1 ELSE row[p].epoch
  BY RecordTypes, VotesVoidTypes DEF Rows, VotesVoid
<1>5. \E clean \in BOOLEAN : Step(p, NoEvent, s, new(clean), {}, {})
  BY DEF ReviewHeadMoved, force
<1> HIDE DEF old
<1>6. ASSUME NEW clean \in BOOLEAN
      PROVE  new(clean) \in Rows /\ new(clean).epoch = old.epoch /\ new(clean).merged = old.merged
  BY <1>1, <1>4 DEF Rows
<1> HIDE DEF s, new
<1>7. told' = told /\ Sound(prop[p], row[p], p \in told)
  BY DEF ReviewHeadMoved, world, AllSound
<1>8. prop[p].attempt.epoch \in Nat
  BY RecordTypes DEF AttemptsOf
<1>9. ASSUME NEW clean \in BOOLEAN PROVE Sound(s, new(clean), p \in told')
  <2>1. MergeKept(s, new(clean), p \in told')
    BY <1>3, <1>4, <1>6, <1>7 DEF Sound, MergeKept
  <2>2. Apart(s) /\ ForceInReview(s)
    BY <1>2, <1>3, <1>7 DEF Sound, Apart, ForceInReview
  <2>3. GateForce(s, new(clean))
    BY <1>2, <1>3, <1>4, <1>6, <1>7, <1>8, RecordTypes DEF Sound, GateForce
  <2> QED
    BY <2>1, <2>2, <2>3 DEF Sound
<1> QED
  BY <1>3, <1>5, <1>6, <1>7, <1>9, SoundStep

LEMMA LooksSound ==
  ASSUME TypeInv, AllSound, NEW p \in Proposals, Looks(p)
  PROVE  AllSound'
<1>0. Sound(prop[p], row[p], p \in told)
  BY DEF AllSound
<1>1. ASSUME NEW s \in Props, prop' = [prop EXCEPT ![p] = s], row' = row, told' = told,
             s.state = prop[p].state, s.attempt = prop[p].attempt, s.sync = prop[p].sync,
             s.force = prop[p].force
      PROVE  AllSound'
  <2>1. Sound(s, row[p], p \in told')
    BY <1>0, <1>1 DEF Sound, Apart, ForceInReview, GateForce, MergeKept
  <2>2. row' = [row EXCEPT ![p] = row[p]]
    BY <1>1 DEF TypeInv, MergeTypeOK
  <2> QED
    BY <1>1, <2>1, <2>2, RecordTypes, StepSound
<1>2. CASE BackoffOver(p) \/ RetryDue(p)
  <2>1. \A s \in {[prop[p] EXCEPT !.backoff = FALSE], [prop[p] EXCEPT !.refused = NoRefusal]} :
          /\ s \in Props /\ s.state = prop[p].state /\ s.attempt = prop[p].attempt
          /\ s.sync = prop[p].sync /\ s.force = prop[p].force
    <3>1. LET s == [prop[p] EXCEPT !.backoff = FALSE] IN
            /\ s \in Props /\ s.state = prop[p].state /\ s.attempt = prop[p].attempt
            /\ s.sync = prop[p].sync /\ s.force = prop[p].force
      BY RecordTypes DEF Props
    <3>2. LET s == [prop[p] EXCEPT !.refused = NoRefusal] IN
            /\ s \in Props /\ s.state = prop[p].state /\ s.attempt = prop[p].attempt
            /\ s.sync = prop[p].sync /\ s.force = prop[p].force
      BY RecordTypes, BlankTypes DEF Props
    <3> QED
      BY <3>1, <3>2
  <2>2. row' = row /\ told' = told
          /\ \E s \in {[prop[p] EXCEPT !.backoff = FALSE], [prop[p] EXCEPT !.refused = NoRefusal]} :
               prop' = [prop EXCEPT ![p] = s]
    BY <1>2 DEF BackoffOver, RetryDue, TypeInv, MergeTypeOK, Props, world
  <2> QED
    BY <1>1, <2>1, <2>2
<1>3. CASE PrLooked(p)
  <2>1. CASE In(p, {"in_review"}) /\ MergedOnGithub(p, NoEvent)
    BY <2>1, MergedOnGithubSound DEF In
  <2>2. CASE In(p, {"underway"}) /\ told' = told
               /\ Step(p, NoEvent, Ends(prop[p], "closed"), VotesVoid(row[p]), {}, SlotsTold(p))
    <3>1. p \notin told /\ ~row[p].merged
      BY <1>0, <2>2 DEF Sound, MergeKept, In
    <3> QED
      BY <2>2, <3>1, EndedSound
  <2> QED
    BY <1>3, <2>1, <2>2 DEF PrLooked
<1>4. CASE ReviewCheck(p)
  BY <1>4, RecordTypes, RowSound DEF ReviewCheck, world
<1>5. CASE ChecksStart(p) \/ Verdict(p) \/ TurnEnds(p) \/ MirrorMeasures(p)
  <2>1. PICK r, msgs : /\ RowMoves(p, r, msgs)
                       /\ \/ \E v \in {"passing", "failing", "pending"} : r = [row[p] EXCEPT !.checks = v]
                          \/ r = [row[p] EXCEPT !.moving = FALSE]
                          \/ \E b \in BOOLEAN : r = [row[p] EXCEPT !.main = main, !.clean = b]
    BY <1>5 DEF ChecksStart, Verdict, TurnEnds, MirrorMeasures
  <2>2. main \in Nat
    BY DEF TypeInv, MergeTypeOK
  <2>3. r \in Rows /\ r.merged = row[p].merged /\ r.epoch = row[p].epoch
    BY <2>1, <2>2, RecordTypes DEF Rows
  <2>4. told' = told
    BY <1>5 DEF ChecksStart, Verdict, TurnEnds, MirrorMeasures, world
  <2> QED
    BY <2>1, <2>3, <2>4, RecordTypes, RowSound
<1> QED
  BY <1>2, <1>3, <1>4, <1>5, ReviewHeadMovedSound DEF Looks

LEMMA InitSound == Init => AllSound
<1> SUFFICES ASSUME Init, NEW p \in Proposals PROVE Sound(prop[p], row[p], p \in told)
  BY DEF AllSound
<1>1. prop[p].attempt = NoAttempt /\ prop[p].sync = NoSync /\ prop[p].force = NoHead
  BY DEF Init
<1>2. ~row[p].merged /\ p \notin told
  BY DEF Init
<1> QED
  BY <1>1, <1>2 DEF Sound, Apart, ForceInReview, GateForce, MergeKept, NoAttempt, MergeStages

LEMMA NextSound == TypeInv /\ AllSound /\ [Next]_vars => AllSound'
<1> SUFFICES ASSUME TypeInv, AllSound, [Next]_vars PROVE AllSound'
  OBVIOUS
<1>1. CASE prop' = prop /\ row' = row /\ told' = told
  BY <1>1 DEF AllSound
<1>2. CASE QueueDecides \/ QSweep \/ CheckDue
  BY <1>1, <1>2 DEF QueueDecides, QWanted, QAnswered, QCheck, QSweep, CheckDue, world
<1>3. ASSUME NEW p \in Proposals, Decides(p) PROVE AllSound'
  BY <1>3, MergeAskedSound, GatedSound, AttemptedSound, OtherMergeSound, SyncSound, WorldSound DEF Decides
<1>4. ASSUME NEW p \in Proposals, WorkSteps(p) \/ SyncPushes(p) \/ NotHeard(p) PROVE AllSound'
  BY <1>4, OtherMergeSound, SyncSound, WorldSound DEF WorkSteps
<1>5. ASSUME NEW p \in Proposals, Person(p) PROVE AllSound'
  BY <1>5, PersonSound, SyncSound, WorldSound DEF Person
<1> QED
  BY <1>1, <1>2, <1>3, <1>4, <1>5, LooksSound DEF Next, vars

LEMMA SoundHolds == Spec => [](TypeInv /\ AllSound)
<1>1. Init => TypeInv /\ AllSound
  BY InitTypes, InitSound
<1>2. TypeInv /\ AllSound /\ [Next]_vars => (TypeInv /\ AllSound)'
  BY NextTypes, NextSound
<1> QED
  BY <1>1, <1>2, PTL DEF Spec

\* No proposal is ever merged and synced at once, whoever asks for either.
THEOREM MergesAndSyncsExclude == Spec => []NeverMergeAndSync
<1>1. AllSound => NeverMergeAndSync
  BY DEF AllSound, Sound, Apart, NeverMergeAndSync
<1> QED
  BY <1>1, SoundHolds, PTL

\* Whatever takes a proposal out of review takes its force with it.
THEOREM ForcesEnd == Spec => []ForceEnds
<1>1. AllSound => ForceEnds
  BY DEF AllSound, Sound, ForceInReview, ForceEnds, Forced
<1> QED
  BY <1>1, SoundHolds, PTL

-----------------------------------------------------------------------------
(* Where a step takes a proposal's state and its attempt's stage            *)

Moves(p) ==
  /\ row[p].merged => prop'[p].state \in {prop[p].state, "merged"}
  /\ prop[p].attempt.stage = "gate" /\ prop'[p].attempt.stage = "merge" =>
       Gated(p) /\ \E m \in pin : Claimed(p, m)

LEMMA StepMoves ==
  ASSUME TypeInv, NEW p \in Proposals, NEW q \in Proposals, NEW s,
         prop' = [prop EXCEPT ![p] = s],
         row[p].merged => s.state \in {prop[p].state, "merged"},
         prop[p].attempt.stage = "gate" => s.attempt.stage # "merge"
  PROVE  Moves(q)
BY DEF TypeInv, MergeTypeOK, Moves

LEMMA SameMoves == ASSUME prop' = prop, NEW q \in Proposals PROVE Moves(q)
BY DEF Moves

\* The steps of p that leave its attempt where it is, or drop it.
LEMMA PersonMoves ==
  ASSUME TypeInv, AllSound, NEW p \in Proposals, NEW q \in Proposals,
         MergeAsked(p) \/ SyncAsked(p) \/ PersonSyncs(p) \/ Stop(p) \/ SyncReports(p) \/ Proposed(p)
           \/ Unpromote(p) \/ Close(p) \/ ForceMerge(p) \/ BackoffOver(p) \/ RetryDue(p) \/ ReviewHeadMoved(p)
  PROVE  Moves(q)
<1>0. NoAttempt.stage = "none"
  BY DEF NoAttempt
<1>1. ASSUME NEW s, prop' = [prop EXCEPT ![p] = s], s.state = prop[p].state \/ ~row[p].merged,
             s.attempt.stage \in {prop[p].attempt.stage, "gate", "none"}
      PROVE  Moves(q)
  BY <1>1, StepMoves
<1>2. CASE MergeAsked(p)
  <2>1. PICK a : /\ a = prop[p].attempt \/ a.stage = "gate"
                 /\ prop' = [prop EXCEPT ![p] = [prop[p] EXCEPT !.attempt = a]]
    <3>1. PICK m \in pin :
            IF AskRefused(p) THEN prop' = [prop EXCEPT ![p] = prop[p]]
            ELSE LET a == [stage |-> "gate", n |-> Pick(FreshWorks(p)), queueN |-> m.n, force |-> m.force /\ Forced(p),
                           head |-> row[p].head, epoch |-> row[p].epoch, retried |-> FALSE]
                 IN prop' = [prop EXCEPT ![p] = [prop[p] EXCEPT !.attempt = a]]
      BY <1>2 DEF MergeAsked, Step
    <3>2. prop[p] = [prop[p] EXCEPT !.attempt = prop[p].attempt]
      BY RecordTypes DEF Props
    <3> QED
      BY <3>1, <3>2
  <2>2. [prop[p] EXCEPT !.attempt = a].attempt = a /\ [prop[p] EXCEPT !.attempt = a].state = prop[p].state
    BY RecordTypes DEF Props
  <2> QED
    BY <1>1, <2>1, <2>2
<1>3. ASSUME NEW y, prop' = [prop EXCEPT ![p] = [prop[p] EXCEPT !.sync = y]] PROVE Moves(q)
  <2>1. LET s == [prop[p] EXCEPT !.sync = y] IN s.state = prop[p].state /\ s.attempt = prop[p].attempt
    BY RecordTypes DEF Props
  <2> QED
    BY <1>1, <1>3, <2>1
<1>4. CASE SyncAsked(p) \/ PersonSyncs(p)
  <2>1. \/ prop' = [prop EXCEPT ![p] = prop[p]]
        \/ \E y : prop' = [prop EXCEPT ![p] = [prop[p] EXCEPT !.sync = y]]
    BY <1>4 DEF SyncAsked, PersonSyncs, BeginSync, Step
  <2> QED
    BY <1>1, <1>3, <2>1
<1>5. CASE SyncReports(p) \/ Stop(p)
  <2>1. PICK t : t.attempt = prop[p].attempt /\ t.state = prop[p].state /\ prop' = [prop EXCEPT ![p] = t]
    BY <1>5, SyncEnds DEF Step
  <2> QED
    BY <1>1, <2>1
<1>6. CASE Unpromote(p) \/ Close(p)
  <2>1. ~row[p].merged /\ \E state : prop' = [prop EXCEPT ![p] = Ends(prop[p], state)]
    BY <1>6 DEF Unpromote, Close, Step, In
  <2>2. \A state : Ends(prop[p], state).attempt = NoAttempt
    BY RecordTypes DEF Ends, Props
  <2> QED
    BY <1>0, <1>1, <2>1, <2>2
<1>7. CASE Proposed(p)
  <2>1. ~row[p].merged /\ prop' = [prop EXCEPT ![p] = [prop[p] EXCEPT !.state = "in_review"]]
    BY <1>7 DEF Proposed, Step, In
  <2>2. [prop[p] EXCEPT !.state = "in_review"].attempt = prop[p].attempt
    BY RecordTypes DEF Props
  <2> QED
    BY <1>1, <2>1, <2>2
<1>8. CASE ForceMerge(p) \/ ReviewHeadMoved(p) \/ BackoffOver(p) \/ RetryDue(p)
  <2>1. PICK s : /\ prop' = [prop EXCEPT ![p] = s]
                 /\ \/ \E h : s = [prop[p] EXCEPT !.force = h]
                    \/ s = [prop[p] EXCEPT !.backoff = FALSE]
                    \/ s = [prop[p] EXCEPT !.refused = NoRefusal]
    BY <1>8 DEF ForceMerge, ReviewHeadMoved, BackoffOver, RetryDue, Step, TypeInv, MergeTypeOK, Props
  <2>2. s.state = prop[p].state /\ s.attempt = prop[p].attempt
    BY <2>1, RecordTypes DEF Props
  <2> QED
    BY <1>1, <2>1, <2>2
<1> QED
  BY <1>2, <1>4, <1>5, <1>6, <1>7, <1>8

LEMMA MergeMoves ==
  ASSUME TypeInv, AllSound, NEW p \in Proposals, NEW q \in Proposals,
         Attempted(p) \/ Observed(p) \/ MergeRecorded(p) \/ PrLooked(p)
  PROVE  Moves(q)
<1>0. NoAttempt.stage = "none"
  BY DEF NoAttempt
<1>1. ASSUME NEW s, NEW m, NEW r, NEW started, NEW msgs, Step(p, m, s, r, started, msgs),
             s.state \in {prop[p].state, "merged"} \/ ~row[p].merged,
             s.attempt.stage \in {prop[p].attempt.stage, "unconfirmed", "merged", "none"}
      PROVE  Moves(q)
  BY <1>1, StepMoves DEF Step
<1>2. ASSUME NEW m, MergedOnGithub(p, m), ~row[p].merged PROVE Moves(q)
  <2>1. LET s == [prop[p] EXCEPT !.state = "merging", !.attempt = [@ EXCEPT !.stage = "merged"]] IN
          s.attempt.stage = "merged" /\ \E msgs : Step(p, m, s, row[p], {}, msgs)
    BY <1>2, RecordTypes DEF MergedOnGithub, Props, AttemptsOf
  <2> QED
    BY <1>1, <1>2, <2>1
<1>3. ASSUME NEW m, NEW k, BackToReview(p, m, k), ~row[p].merged PROVE Moves(q)
  <2>1. LET s == [prop[p] EXCEPT !.state = "in_review", !.attempt = NoAttempt, !.refused = k] IN
          s.attempt = NoAttempt /\ \E msgs : Step(p, m, s, row[p], {}, msgs)
    BY <1>3, RecordTypes DEF BackToReview, Props
  <2> QED
    BY <1>0, <1>1, <1>3, <2>1
<1>4. CASE Attempted(p)
  <2> DEFINE claimed == prop[p].attempt.stage = "merge" /\ prop[p].state = "merging"
             s == [prop[p] EXCEPT !.state = "unconfirmed", !.attempt.stage = "unconfirmed"]
  <2>1. PICK m \in pin :
          \/ Step(p, m, prop[p], row[p], {}, {})
          \/ claimed /\ MergedOnGithub(p, m)
          \/ claimed /\ Step(p, m, s, row[p], {}, AttemptTold(p))
          \/ claimed /\ \E k : BackToReview(p, m, k)
          \/ claimed /\ Abandoned(p, m)
          \/ claimed /\ AskedAgain(p, m)
    BY <1>4 DEF Attempted
  <2>2. claimed => ~row[p].merged
    BY DEF AllSound, Sound, MergeKept
  <2>3. s.attempt.stage = "unconfirmed"
    BY RecordTypes DEF Props, AttemptsOf
  <2>4. CASE claimed /\ Abandoned(p, m)
    <3>1. [prop[p] EXCEPT !.state = "underway", !.force = NoHead, !.attempt = NoAttempt, !.sync = NoSync].attempt
            = NoAttempt
      BY RecordTypes DEF Props
    <3> QED
      BY <1>0, <1>1, <2>2, <2>4, <3>1 DEF Abandoned
  <2>5. CASE claimed /\ AskedAgain(p, m)
    <3> DEFINE t == [prop[p] EXCEPT !.attempt.n = Pick(FreshWorks(p)), !.attempt.retried = TRUE]
    <3>1. t.attempt.stage = prop[p].attempt.stage
      BY RecordTypes DEF Props, AttemptsOf
    <3>2. Step(p, m, t, row[p], {Work(p, "attempt", Pick(FreshWorks(p)), row[p].head)}, {})
      BY <2>5 DEF AskedAgain
    <3> HIDE DEF t
    <3> QED
      BY <1>1, <2>2, <2>5, <3>1, <3>2
  <2> QED
    BY <1>1, <1>2, <1>3, <2>1, <2>2, <2>3, <2>4, <2>5
<1>5. CASE Observed(p)
  <2>1. ~row[p].merged
    BY <1>5 DEF AllSound, Sound, MergeKept, Observed
  <2> QED
    BY <1>2, <1>3, <1>5, <2>1 DEF Observed
<1>6. CASE MergeRecorded(p)
  <2> DEFINE t == [prop[p] EXCEPT !.state = "merged", !.force = NoHead, !.sync = NoSync,
                                  !.attempt.stage = IF @ = "none" THEN "none" ELSE "merged"]
  <2>1. t.state = "merged" /\ t.attempt.stage \in {"none", "merged"}
    BY RecordTypes DEF Props, AttemptsOf
  <2>2. \E s \in {prop[p], t} : \E msgs : Step(p, Merged(p), s, row[p], {}, msgs)
    BY <1>6 DEF MergeRecorded
  <2> HIDE DEF t
  <2> QED
    BY <1>1, <2>1, <2>2
<1>7. CASE PrLooked(p)
  <2>1. Ends(prop[p], "closed").attempt = NoAttempt
    BY RecordTypes DEF Ends, Props
  <2> QED
    BY <1>0, <1>1, <1>2, <1>7, <2>1 DEF PrLooked, In
<1> QED
  BY <1>4, <1>5, <1>6, <1>7

LEMMA GatedMoves ==
  ASSUME TypeInv, AllSound, NEW p \in Proposals, NEW q \in Proposals, Gated(p)
  PROVE  Moves(q)
<1> DEFINE s == [prop[p] EXCEPT !.state = "merging", !.attempt.stage = "merge"]
           t == [prop[p] EXCEPT !.attempt = NoAttempt]
<1>0. NoAttempt.stage = "none" /\ t.attempt = NoAttempt /\ t.state = prop[p].state
  BY RecordTypes DEF NoAttempt, Props
<1>1. \/ prop' = [prop EXCEPT ![p] = prop[p]]
      \/ prop' = [prop EXCEPT ![p] = t]
      \/ (\E m \in pin : Claimed(p, m)) /\ prop' = [prop EXCEPT ![p] = s]
  BY DEF Gated, Step
<1>2. CASE (\E m \in pin : Claimed(p, m)) /\ prop' = [prop EXCEPT ![p] = s]
  <2>1. ~row[p].merged
    BY <1>2 DEF Claimed
  <2>2. CASE q = p
    BY <1>2, <2>1, <2>2 DEF Moves
  <2>3. CASE q # p
    BY <1>2, <2>3 DEF Moves
  <2> QED
    BY <2>2, <2>3
<1> HIDE DEF s, t
<1> QED
  BY <1>0, <1>1, <1>2, StepMoves

LEMMA NextMoves == TypeInv /\ AllSound /\ [Next]_vars => \A q \in Proposals : Moves(q)
<1> SUFFICES ASSUME TypeInv, AllSound, [Next]_vars, NEW q \in Proposals PROVE Moves(q)
  OBVIOUS
<1>1. CASE prop' = prop
  BY <1>1, SameMoves
<1>2. CASE QueueDecides \/ QSweep \/ CheckDue
  BY <1>1, <1>2 DEF QueueDecides, QWanted, QAnswered, QCheck, QSweep, CheckDue
<1>3. ASSUME NEW p \in Proposals, Decides(p) PROVE Moves(q)
  BY <1>1, <1>3, GatedMoves, PersonMoves, MergeMoves DEF Decides, Resend, Followups, Recorded
<1>4. ASSUME NEW p \in Proposals, WorkSteps(p) \/ SyncPushes(p) \/ NotHeard(p) PROVE Moves(q)
  BY <1>1, <1>4, PersonMoves, MergeMoves
    DEF WorkSteps, SyncPushes, NotHeard, GateReports, GithubMerges, Merges, AttemptReports, Answers
<1>5. ASSUME NEW p \in Proposals, Looks(p) PROVE Moves(q)
  BY <1>1, <1>5, PersonMoves, MergeMoves
    DEF Looks, ReviewCheck, ChecksStart, Verdict, TurnEnds, MirrorMeasures, RowMoves
<1>6. ASSUME NEW p \in Proposals, Person(p) PROVE Moves(q)
  BY <1>1, <1>6, PersonMoves DEF Person, Vote, TurnStarts, RowMoves, AuthorPushes, MergedByHand, Merges,
     Carried, Recorded
<1> QED
  BY <1>1, <1>2, <1>3, <1>4, <1>5, <1>6 DEF Next, vars

\* Once its row is merged, a proposal goes nowhere but merged.
THEOREM RowsMergedStay == Spec => MergedStays
<1>1. TypeInv /\ AllSound /\ [Next]_vars
        => [\A p \in Proposals : row[p].merged => prop'[p].state \in {prop[p].state, "merged"}]_vars
  BY NextMoves DEF Moves
<1> QED
  BY <1>1, SoundHolds, PTL DEF Spec, MergedStays

\* A claim is made at the head and the votes its gate measured, whatever moved
\* in between, and a force it rests on has not been withdrawn.
THEOREM ClaimsAreFresh == Spec => ClaimFresh
<1> DEFINE Fresh(p) ==
        /\ prop[p].attempt.head = row[p].head /\ prop[p].attempt.epoch = row[p].epoch
        /\ row[p].approved \/ (prop[p].attempt.force /\ Forced(p))
        /\ row[p].checks = "passing" \/ prop[p].force = row[p].head
        /\ ~row[p].merged
<1>1. ASSUME TypeInv, AllSound, NEW p \in Proposals, NEW m \in pin, Claimed(p, m),
             prop[p].attempt.stage = "gate"
      PROVE  Fresh(p)
  <2>1. prop[p].attempt.head = row[p].head /\ prop[p].attempt.epoch = row[p].epoch
    BY <1>1 DEF Claimed
  <2>2. prop[p].attempt.force => Forced(p)
    BY <1>1, <2>1 DEF AllSound, Sound, GateForce, Forced
  <2> QED
    BY <1>1, <2>1, <2>2 DEF Claimed, ClaimOpen, Waived
<1>2. TypeInv /\ AllSound /\ [Next]_vars
        => [\A p \in Proposals :
              (prop[p].attempt.stage = "gate" /\ prop'[p].attempt.stage = "merge") => Fresh(p)]_vars
  BY <1>1, NextMoves DEF Moves
<1> QED
  BY <1>2, SoundHolds, PTL DEF Spec, ClaimFresh

-----------------------------------------------------------------------------
(***************************************************************************)
(* The queue's slots.  Whose ask a number is, wherever it is named, keeps  *)
(* the queue from freeing a slot on somebody else's answer; a step that    *)
(* takes an ask from one place puts it, or its answer, in another.         *)
(***************************************************************************)
AttemptAsks ==
  {<<m.n, m.p>> : m \in {x \in inbox : x.type = "AttemptEnded"}}
    \cup {<<m.n, m.p>> : m \in {x \in pin : x.type = "MergeRequested"}}
    \cup {<<prop[p].attempt.queueN, p>> : p \in Proposals}
SyncAsks ==
  {<<m.n, m.p>> : m \in {x \in inbox : x.type = "ResolutionEnded"}}
    \cup {<<m.n, m.p>> : m \in {x \in pin : x.type = "SyncRequested"}}
    \cup {<<prop[p].sync.queueN, p>> : p \in Proposals}

Matches(asks, slot, other) ==
  \A x \in asks : x[1] # 0 => (x[1] = slot.n => x[2] = slot.p) /\ x[1] # other.n
SlotsApart(d) ==
  /\ d.attempt.n = 0 => d.attempt = NoSlot
  /\ d.resolution.n = 0 => d.resolution = NoSlot
  /\ d.attempt.n = d.resolution.n => d.attempt.n = 0
AsksMatch ==
  /\ SlotsApart(queue)
  /\ Matches(AttemptAsks, queue.attempt, queue.resolution)
  /\ Matches(SyncAsks, queue.resolution, queue.attempt)

Placed(n) ==
  \/ \E m \in pin : m.type \in {"MergeRequested", "SyncRequested"} /\ m.n = n
  \/ \E p \in Proposals : prop[p].attempt.queueN = n /\ prop[p].attempt.stage \in {"gate", "merge"}
  \/ \E p \in Proposals : prop[p].sync.queueN = n
  \/ \E m \in inbox : m.type \in {"AttemptEnded", "ResolutionEnded"} /\ m.n = n
SlotsPlaced(d) ==
  /\ d.attempt # NoSlot => Placed(d.attempt.n)
  /\ d.resolution # NoSlot => Placed(d.resolution.n)
SlotsInv == AsksMatch /\ SlotsPlaced(queue)

\* Wherever the ask n is named.  Only an attempt that GitHub has answered, or
\* may have, still names the ask it was for once the queue is answered.
Names(n) ==
  {<<"asked", m>> : m \in {x \in pin : x.type \in {"MergeRequested", "SyncRequested"} /\ x.n = n}}
  \cup {<<"attempt", p>> : p \in {q \in Proposals : prop[q].attempt.queueN = n}}
  \cup {<<"sync", p>> : p \in {q \in Proposals : prop[q].sync.queueN = n}}
  \cup {<<"told", m>> : m \in {x \in inbox : x.type \in {"AttemptEnded", "ResolutionEnded"} /\ x.n = n}}
Outlives(x, y, n) ==
  \E p \in Proposals : /\ x = <<"attempt", p>> /\ prop[p].attempt.stage \notin {"gate", "merge"}
                       /\ y = <<"told", Ended(p, n)>>
Once(n) == \A x, y \in Names(n) : x = y \/ Outlives(x, y, n) \/ Outlives(y, x, n)
AsksOnce == \A n : n # 0 => Once(n)

LEMMA PlacedIsAPlace == ASSUME NEW n PROVE Placed(n) => AskPlaces(n) # {}
<1> SUFFICES ASSUME Placed(n) PROVE \E x : x \in AskPlaces(n)
  OBVIOUS
<1>1. CASE \E m \in pin : m.type \in {"MergeRequested", "SyncRequested"} /\ m.n = n
  <2>1. PICK m \in pin : m.type \in {"MergeRequested", "SyncRequested"} /\ m.n = n
    BY <1>1
  <2>2. <<"asked", m>> \in AskPlaces(n)
    BY <2>1 DEF AskPlaces
  <2> QED
    BY <2>2
<1>2. ASSUME NEW p \in Proposals,
             \/ prop[p].attempt.queueN = n /\ prop[p].attempt.stage \in {"gate", "merge"}
             \/ prop[p].sync.queueN = n
      PROVE  \E x : x \in AskPlaces(n)
  <2>1. <<"attempt", p>> \in AskPlaces(n) \/ <<"sync", p>> \in AskPlaces(n)
    BY <1>2 DEF AskPlaces
  <2> QED
    BY <2>1
<1>3. CASE \E m \in inbox : m.type \in {"AttemptEnded", "ResolutionEnded"} /\ m.n = n
  <2>1. PICK m \in inbox : m.type \in {"AttemptEnded", "ResolutionEnded"} /\ m.n = n
    BY <1>3
  <2>2. <<"told", m>> \in AskPlaces(n)
    BY <2>1 DEF AskPlaces
  <2> QED
    BY <2>2
<1> QED
  BY <1>1, <1>2, <1>3 DEF Placed

\* A step that makes up no ask, drops none and doubles none keeps the slots.
Carries ==
  /\ queue' = queue
  /\ \A x \in AttemptAsks' : x[1] # 0 => x \in AttemptAsks
  /\ \A x \in SyncAsks' : x[1] # 0 => x \in SyncAsks
  /\ \A n : n # 0 /\ Placed(n) => Placed(n)'
  /\ \A n : n # 0 /\ Once(n) => Once(n)'

LEMMA CarriesSlots == ASSUME SlotsInv, Carries PROVE SlotsInv'
<1>1. AsksMatch'
  BY DEF SlotsInv, AsksMatch, Carries, Matches
<1>2. SlotsPlaced(queue)'
  <2>1. ASSUME NEW s \in {queue.attempt, queue.resolution}, s # NoSlot PROVE s.n # 0 /\ Placed(s.n)
    BY <2>1 DEF SlotsInv, AsksMatch, SlotsApart, SlotsPlaced
  <2>2. \A s \in {queue.attempt, queue.resolution} : s # NoSlot => Placed(s.n)'
    BY <2>1 DEF Carries
  <2> QED
    BY <2>2 DEF SlotsPlaced, Carries
<1> QED
  BY <1>1, <1>2 DEF SlotsInv

LEMMA WorksAreNoEvents == Works \cap Events = {} /\ NoEvent \notin Events
<1>1. ASSUME NEW w \in Works, w \in Events PROVE FALSE
  <2>1. DOMAIN w = {"p", "kind", "n", "head"}
    BY DEF Works
  <2>2. "type" \in DOMAIN w
    BY <1>1 DEF Events, Dones
  <2> QED
    BY <2>1, <2>2
<1>2. NoEvent \notin Events
  BY DEF NoEvent, Events, Dones
<1> QED
  BY <1>1, <1>2

\* What a step of p must do for the slots: what it sends is of an ask p had,
\* read or held; and an ask it reads, a gate or merge it ends, a sync it ends
\* is held on or answered.
AskRead(p, m, type, n) == m \in pin /\ m.type = type /\ m.p = p /\ m.n = n
KeepsAsks(p, m, s, msgs) ==
  /\ s.attempt.queueN \in {0, prop[p].attempt.queueN} \/ AskRead(p, m, "MergeRequested", s.attempt.queueN)
  /\ s.sync.queueN \in {0, prop[p].sync.queueN} \/ AskRead(p, m, "SyncRequested", s.sync.queueN)
  /\ \A x \in msgs :
       \/ x.type = "MergeWanted"
       \/ x = Ended(p, x.n)
            /\ (x.n = prop[p].attempt.queueN \/ AskRead(p, m, "MergeRequested", x.n))
       \/ x = Resolved(p, x.n)
            /\ (x.n = prop[p].sync.queueN \/ AskRead(p, m, "SyncRequested", x.n))
KeepsPlaces(p, m, s, msgs) ==
  /\ m \in pin /\ m.type = "MergeRequested" =>
       Ended(p, m.n) \in msgs \/ (s.attempt.queueN = m.n /\ s.attempt.stage = "gate")
  /\ m \in pin /\ m.type = "SyncRequested" => Resolved(p, m.n) \in msgs \/ s.sync.queueN = m.n
  /\ prop[p].attempt.stage \in {"gate", "merge"} =>
       \/ Ended(p, prop[p].attempt.queueN) \in msgs
       \/ s.attempt.queueN = prop[p].attempt.queueN /\ s.attempt.stage \in {"gate", "merge"}
  /\ prop[p].sync.queueN # 0 =>
       Resolved(p, prop[p].sync.queueN) \in msgs \/ s.sync.queueN = prop[p].sync.queueN

\* What a step of p must do for that: it does not answer for a gate or merge it
\* goes on with, nor for a sync, unless it refuses an ask of that number.
AnswersOnce(p, m, s, msgs) ==
  /\ s.attempt.queueN # 0 /\ s.attempt.stage \in {"gate", "merge"} =>
       \/ s.attempt = prop[p].attempt /\ AskRead(p, m, "MergeRequested", s.attempt.queueN)
       \/ /\ Ended(p, s.attempt.queueN) \notin msgs
          /\ \/ prop[p].attempt.stage \in {"gate", "merge"}
             \/ AskRead(p, m, "MergeRequested", s.attempt.queueN)
  /\ s.sync.queueN # 0 =>
       \/ s.sync = prop[p].sync /\ AskRead(p, m, "SyncRequested", s.sync.queueN)
       \/ Resolved(p, s.sync.queueN) \notin msgs

LEMMA AreNames ==
  ASSUME NEW n
  PROVE  /\ \A m \in pin : m.type \in {"MergeRequested", "SyncRequested"} /\ m.n = n => <<"asked", m>> \in Names(n)
         /\ \A p \in Proposals : prop[p].attempt.queueN = n => <<"attempt", p>> \in Names(n)
         /\ \A p \in Proposals : prop[p].sync.queueN = n => <<"sync", p>> \in Names(n)
         /\ \A m \in inbox : m.type \in {"AttemptEnded", "ResolutionEnded"} /\ m.n = n => <<"told", m>> \in Names(n)
BY DEF Names

\* An unread ask, or a sync's, is named nowhere else.
LEMMA NamedAlone ==
  ASSUME NEW n, Once(n), NEW z
  PROVE  /\ <<"asked", z>> \in Names(n) => \A x \in Names(n) : x = <<"asked", z>>
         /\ <<"sync", z>> \in Names(n) => \A x \in Names(n) : x = <<"sync", z>>
BY DEF Once, Outlives

LEMMA StepOnce ==
  ASSUME TypeInv, NEW p \in Proposals, NEW m, NEW s, NEW r, NEW started, NEW msgs,
         Step(p, m, s, r, started, msgs), KeepsAsks(p, m, s, msgs), AnswersOnce(p, m, s, msgs),
         NEW n, n # 0, Once(n)
  PROVE  Once(n)'
<1>1. /\ \A q \in Proposals : prop'[q] = IF q = p THEN s ELSE prop[q]
      /\ pin' = pin \ {m} /\ inbox' = inbox \cup msgs
  BY DEF Step, TypeInv, MergeTypeOK, queueVars
<1>2. \A x \in msgs :
        \/ x.type \notin {"AttemptEnded", "ResolutionEnded"}
        \/ x = Ended(p, x.n) /\ (x.n = prop[p].attempt.queueN \/ AskRead(p, m, "MergeRequested", x.n))
        \/ x = Resolved(p, x.n) /\ (x.n = prop[p].sync.queueN \/ AskRead(p, m, "SyncRequested", x.n))
  BY DEF KeepsAsks
<1>3. CASE m \in pin /\ m.type \in {"MergeRequested", "SyncRequested"} /\ m.n = n
  <2>1. \A x \in Names(n) : x = <<"asked", m>>
    BY <1>3, AreNames, NamedAlone
  <2>2. /\ \A q \in Proposals : prop[q].attempt.queueN # n /\ prop[q].sync.queueN # n
        /\ \A k \in pin : k.type \in {"MergeRequested", "SyncRequested"} /\ k.n = n => k = m
        /\ \A k \in inbox : k.type \in {"AttemptEnded", "ResolutionEnded"} => k.n # n
    BY <2>1, AreNames
  <2>3. ASSUME NEW x \in Names(n)'
        PROVE  \/ m.type = "MergeRequested" /\ x = <<"attempt", p>> /\ s.attempt.queueN = n
               \/ m.type = "MergeRequested" /\ x = <<"told", Ended(p, n)>> /\ Ended(p, n) \in msgs
               \/ m.type = "SyncRequested" /\ x = <<"sync", p>> /\ s.sync.queueN = n
               \/ m.type = "SyncRequested" /\ x = <<"told", Resolved(p, n)>> /\ Resolved(p, n) \in msgs
    <3>1. CASE \E k \in pin' : k.type \in {"MergeRequested", "SyncRequested"} /\ k.n = n
      BY <1>1, <2>2, <3>1
    <3>2. CASE \E q \in Proposals : prop'[q].attempt.queueN = n /\ x = <<"attempt", q>>
      BY <1>1, <2>2, <3>2 DEF KeepsAsks, AskRead
    <3>3. CASE \E q \in Proposals : prop'[q].sync.queueN = n /\ x = <<"sync", q>>
      BY <1>1, <2>2, <3>3 DEF KeepsAsks, AskRead
    <3>4. CASE \E k \in inbox' : k.type \in {"AttemptEnded", "ResolutionEnded"} /\ k.n = n /\ x = <<"told", k>>
      BY <1>1, <1>2, <2>2, <3>4 DEF AskRead
    <3> QED
      BY <3>1, <3>2, <3>3, <3>4 DEF Names
  <2>4. s.attempt.queueN = n /\ Ended(p, n) \in msgs
          => Outlives(<<"attempt", p>>, <<"told", Ended(p, n)>>, n)'
    BY <1>1, <2>2 DEF Outlives, AnswersOnce
  <2>5. ~(s.sync.queueN = n /\ Resolved(p, n) \in msgs)
    BY <2>2 DEF AnswersOnce
  <2> QED
    BY <2>3, <2>4, <2>5 DEF Once
<1>4. CASE ~(m \in pin /\ m.type \in {"MergeRequested", "SyncRequested"} /\ m.n = n)
  <2>1. ASSUME NEW x \in Names(n)'
        PROVE  \/ x \in Names(n)
               \/ x = <<"told", Ended(p, n)>> /\ Ended(p, n) \in msgs /\ <<"attempt", p>> \in Names(n)
               \/ x = <<"told", Resolved(p, n)>> /\ Resolved(p, n) \in msgs /\ <<"sync", p>> \in Names(n)
    <3>1. CASE \E k \in pin' : k.type \in {"MergeRequested", "SyncRequested"} /\ k.n = n /\ x = <<"asked", k>>
      BY <1>1, <3>1, AreNames
    <3>2. CASE \E q \in Proposals : prop'[q].attempt.queueN = n /\ x = <<"attempt", q>>
      BY <1>1, <1>4, <3>2, AreNames DEF KeepsAsks, AskRead
    <3>3. CASE \E q \in Proposals : prop'[q].sync.queueN = n /\ x = <<"sync", q>>
      BY <1>1, <1>4, <3>3, AreNames DEF KeepsAsks, AskRead
    <3>4. CASE \E k \in inbox' : k.type \in {"AttemptEnded", "ResolutionEnded"} /\ k.n = n /\ x = <<"told", k>>
      BY <1>1, <1>2, <1>4, <3>4, AreNames DEF AskRead
    <3> QED
      BY <3>1, <3>2, <3>3, <3>4 DEF Names
  <2>2. ASSUME NEW x, NEW y, Outlives(x, y, n), x \in Names(n)'
        PROVE  Outlives(x, y, n)'
    <3>1. PICK q \in Proposals : /\ x = <<"attempt", q>> /\ prop[q].attempt.stage \notin {"gate", "merge"}
                                 /\ y = <<"told", Ended(q, n)>>
      BY <2>2 DEF Outlives
    <3>2. q = p => prop'[p].attempt.queueN = n
      BY <2>2, <3>1 DEF Names
    <3>3. q = p => s.attempt.stage \notin {"gate", "merge"}
      BY <1>1, <1>4, <3>1, <3>2 DEF AnswersOnce, AskRead
    <3> QED
      BY <1>1, <3>1, <3>3 DEF Outlives
  <2>3. ASSUME <<"attempt", p>> \in Names(n), Ended(p, n) \in msgs,
               NEW y \in Names(n)', y # <<"told", Ended(p, n)>>
        PROVE  Outlives(y, <<"told", Ended(p, n)>>, n)'
    <3>1. CASE y \in Names(n)
      <4>1. y = <<"attempt", p>>
        BY <2>3, <3>1 DEF Once, Outlives
      <4>2. prop'[p].attempt.queueN = n
        BY <2>3, <4>1 DEF Names
      <4> QED
        BY <1>1, <1>4, <2>3, <4>1, <4>2 DEF Outlives, AnswersOnce, AskRead
    <3>2. CASE y = <<"told", Resolved(p, n)>> /\ <<"sync", p>> \in Names(n)
      BY <2>3, <3>2, NamedAlone
    <3> QED
      BY <2>1, <2>3, <3>1, <3>2
  <2>4. ASSUME <<"sync", p>> \in Names(n), Resolved(p, n) \in msgs, NEW y \in Names(n)'
        PROVE  y = <<"told", Resolved(p, n)>>
    <3>1. y \notin Names(n)
      <4>1. y \in Names(n) => y = <<"sync", p>>
        BY <2>4, NamedAlone
      <4>2. y = <<"sync", p>> => prop'[p].sync.queueN = n
        BY <2>4 DEF Names
      <4> QED
        BY <1>1, <1>4, <2>4, <4>1, <4>2 DEF AnswersOnce, AskRead
    <3>2. <<"attempt", p>> \notin Names(n)
      BY <2>4, NamedAlone
    <3> QED
      BY <2>1, <2>4, <3>1, <3>2
  <2>5. ASSUME NEW x \in Names(n)', NEW y \in Names(n)', x \in Names(n), y \in Names(n), x # y
        PROVE  Outlives(x, y, n)' \/ Outlives(y, x, n)'
    <3>1. ASSUME Outlives(x, y, n) PROVE Outlives(x, y, n)'
      BY <2>2, <2>5, <3>1
    <3>2. ASSUME Outlives(y, x, n) PROVE Outlives(y, x, n)'
      BY <2>2, <2>5, <3>2
    <3> QED
      BY <2>5, <3>1, <3>2 DEF Once
  <2> QED
    BY <2>1, <2>3, <2>4, <2>5 DEF Once
<1> QED
  BY <1>3, <1>4

LEMMA StepCarries ==
  ASSUME TypeInv, NEW p \in Proposals, NEW m, NEW s, NEW r, NEW started, NEW msgs,
         Step(p, m, s, r, started, msgs), KeepsAsks(p, m, s, msgs), KeepsPlaces(p, m, s, msgs),
         AnswersOnce(p, m, s, msgs)
  PROVE  Carries
<1>1. /\ \A q \in Proposals : prop'[q] = IF q = p THEN s ELSE prop[q]
      /\ pin' = pin \ {m} /\ inbox' = inbox \cup msgs /\ queue' = queue
  BY DEF Step, TypeInv, MergeTypeOK, queueVars
<1>2. ASSUME NEW x \in AttemptAsks', x[1] # 0 PROVE x \in AttemptAsks
  <2>1. CASE \E k \in inbox' : k.type = "AttemptEnded" /\ x = <<k.n, k.p>>
    <3>1. PICK k \in inbox' : k.type = "AttemptEnded" /\ x = <<k.n, k.p>>
      BY <2>1
    <3>2. CASE k \in inbox
      BY <3>1, <3>2 DEF AttemptAsks
    <3>3. CASE k \in msgs
      <4>1. k.p = p /\ (k.n = prop[p].attempt.queueN \/ AskRead(p, m, "MergeRequested", k.n))
        BY <3>1, <3>3 DEF KeepsAsks, Ended, Resolved
      <4> QED
        BY <3>1, <4>1 DEF AttemptAsks, AskRead
    <3> QED
      BY <1>1, <3>1, <3>2, <3>3
  <2>2. CASE \E k \in pin' : k.type = "MergeRequested" /\ x = <<k.n, k.p>>
    BY <1>1, <2>2 DEF AttemptAsks
  <2>3. CASE \E q \in Proposals : x = <<prop'[q].attempt.queueN, q>>
    <3>1. PICK q \in Proposals : x = <<prop'[q].attempt.queueN, q>>
      BY <2>3
    <3>2. CASE q = p
      <4>1. s.attempt.queueN = prop[p].attempt.queueN \/ AskRead(p, m, "MergeRequested", s.attempt.queueN)
        BY <1>1, <1>2, <3>1, <3>2 DEF KeepsAsks
      <4> QED
        BY <1>1, <3>1, <3>2, <4>1 DEF AttemptAsks, AskRead
    <3>3. CASE q # p
      BY <1>1, <3>1, <3>3 DEF AttemptAsks
    <3> QED
      BY <3>2, <3>3
  <2> QED
    BY <2>1, <2>2, <2>3 DEF AttemptAsks
<1>3. ASSUME NEW x \in SyncAsks', x[1] # 0 PROVE x \in SyncAsks
  <2>1. CASE \E k \in inbox' : k.type = "ResolutionEnded" /\ x = <<k.n, k.p>>
    <3>1. PICK k \in inbox' : k.type = "ResolutionEnded" /\ x = <<k.n, k.p>>
      BY <2>1
    <3>2. CASE k \in inbox
      BY <3>1, <3>2 DEF SyncAsks
    <3>3. CASE k \in msgs
      <4>1. k.p = p /\ (k.n = prop[p].sync.queueN \/ AskRead(p, m, "SyncRequested", k.n))
        BY <3>1, <3>3 DEF KeepsAsks, Ended, Resolved
      <4> QED
        BY <3>1, <4>1 DEF SyncAsks, AskRead
    <3> QED
      BY <1>1, <3>1, <3>2, <3>3
  <2>2. CASE \E k \in pin' : k.type = "SyncRequested" /\ x = <<k.n, k.p>>
    BY <1>1, <2>2 DEF SyncAsks
  <2>3. CASE \E q \in Proposals : x = <<prop'[q].sync.queueN, q>>
    <3>1. PICK q \in Proposals : x = <<prop'[q].sync.queueN, q>>
      BY <2>3
    <3>2. CASE q = p
      <4>1. s.sync.queueN = prop[p].sync.queueN \/ AskRead(p, m, "SyncRequested", s.sync.queueN)
        BY <1>1, <1>3, <3>1, <3>2 DEF KeepsAsks
      <4> QED
        BY <1>1, <3>1, <3>2, <4>1 DEF SyncAsks, AskRead
    <3>3. CASE q # p
      BY <1>1, <3>1, <3>3 DEF SyncAsks
    <3> QED
      BY <3>2, <3>3
  <2> QED
    BY <2>1, <2>2, <2>3 DEF SyncAsks
<1>4. ASSUME NEW n, n # 0, Placed(n) PROVE Placed(n)'
  <2>0. /\ Ended(p, n) \in msgs => Placed(n)'
        /\ Resolved(p, n) \in msgs => Placed(n)'
    BY <1>1 DEF Placed, Ended, Resolved
  <2>1. ASSUME NEW k \in pin, k.type \in {"MergeRequested", "SyncRequested"}, k.n = n PROVE Placed(n)'
    <3>1. CASE k # m
      BY <1>1, <2>1, <3>1 DEF Placed
    <3>2. CASE k = m
      BY <1>1, <2>0, <2>1, <3>2 DEF KeepsPlaces, Placed
    <3> QED
      BY <3>1, <3>2
  <2>2. ASSUME NEW q \in Proposals, prop[q].attempt.queueN = n, prop[q].attempt.stage \in {"gate", "merge"}
        PROVE  Placed(n)'
    <3>1. CASE q # p
      BY <1>1, <2>2, <3>1 DEF Placed
    <3>2. CASE q = p
      BY <1>1, <2>0, <2>2, <3>2 DEF KeepsPlaces, Placed
    <3> QED
      BY <3>1, <3>2
  <2>3. ASSUME NEW q \in Proposals, prop[q].sync.queueN = n PROVE Placed(n)'
    <3>1. CASE q # p
      BY <1>1, <2>3, <3>1 DEF Placed
    <3>2. CASE q = p
      BY <1>1, <1>4, <2>0, <2>3, <3>2 DEF KeepsPlaces, Placed
    <3> QED
      BY <3>1, <3>2
  <2>4. CASE \E k \in inbox : k.type \in {"AttemptEnded", "ResolutionEnded"} /\ k.n = n
    BY <1>1, <2>4 DEF Placed
  <2> QED
    BY <1>4, <2>1, <2>2, <2>3, <2>4 DEF Placed
<1>5. \A n : n # 0 /\ Once(n) => Once(n)'
  BY StepOnce
<1> QED
  BY <1>1, <1>2, <1>3, <1>4, <1>5 DEF Carries

\* A step that reads no ask, and answers for what it ends.
LEMMA AnswersCarry ==
  ASSUME TypeInv, NEW p \in Proposals, NEW m, NEW s, NEW r, NEW started, NEW msgs,
         Step(p, m, s, r, started, msgs),
         m \in pin => m.type \notin {"MergeRequested", "SyncRequested"},
         \A x \in msgs : \/ x.type = "MergeWanted"
                         \/ x \in SlotsTold(p)
                         \/ x = Ended(p, prop[p].attempt.queueN),
         s.attempt.queueN \in {0, prop[p].attempt.queueN},
         AttemptTold(p) \subseteq msgs
           \/ (s.attempt.queueN = prop[p].attempt.queueN /\ s.attempt.stage \in {"gate", "merge"})
           \/ prop[p].attempt.stage \notin {"gate", "merge"},
         \/ s.sync.queueN = prop[p].sync.queueN /\ Resolved(p, s.sync.queueN) \notin msgs
         \/ s.sync.queueN = 0 /\ SyncTold(p) \subseteq msgs,
         s.attempt.queueN # 0 /\ s.attempt.stage \in {"gate", "merge"} =>
           prop[p].attempt.stage \in {"gate", "merge"} /\ Ended(p, s.attempt.queueN) \notin msgs
  PROVE  Carries
<1>1. KeepsAsks(p, m, s, msgs)
  BY DEF KeepsAsks, SlotsTold, AttemptTold, SyncTold, Ended, Resolved
<1>2. KeepsPlaces(p, m, s, msgs)
  BY DEF KeepsPlaces, AttemptTold, SyncTold
<1>3. AnswersOnce(p, m, s, msgs)
  BY DEF AnswersOnce
<1> QED
  BY <1>1, <1>2, <1>3, StepCarries

LEMMA MergeAskedCarries ==
  ASSUME TypeInv, NEW p \in Proposals, MergeAsked(p)
  PROVE  Carries
<1> DEFINE n == Pick(FreshWorks(p))
           a(m) == [stage |-> "gate", n |-> n, queueN |-> m.n, force |-> m.force /\ Forced(p),
                    head |-> row[p].head, epoch |-> row[p].epoch, retried |-> FALSE]
           s(m) == [prop[p] EXCEPT !.attempt = a(m)]
<1>1. PICK m \in pin :
        /\ m.type = "MergeRequested" /\ m.p = p
        /\ AskRefused(p) => Step(p, m, prop[p], row[p], {}, {Ended(p, m.n)})
        /\ ~AskRefused(p) => Step(p, m, s(m), row[p], {Work(p, "gate", n, NoHead)}, {})
  BY DEF MergeAsked
<1>2. CASE AskRefused(p)
  <2>1. KeepsAsks(p, m, prop[p], {Ended(p, m.n)})
    BY <1>1 DEF KeepsAsks, AskRead, Ended
  <2>2. KeepsPlaces(p, m, prop[p], {Ended(p, m.n)})
    BY <1>1 DEF KeepsPlaces
  <2>3. AnswersOnce(p, m, prop[p], {Ended(p, m.n)})
    BY <1>1 DEF AnswersOnce, AskRead, Ended, Resolved
  <2> QED
    BY <1>1, <1>2, <2>1, <2>2, <2>3, StepCarries
<1>3. CASE ~AskRefused(p)
  <2>1. prop[p].attempt = NoAttempt /\ prop[p].sync = NoSync
    BY <1>3 DEF AskRefused, Busy
  <2>2. s(m).attempt = a(m) /\ s(m).sync = prop[p].sync
    BY RecordTypes DEF Props
  <2>3. a(m).queueN = m.n /\ a(m).stage = "gate"
    OBVIOUS
  <2>4. Step(p, m, s(m), row[p], {Work(p, "gate", n, NoHead)}, {})
    BY <1>1, <1>3
  <2> HIDE DEF a, s
  <2>5. KeepsAsks(p, m, s(m), {})
    BY <1>1, <2>2, <2>3 DEF KeepsAsks, AskRead
  <2>6. KeepsPlaces(p, m, s(m), {})
    BY <1>1, <2>1, <2>2, <2>3 DEF KeepsPlaces, NoAttempt, NoSync
  <2>7. AnswersOnce(p, m, s(m), {})
    BY <1>1, <2>2, <2>3 DEF AnswersOnce, AskRead
  <2> QED
    BY <2>4, <2>5, <2>6, <2>7, StepCarries
<1> QED
  BY <1>2, <1>3

LEMMA SyncAskedCarries ==
  ASSUME TypeInv, NEW p \in Proposals, SyncAsked(p) \/ PersonSyncs(p)
  PROVE  Carries
<1>1. ASSUME NEW m, NEW q, NEW r, BeginSync(p, m, q, r), ~SyncRefused(p),
             \/ m \in pin /\ m.type = "SyncRequested" /\ m.p = p /\ q = m.n
             \/ m \notin pin /\ q = 0
      PROVE  Carries
  <2> DEFINE n == Pick(FreshWorks(p))
             g == m.type = "SyncRequested" /\ m.github
             y == [n |-> n, queueN |-> q, head |-> row[p].head, github |-> g]
             s == [prop[p] EXCEPT !.sync = y]
  <2>1. Step(p, m, s, r, {Work(p, "sync", n, NoHead)}, {})
    BY <1>1 DEF BeginSync
  <2>2. y.queueN = q
    OBVIOUS
  <2> HIDE DEF y
  <2>3. s.sync = y /\ s.attempt = prop[p].attempt
    BY RecordTypes DEF Props
  <2>4. prop[p].attempt = NoAttempt /\ prop[p].sync = NoSync
    BY <1>1 DEF SyncRefused, Busy
  <2> HIDE DEF s
  <2>5. KeepsAsks(p, m, s, {})
    BY <1>1, <2>2, <2>3 DEF KeepsAsks, AskRead
  <2>6. KeepsPlaces(p, m, s, {})
    BY <1>1, <2>2, <2>3, <2>4 DEF KeepsPlaces, NoAttempt, NoSync
  <2>7. AnswersOnce(p, m, s, {})
    BY <2>3, <2>4 DEF AnswersOnce, NoAttempt
  <2> QED
    BY <2>1, <2>5, <2>6, <2>7, StepCarries
<1>2. CASE SyncAsked(p)
  <2>1. PICK m \in pin :
          /\ m.type = "SyncRequested" /\ m.p = p
          /\ \/ Step(p, m, prop[p], row[p], {}, {Resolved(p, m.n)})
             \/ ~LaneRefused(p, m.approved) /\ \E r : BeginSync(p, m, m.n, r)
    BY <1>2 DEF SyncAsked
  <2>2. CASE Step(p, m, prop[p], row[p], {}, {Resolved(p, m.n)})
    <3>1. KeepsAsks(p, m, prop[p], {Resolved(p, m.n)})
      BY <2>1 DEF KeepsAsks, AskRead, Resolved
    <3>2. KeepsPlaces(p, m, prop[p], {Resolved(p, m.n)})
      BY <2>1 DEF KeepsPlaces
    <3>3. AnswersOnce(p, m, prop[p], {Resolved(p, m.n)})
      BY <2>1 DEF AnswersOnce, AskRead, Ended, Resolved
    <3> QED
      BY <2>2, <3>1, <3>2, <3>3, StepCarries
  <2>3. CASE ~LaneRefused(p, m.approved) /\ \E r : BeginSync(p, m, m.n, r)
    BY <1>1, <2>1, <2>3 DEF LaneRefused
  <2> QED
    BY <2>1, <2>2, <2>3
<1>3. CASE PersonSyncs(p)
  <2>1. NoEvent \notin pin
    BY WorksAreNoEvents DEF TypeInv, LettersOK
  <2> QED
    BY <1>1, <1>3, <2>1 DEF PersonSyncs
<1> QED
  BY <1>2, <1>3

LEMMA MergedOnGithubCarries ==
  ASSUME TypeInv, NEW p \in Proposals, NEW m, MergedOnGithub(p, m),
         m \in pin => m.type \notin {"MergeRequested", "SyncRequested"}
  PROVE  Carries
<1> DEFINE s == [prop[p] EXCEPT !.state = "merging", !.attempt = [@ EXCEPT !.stage = "merged"]]
<1>1. s.attempt.queueN = prop[p].attempt.queueN /\ s.attempt.stage = "merged" /\ s.sync = prop[p].sync
  BY RecordTypes DEF Props, AttemptsOf
<1>2. Step(p, m, s, row[p], {}, AttemptTold(p))
  BY DEF MergedOnGithub
<1> HIDE DEF s
<1> QED
  BY <1>1, <1>2, AnswersCarry DEF SlotsTold, AttemptTold, Ended, Resolved

LEMMA BackCarries ==
  ASSUME TypeInv, NEW p \in Proposals, NEW m, NEW k, BackToReview(p, m, k),
         m \in pin => m.type \notin {"MergeRequested", "SyncRequested"}
  PROVE  Carries
<1> DEFINE s == [prop[p] EXCEPT !.state = "in_review", !.attempt = NoAttempt, !.refused = k]
<1>1. s.attempt.queueN = 0 /\ s.sync = prop[p].sync
  BY RecordTypes DEF Props, NoAttempt
<1>2. Step(p, m, s, row[p], {}, {Ended(p, prop[p].attempt.queueN)})
  BY DEF BackToReview
<1> HIDE DEF s
<1> QED
  BY <1>1, <1>2, AnswersCarry DEF AttemptTold, Ended, Resolved

LEMMA EndedCarries ==
  ASSUME TypeInv, NEW p \in Proposals, NEW m, NEW r, NEW started, NEW state, NEW msgs,
         Step(p, m, Ends(prop[p], state), r, started, msgs),
         msgs = SlotsTold(p) \/ (msgs = {} /\ ~Busy(p)),
         m \in pin => m.type \notin {"MergeRequested", "SyncRequested"}
  PROVE  Carries
<1>1. Ends(prop[p], state).attempt.queueN = 0 /\ Ends(prop[p], state).sync.queueN = 0
  BY RecordTypes DEF Ends, Props, NoAttempt, NoSync
<1>2. CASE msgs = SlotsTold(p)
  BY <1>1, <1>2, AnswersCarry DEF SlotsTold
<1>3. CASE msgs = {} /\ ~Busy(p)
  BY <1>1, <1>3, AnswersCarry DEF Busy, NoAttempt, NoSync
<1> QED
  BY <1>2, <1>3

LEMMA NoAskRead ==
  ASSUME TypeInv, NEW m
  PROVE  /\ m = NoEvent \/ m \in work => m \notin pin
         /\ \A p : m = Merged(p) => m.type = "Merged"
BY WorksAreNoEvents DEF TypeInv, LettersOK, Merged

LEMMA GatedCarries ==
  ASSUME TypeInv, NEW p \in Proposals, Gated(p)
  PROVE  Carries
<1> DEFINE a == prop[p].attempt
           s == [prop[p] EXCEPT !.state = "merging", !.attempt.stage = "merge"]
           t == [prop[p] EXCEPT !.attempt = NoAttempt]
<1>1. PICK m \in pin :
        /\ m.type = "WorkDone"
        /\ \/ Step(p, m, prop[p], row[p], {}, {})
           \/ a.stage = "gate" /\ Step(p, m, s, row[p], {Work(p, "attempt", a.n, row[p].head)}, {})
           \/ Step(p, m, t, row[p], {}, {Ended(p, a.queueN)})
  BY DEF Gated
<1>2. /\ s.attempt.queueN = a.queueN /\ s.attempt.stage = "merge" /\ s.sync = prop[p].sync
      /\ t.attempt.queueN = 0 /\ t.sync = prop[p].sync
  BY RecordTypes DEF Props, AttemptsOf, NoAttempt
<1> HIDE DEF s, t
<1>3. CASE Step(p, m, prop[p], row[p], {}, {})
  BY <1>1, <1>3, AnswersCarry
<1>4. CASE a.stage = "gate" /\ Step(p, m, s, row[p], {Work(p, "attempt", a.n, row[p].head)}, {})
  BY <1>1, <1>2, <1>4, AnswersCarry
<1>5. CASE Step(p, m, t, row[p], {}, {Ended(p, a.queueN)})
  BY <1>1, <1>2, <1>5, AnswersCarry DEF AttemptTold, Ended, Resolved
<1> QED
  BY <1>1, <1>3, <1>4, <1>5

LEMMA AttemptedCarries ==
  ASSUME TypeInv, NEW p \in Proposals, Attempted(p)
  PROVE  Carries
<1> DEFINE a == prop[p].attempt
           s == [prop[p] EXCEPT !.state = "unconfirmed", !.attempt.stage = "unconfirmed"]
           t == [prop[p] EXCEPT !.attempt.n = Pick(FreshWorks(p)), !.attempt.retried = TRUE]
<1>1. PICK m \in pin :
        /\ m.type = "WorkDone"
        /\ \/ Step(p, m, prop[p], row[p], {}, {})
           \/ MergedOnGithub(p, m)
           \/ Step(p, m, s, row[p], {}, AttemptTold(p))
           \/ \E k : BackToReview(p, m, k)
           \/ Abandoned(p, m)
           \/ a.stage = "merge" /\ AskedAgain(p, m)
  BY DEF Attempted
<1>2. /\ s.attempt.queueN = a.queueN /\ s.attempt.stage = "unconfirmed" /\ s.sync = prop[p].sync
      /\ t.attempt.queueN = a.queueN /\ t.sync = prop[p].sync /\ t.attempt.stage = a.stage
  BY RecordTypes DEF Props, AttemptsOf
<1>3. AskedAgain(p, m) => \E started : Step(p, m, t, row[p], started, {})
  BY DEF AskedAgain
<1>4. Abandoned(p, m) => \E r : Step(p, m, Ends(prop[p], "underway"), r, {}, SlotsTold(p))
  BY DEF Abandoned, Ends
<1> HIDE DEF s, t
<1>5. CASE Step(p, m, prop[p], row[p], {}, {})
  BY <1>1, <1>5, AnswersCarry
<1>6. CASE Step(p, m, s, row[p], {}, AttemptTold(p))
  BY <1>1, <1>2, <1>6, AnswersCarry DEF SlotsTold, AttemptTold, Ended, Resolved
<1>7. CASE a.stage = "merge" /\ AskedAgain(p, m)
  BY <1>1, <1>2, <1>3, <1>7, AnswersCarry
<1> QED
  BY <1>1, <1>4, <1>5, <1>6, <1>7, MergedOnGithubCarries, BackCarries, EndedCarries

LEMMA OtherMergeCarries ==
  ASSUME TypeInv, NEW p \in Proposals, Observed(p) \/ MergeRecorded(p) \/ PrLooked(p)
  PROVE  Carries
<1>1. NoEvent \notin pin
  BY NoAskRead
<1>2. CASE Observed(p) \/ PrLooked(p)
  BY <1>1, <1>2, MergedOnGithubCarries, BackCarries, EndedCarries DEF Observed, PrLooked
<1>3. CASE MergeRecorded(p)
  <2> DEFINE t == [prop[p] EXCEPT !.state = "merged", !.force = NoHead, !.sync = NoSync,
                                  !.attempt.stage = IF @ = "none" THEN "none" ELSE "merged"]
  <2>1. /\ t.attempt.queueN = prop[p].attempt.queueN /\ t.sync.queueN = 0
        /\ t.attempt.stage \in {"none", "merged"}
    BY RecordTypes DEF Props, AttemptsOf, NoSync
  <2>2. \/ Step(p, Merged(p), prop[p], row[p], {}, {})
        \/ Step(p, Merged(p), t, row[p], {}, SlotsTold(p))
    BY <1>3 DEF MergeRecorded
  <2>3. Merged(p).type = "Merged"
    BY DEF Merged
  <2> HIDE DEF t
  <2>4. CASE Step(p, Merged(p), prop[p], row[p], {}, {})
    BY <2>3, <2>4, AnswersCarry
  <2>5. CASE Step(p, Merged(p), t, row[p], {}, SlotsTold(p))
    BY <2>1, <2>3, <2>5, AnswersCarry DEF SlotsTold, AttemptTold, SyncTold, Ended, Resolved
  <2> QED
    BY <2>2, <2>4, <2>5
<1> QED
  BY <1>2, <1>3

LEMMA SyncEndsCarries ==
  ASSUME TypeInv, NEW p \in Proposals, SyncReports(p) \/ Stop(p)
  PROVE  Carries
<1>1. PICK m \in work \cup {NoEvent} :
        \/ Step(p, m, prop[p], row[p], {}, {})
        \/ \E t \in Props : /\ t.attempt = prop[p].attempt /\ t.sync = NoSync
                           /\ Step(p, m, t, row[p], {}, SyncTold(p))
  BY SyncEnds
<1>2. m \notin pin
  BY NoAskRead
<1>3. CASE Step(p, m, prop[p], row[p], {}, {})
  BY <1>2, <1>3, AnswersCarry
<1>4. ASSUME NEW t, t.attempt = prop[p].attempt, t.sync = NoSync, Step(p, m, t, row[p], {}, SyncTold(p))
      PROVE  Carries
  <2>1. t.sync.queueN = 0 /\ \A h : Ended(p, h) \notin SyncTold(p)
    BY <1>4 DEF NoSync, SyncTold, Ended, Resolved
  <2>2. SyncTold(p) \subseteq SlotsTold(p)
    BY DEF SlotsTold
  <2> QED
    BY <1>2, <1>4, <2>1, <2>2, AnswersCarry
<1> QED
  BY <1>1, <1>3, <1>4

LEMMA PersonCarries ==
  ASSUME TypeInv, NEW p \in Proposals,
         Proposed(p) \/ Unpromote(p) \/ Close(p) \/ ForceMerge(p) \/ ReviewHeadMoved(p)
  PROVE  Carries
<1>0. NoEvent \notin pin
  BY NoAskRead
<1>1. ASSUME NEW s, NEW r, NEW msgs, s.attempt = prop[p].attempt, s.sync = prop[p].sync,
             \A x \in msgs : x.type = "MergeWanted", Step(p, NoEvent, s, r, {}, msgs)
      PROVE  Carries
  BY <1>0, <1>1, AnswersCarry DEF Ended, Resolved
<1>2. /\ \A h : LET s == [prop[p] EXCEPT !.force = h] IN
                  s.attempt = prop[p].attempt /\ s.sync = prop[p].sync
      /\ LET s == [prop[p] EXCEPT !.state = "in_review"] IN
           s.attempt = prop[p].attempt /\ s.sync = prop[p].sync
  BY RecordTypes DEF Props
<1>3. \A q : \A x \in AsksFor(q) : x.type = "MergeWanted"
  BY DEF AsksFor, Wanted
<1>4. CASE Proposed(p)
  BY <1>1, <1>2, <1>3, <1>4 DEF Proposed
<1>5. CASE ForceMerge(p)
  BY <1>1, <1>2, <1>3, <1>5 DEF ForceMerge
<1>6. CASE ReviewHeadMoved(p)
  <2>1. PICK h, r : Step(p, NoEvent, [prop[p] EXCEPT !.force = h], r, {}, {})
    BY <1>6 DEF ReviewHeadMoved
  <2> DEFINE s == [prop[p] EXCEPT !.force = h]
  <2>2. s.attempt = prop[p].attempt /\ s.sync = prop[p].sync
    BY <1>2
  <2> HIDE DEF s
  <2>3. Step(p, NoEvent, s, r, {}, {})
    BY <2>1 DEF s
  <2> QED
    BY <1>1, <2>2, <2>3
<1>7. CASE Unpromote(p) \/ Close(p)
  BY <1>0, <1>7, EndedCarries DEF Unpromote, Close
<1> QED
  BY <1>4, <1>5, <1>6, <1>7

\* The rest reads and sends no ask.
LEMMA OthersCarry ==
  ASSUME TypeInv, queue' = queue,
         \A q \in Proposals : /\ prop'[q].attempt = prop[q].attempt
                              /\ prop'[q].sync = prop[q].sync,
         \A m \in inbox : m \in inbox',
         \A m \in inbox' : m \in inbox \/ m.type \notin {"AttemptEnded", "ResolutionEnded"},
         \A m \in pin : m \in pin' \/ m.type \notin {"MergeRequested", "SyncRequested"},
         \A m \in pin' : m \in pin \/ m.type \notin {"MergeRequested", "SyncRequested"}
  PROVE  Carries
<1>1. \A x \in AttemptAsks' : x \in AttemptAsks
  BY DEF AttemptAsks
<1>2. \A x \in SyncAsks' : x \in SyncAsks
  BY DEF SyncAsks
<1>3. ASSUME NEW n, Placed(n) PROVE Placed(n)'
  <2>1. CASE \E m \in pin : m.type \in {"MergeRequested", "SyncRequested"} /\ m.n = n
    BY <2>1 DEF Placed
  <2>2. CASE \E p \in Proposals : prop[p].attempt.queueN = n /\ prop[p].attempt.stage \in {"gate", "merge"}
    BY <2>2 DEF Placed
  <2>3. CASE \E p \in Proposals : prop[p].sync.queueN = n
    BY <2>3 DEF Placed
  <2>4. CASE \E m \in inbox : m.type \in {"AttemptEnded", "ResolutionEnded"} /\ m.n = n
    BY <2>4 DEF Placed
  <2> QED
    BY <1>3, <2>1, <2>2, <2>3, <2>4 DEF Placed
<1>4. ASSUME NEW n, Once(n) PROVE Once(n)'
  <2>1. Names(n)' = Names(n)
    BY DEF Names
  <2>2. \A x, y : Outlives(x, y, n) => Outlives(x, y, n)'
    BY DEF Outlives
  <2> QED
    BY <1>4, <2>1, <2>2 DEF Once
<1> QED
  BY <1>1, <1>2, <1>3, <1>4 DEF Carries

LEMMA WorldCarries ==
  ASSUME TypeInv, NEW p \in Proposals,
         \/ Resend(p) \/ Followups(p) \/ Carried(p) \/ NotHeard(p) \/ GateReports(p) \/ AttemptReports(p)
         \/ GithubMerges(p) \/ MergedByHand(p) \/ SyncPushes(p) \/ AuthorPushes(p)
         \/ BackoffOver(p) \/ RetryDue(p) \/ ReviewCheck(p) \/ ChecksStart(p) \/ Verdict(p) \/ TurnEnds(p) \/ TurnStarts(p)
         \/ MirrorMeasures(p) \/ Vote(p)
  PROVE  Carries
<1>1. CASE queue' = queue /\ prop' = prop /\ inbox' = inbox /\ pin' = pin
  BY <1>1, OthersCarry
<1>2. ASSUME NEW q, NEW asks \in {{}, AsksFor(None)}, Recorded(q, asks) PROVE Carries
  <2>1. \A m \in inbox' : m \in inbox \/ m.type = "MergeWanted"
    BY <1>2 DEF Recorded, AsksFor, Wanted
  <2>2. \A m \in pin' : m \in pin \/ m.type = "Merged"
    BY <1>2 DEF Recorded, Merged
  <2> QED
    BY <1>2, <2>1, <2>2, OthersCarry DEF Recorded, queueVars
<1>3. ASSUME NEW w, NEW outcome, Answers(w, outcome) PROVE Carries
  <2>1. \A m \in pin' : m \in pin \/ m.type = "WorkDone"
    BY <1>3 DEF Answers, Done
  <2> QED
    BY <1>3, <2>1, OthersCarry DEF Answers, queueVars
<1>4. ASSUME NEW r, NEW msgs \in {{}, AsksFor(p)}, RowMoves(p, r, msgs) PROVE Carries
  <2>1. \A m \in inbox' : m \in inbox \/ m.type = "MergeWanted"
    BY <1>4 DEF RowMoves, AsksFor, Wanted
  <2> QED
    BY <1>4, <2>1, OthersCarry DEF RowMoves, queueVars
<1>5. CASE BackoffOver(p) \/ RetryDue(p)
  <2>1. PICK s \in {[prop[p] EXCEPT !.backoff = FALSE], [prop[p] EXCEPT !.refused = NoRefusal]} :
          prop' = [prop EXCEPT ![p] = s]
    BY <1>5 DEF BackoffOver, RetryDue, TypeInv, MergeTypeOK, Props
  <2>2. s.attempt = prop[p].attempt /\ s.sync = prop[p].sync
    BY RecordTypes DEF Props
  <2>3. \A q \in Proposals : prop'[q].attempt = prop[q].attempt /\ prop'[q].sync = prop[q].sync
    BY <2>1, <2>2 DEF TypeInv, MergeTypeOK
  <2> QED
    BY <1>5, <2>3, OthersCarry DEF BackoffOver, RetryDue, queueVars
<1>6. CASE Resend(p) \/ NotHeard(p) \/ GithubMerges(p) \/ MergedByHand(p) \/ SyncPushes(p) \/ AuthorPushes(p)
  BY <1>1, <1>6 DEF Resend, NotHeard, GithubMerges, MergedByHand, Merges, SyncPushes, AuthorPushes, queueVars
<1>7. CASE Followups(p) \/ Carried(p)
  BY <1>2, <1>7 DEF Followups, Carried
<1>8. CASE GateReports(p) \/ AttemptReports(p)
  BY <1>3, <1>8 DEF GateReports, AttemptReports
<1>9. CASE ReviewCheck(p) \/ ChecksStart(p) \/ Verdict(p) \/ TurnEnds(p) \/ TurnStarts(p) \/ MirrorMeasures(p) \/ Vote(p)
  <2>1. \E r : RowMoves(p, r, {}) \/ RowMoves(p, r, AsksFor(p))
    BY <1>9 DEF ReviewCheck, ChecksStart, Verdict, TurnEnds, TurnStarts, MirrorMeasures, Vote
  <2> QED
    BY <1>4, <2>1
<1> QED
  BY <1>5, <1>6, <1>7, <1>8, <1>9

\* What LookAtLine does to the slots: nothing, or one ask under a number that
\* nothing names.
LEMMA LookAsks ==
  ASSUME TypeInv, NEW d \in Queues, LookAtLine(d)
  PROVE  \/ queue'.attempt = d.attempt /\ queue'.resolution = d.resolution /\ pin' = pin
         \/ \E n \in FreshAsks, p \in Proposals : \E force :
              /\ queue'.attempt = [n |-> n, p |-> p] /\ queue'.resolution = d.resolution
              /\ pin' = pin \cup {MergeRequested(p, n, force)}
         \/ \E n \in FreshAsks, p \in Proposals : \E approved, github :
              /\ queue'.attempt = d.attempt /\ queue'.resolution = [n |-> n, p |-> p]
              /\ pin' = pin \cup {SyncRequested(p, n, approved, github)}
<1> DEFINE e == Pass(d)
           n == Pick(FreshAsks)
<1>1. e \in Queues /\ PassOver(e) \in Queues /\ e.attempt = d.attempt /\ e.resolution = d.resolution
        /\ PassOver(e).attempt = d.attempt /\ PassOver(e).resolution = d.resolution
  <2>1. /\ PassOver(d).attempt = d.attempt /\ PassOver(d).resolution = d.resolution
        /\ NewPass(d).attempt = d.attempt /\ NewPass(d).resolution = d.resolution
    BY DEF Queues, NewPass, PassOver
  <2>2. e \in Queues /\ PassOver(e) \in Queues /\ e.attempt = d.attempt /\ e.resolution = d.resolution
    BY <2>1, PassTypes DEF Pass
  <2> HIDE DEF e
  <2> QED
    BY <2>2 DEF Queues, PassOver
<1>2. PICK ask \in Asks(e) :
        IF ask = NoAsk
        THEN pin' = pin /\ (queue' = e \/ queue' = PassOver(e))
        ELSE FreshAsks # {} /\ Ask(e, ask, n)
  BY DEF LookAtLine
<1>3. CASE ask = NoAsk
  BY <1>1, <1>2, <1>3
<1>4. CASE ask # NoAsk
  <2>1. n \in FreshAsks /\ ask.p \in Proposals /\ Ask(e, ask, n)
    BY <1>1, <1>2, <1>4, AskTypes, PickFresh
  <2> HIDE DEF n, e
  <2>2. CASE ask.lane = "merge"
    <3>1. /\ queue' = [e EXCEPT !.attempt = [n |-> n, p |-> ask.p], !.tried = @ \cup {Key("merge", ask.p)}]
          /\ pin' = pin \cup {MergeRequested(ask.p, n, Forced(ask.p))}
      BY <2>1, <2>2 DEF Ask
    <3>2. queue'.attempt = [n |-> n, p |-> ask.p] /\ queue'.resolution = d.resolution
      BY <1>1, <3>1 DEF Queues
    <3> QED
      BY <2>1, <3>1, <3>2
  <2>3. CASE ask.lane # "merge"
    <3>1. /\ queue' = [e EXCEPT !.resolution = [n |-> n, p |-> ask.p], !.tried = @ \cup {Key("sync", ask.p)}]
          /\ pin' = pin \cup {SyncRequested(ask.p, n, AdmittedApproved(ask.p), GithubConflict(ask.p))}
      BY <2>1, <2>3 DEF Ask
    <3>2. queue'.attempt = d.attempt /\ queue'.resolution = [n |-> n, p |-> ask.p]
      BY <1>1, <3>1 DEF Queues
    <3> QED
      BY <2>1, <3>1, <3>2
  <2> QED
    BY <2>2, <2>3
<1> QED
  BY <1>3, <1>4

\* No ask is named by a fresh number.
LEMMA FreshIsNew ==
  ASSUME TypeInv, NEW n \in FreshAsks
  PROVE  /\ n # 0 /\ n # queue.attempt.n /\ n # queue.resolution.n
         /\ \A x \in AttemptAsks \cup SyncAsks : x[1] # n
<1>1. n # 0 /\ n \notin AskNumbers
  BY MergeLineAssumption DEF FreshAsks
<1>2. \A x \in AttemptAsks \cup SyncAsks : x[1] \in AskNumbers
  BY DEF AttemptAsks, SyncAsks, AskNumbers
<1> QED
  BY <1>1, <1>2 DEF AskNumbers

LEMMA LookSlots ==
  ASSUME TypeInv, SlotsInv, NEW d \in Queues, LookAtLine(d), prop' = prop,
         d.attempt \in {queue.attempt, NoSlot}, d.resolution \in {queue.resolution, NoSlot},
         inbox' \subseteq inbox,
         d.attempt # NoSlot => Placed(d.attempt.n)',
         d.resolution # NoSlot => Placed(d.resolution.n)'
  PROVE  SlotsInv'
<1>0. NoSlot.n = 0
  BY DEF NoSlot
<1>1. /\ SlotsApart(d)
      /\ Matches(AttemptAsks, d.attempt, d.resolution) /\ Matches(SyncAsks, d.resolution, d.attempt)
  BY <1>0 DEF SlotsInv, AsksMatch, SlotsApart, Matches
<1>2. CASE queue'.attempt = d.attempt /\ queue'.resolution = d.resolution /\ pin' = pin
  <2>1. (\A x \in AttemptAsks' : x \in AttemptAsks) /\ (\A x \in SyncAsks' : x \in SyncAsks)
    BY <1>2 DEF AttemptAsks, SyncAsks
  <2>2. AsksMatch'
    BY <1>1, <1>2, <2>1 DEF AsksMatch, SlotsApart, Matches
  <2> QED
    BY <1>2, <2>2 DEF SlotsInv, SlotsPlaced
<1>3. ASSUME NEW n \in FreshAsks, NEW p \in Proposals, NEW force,
             queue'.attempt = [n |-> n, p |-> p], queue'.resolution = d.resolution,
             pin' = pin \cup {MergeRequested(p, n, force)}
      PROVE  SlotsInv'
  <2>1. /\ \A x \in AttemptAsks' : x \in AttemptAsks \/ x = <<n, p>>
        /\ \A x \in SyncAsks' : x \in SyncAsks
    BY <1>3 DEF AttemptAsks, SyncAsks, MergeRequested
  <2>2. n # 0 /\ n # d.resolution.n /\ \A x \in AttemptAsks \cup SyncAsks : x[1] # n
    BY <1>0, FreshIsNew
  <2>3. AsksMatch'
    <3>1. SlotsApart(queue)'
      BY <1>1, <1>3, <2>2 DEF SlotsApart
    <3>2. Matches(AttemptAsks, queue.attempt, queue.resolution)'
      BY <1>1, <1>3, <2>1, <2>2 DEF Matches
    <3>3. Matches(SyncAsks, queue.resolution, queue.attempt)'
      BY <1>1, <1>3, <2>1, <2>2 DEF Matches
    <3> QED
      BY <3>1, <3>2, <3>3 DEF AsksMatch
  <2>4. Placed(n)'
    <3>1. LET m == MergeRequested(p, n, force) IN m \in pin' /\ m.type = "MergeRequested" /\ m.n = n
      BY <1>3 DEF MergeRequested
    <3> QED
      BY <3>1 DEF Placed
  <2> QED
    BY <1>3, <2>3, <2>4 DEF SlotsInv, SlotsPlaced
<1>4. ASSUME NEW n \in FreshAsks, NEW p \in Proposals, NEW approved, NEW github,
             queue'.attempt = d.attempt, queue'.resolution = [n |-> n, p |-> p],
             pin' = pin \cup {SyncRequested(p, n, approved, github)}
      PROVE  SlotsInv'
  <2>1. /\ \A x \in SyncAsks' : x \in SyncAsks \/ x = <<n, p>>
        /\ \A x \in AttemptAsks' : x \in AttemptAsks
    BY <1>4 DEF AttemptAsks, SyncAsks, SyncRequested
  <2>2. n # 0 /\ n # d.attempt.n /\ \A x \in AttemptAsks \cup SyncAsks : x[1] # n
    BY <1>0, FreshIsNew
  <2>3. AsksMatch'
    <3>1. SlotsApart(queue)'
      BY <1>1, <1>4, <2>2 DEF SlotsApart
    <3>2. Matches(AttemptAsks, queue.attempt, queue.resolution)'
      BY <1>1, <1>4, <2>1, <2>2 DEF Matches
    <3>3. Matches(SyncAsks, queue.resolution, queue.attempt)'
      BY <1>1, <1>4, <2>1, <2>2 DEF Matches
    <3> QED
      BY <3>1, <3>2, <3>3 DEF AsksMatch
  <2>4. Placed(n)'
    <3>1. LET m == SyncRequested(p, n, approved, github) IN m \in pin' /\ m.type = "SyncRequested" /\ m.n = n
      BY <1>4 DEF SyncRequested
    <3> QED
      BY <3>1 DEF Placed
  <2> QED
    BY <1>4, <2>3, <2>4 DEF SlotsInv, SlotsPlaced
<1>5. CASE \E n \in FreshAsks, p \in Proposals : \E force :
             /\ queue'.attempt = [n |-> n, p |-> p] /\ queue'.resolution = d.resolution
             /\ pin' = pin \cup {MergeRequested(p, n, force)}
  BY <1>3, <1>5
<1>6. CASE \E n \in FreshAsks, p \in Proposals : \E approved, github :
             /\ queue'.attempt = d.attempt /\ queue'.resolution = [n |-> n, p |-> p]
             /\ pin' = pin \cup {SyncRequested(p, n, approved, github)}
  BY <1>4, <1>6
<1> QED
  BY <1>2, <1>5, <1>6, LookAsks

\* Only the queue reads its inbox, and it keeps every answer but the one read.
LEMMA StillPlaced ==
  ASSUME NEW n, prop' = prop, \A m \in pin : m \in pin',
         \/ \A m \in inbox : m \in inbox' \/ m.type \notin {"AttemptEnded", "ResolutionEnded"} \/ m.n # n
  PROVE  Placed(n) => Placed(n)'
<1> SUFFICES ASSUME Placed(n) PROVE Placed(n)'
  OBVIOUS
<1>1. CASE \E m \in pin : m.type \in {"MergeRequested", "SyncRequested"} /\ m.n = n
  BY <1>1 DEF Placed
<1>2. CASE \E p \in Proposals : prop[p].attempt.queueN = n /\ prop[p].attempt.stage \in {"gate", "merge"}
  BY <1>2 DEF Placed
<1>3. CASE \E p \in Proposals : prop[p].sync.queueN = n
  BY <1>3 DEF Placed
<1>4. CASE \E m \in inbox : m.type \in {"AttemptEnded", "ResolutionEnded"} /\ m.n = n
  BY <1>4 DEF Placed
<1> QED
  BY <1>1, <1>2, <1>3, <1>4 DEF Placed

LEMMA LookPins == ASSUME TypeInv, NEW d \in Queues, LookAtLine(d) PROVE \A m \in pin : m \in pin'
BY LookAsks

LEMMA QueueSlotsHold ==
  ASSUME TypeInv, SlotsInv, QueueDecides \/ QSweep \/ CheckDue
  PROVE  SlotsInv'
<1>0. /\ queue \in Queues /\ queue.attempt \in QueueSlots /\ queue.resolution \in QueueSlots
      /\ queue.attempt # NoSlot => queue.attempt.n # 0 /\ Placed(queue.attempt.n)
      /\ queue.resolution # NoSlot => queue.resolution.n # 0 /\ Placed(queue.resolution.n)
  BY DEF TypeInv, MergeTypeOK, Queues, SlotsInv, AsksMatch, SlotsApart, SlotsPlaced
<1>1. ASSUME NEW p \in Proposals \cup {None}, QWanted(p) PROVE SlotsInv'
  <2> DEFINE d == IF Working(queue)
                  THEN [queue EXCEPT !.tried = {k \in @ : k[1] = "sync" \/ k[2] # p},
                                     !.owed = TRUE, !.named = Named(p)]
                  ELSE [queue EXCEPT !.tried = {}, !.owed = FALSE, !.named = Named(p)]
  <2>1. d \in Queues /\ d.attempt = queue.attempt /\ d.resolution = queue.resolution
    BY <1>0, <1>1 DEF Queues, Named
  <2>2. LookAtLine(d) /\ prop' = prop /\ inbox' = inbox \ {Wanted(p)}
    BY <1>1 DEF QWanted, Unread
  <2> HIDE DEF d
  <2>3. \A m \in pin : m \in pin'
    BY <2>1, <2>2, LookPins
  <2>4. Wanted(p).type = "MergeWanted"
    BY DEF Wanted
  <2>5. \A n : Placed(n) => Placed(n)'
    BY <2>2, <2>3, <2>4, StillPlaced
  <2> QED
    BY <1>0, <2>1, <2>2, <2>5, LookSlots
<1>2. ASSUME NEW p \in Proposals \cup {None}, NEW m \in AnswersOf(p), QAnswered(m) PROVE SlotsInv'
  <2> DEFINE slot == [n |-> m.n, p |-> m.p]
  <2>1. /\ m \in inbox /\ inbox' = inbox \ {m} /\ prop' = prop
        /\ m.type = "AttemptEnded" \/ m.type = "ResolutionEnded"
        /\ \/ m.type = "AttemptEnded" /\ queue.attempt = slot /\ LookAtLine([queue EXCEPT !.attempt = NoSlot])
           \/ m.type = "ResolutionEnded" /\ queue.resolution = slot
                /\ LookAtLine([queue EXCEPT !.resolution = NoSlot])
           \/ /\ m.type = "AttemptEnded" => queue.attempt # slot
              /\ m.type = "ResolutionEnded" => queue.resolution # slot
              /\ queue' = queue /\ pin' = pin
    BY <1>2 DEF QAnswered, Unread, queueVars
  <2>2. /\ m.type = "AttemptEnded" => <<m.n, m.p>> \in AttemptAsks
        /\ m.type = "ResolutionEnded" => <<m.n, m.p>> \in SyncAsks
    BY <2>1 DEF AttemptAsks, SyncAsks
  <2>3. /\ m.type = "AttemptEnded" /\ m.n # 0 =>
             (m.n = queue.attempt.n => m.p = queue.attempt.p) /\ m.n # queue.resolution.n
        /\ m.type = "ResolutionEnded" /\ m.n # 0 =>
             (m.n = queue.resolution.n => m.p = queue.resolution.p) /\ m.n # queue.attempt.n
    BY <2>2 DEF SlotsInv, AsksMatch, Matches
  <2>4. /\ queue.attempt = [n |-> queue.attempt.n, p |-> queue.attempt.p]
        /\ queue.resolution = [n |-> queue.resolution.n, p |-> queue.resolution.p]
    BY <1>0 DEF QueueSlots
  <2>5. ASSUME NEW n, n # m.n, \A k \in pin : k \in pin' PROVE Placed(n) => Placed(n)'
    BY <2>1, <2>5, StillPlaced
  <2>6. CASE m.type = "AttemptEnded" /\ queue.attempt = slot /\ LookAtLine([queue EXCEPT !.attempt = NoSlot])
    <3> DEFINE d == [queue EXCEPT !.attempt = NoSlot]
    <3>1. d \in Queues /\ d.attempt = NoSlot /\ d.resolution = queue.resolution
      BY <1>0, BlankTypes DEF Queues
    <3>2. LookAtLine(d)
      BY <2>6
    <3> HIDE DEF d
    <3>3. \A k \in pin : k \in pin'
      BY <3>1, <3>2, LookPins
    <3>4. queue.resolution # NoSlot => queue.resolution.n # m.n
      BY <1>0, <2>3, <2>6
    <3>5. \A n : n # m.n /\ Placed(n) => Placed(n)'
      BY <2>5, <3>3
    <3>6. prop' = prop /\ inbox' \subseteq inbox
      BY <2>1
    <3> QED
      BY <1>0, <3>1, <3>2, <3>4, <3>5, <3>6, LookSlots
  <2>7. CASE m.type = "ResolutionEnded" /\ queue.resolution = slot
               /\ LookAtLine([queue EXCEPT !.resolution = NoSlot])
    <3> DEFINE d == [queue EXCEPT !.resolution = NoSlot]
    <3>1. d \in Queues /\ d.resolution = NoSlot /\ d.attempt = queue.attempt
      BY <1>0, BlankTypes DEF Queues
    <3>2. LookAtLine(d)
      BY <2>7
    <3> HIDE DEF d
    <3>3. \A k \in pin : k \in pin'
      BY <3>1, <3>2, LookPins
    <3>4. queue.attempt # NoSlot => queue.attempt.n # m.n
      BY <1>0, <2>3, <2>7
    <3>5. \A n : n # m.n /\ Placed(n) => Placed(n)'
      BY <2>5, <3>3
    <3>6. prop' = prop /\ inbox' \subseteq inbox
      BY <2>1
    <3> QED
      BY <1>0, <3>1, <3>2, <3>4, <3>5, <3>6, LookSlots
  <2>8. CASE /\ m.type = "AttemptEnded" => queue.attempt # slot
             /\ m.type = "ResolutionEnded" => queue.resolution # slot
             /\ queue' = queue /\ pin' = pin
    <3>1. /\ queue.attempt # NoSlot => queue.attempt.n # m.n
          /\ queue.resolution # NoSlot => queue.resolution.n # m.n
      BY <1>0, <2>1, <2>3, <2>4, <2>8
    <3>2. SlotsPlaced(queue)'
      BY <1>0, <2>5, <2>8, <3>1 DEF SlotsPlaced
    <3>3. (\A x \in AttemptAsks' : x \in AttemptAsks) /\ (\A x \in SyncAsks' : x \in SyncAsks)
      BY <2>1, <2>8 DEF AttemptAsks, SyncAsks
    <3>4. AsksMatch'
      BY <2>8, <3>3 DEF SlotsInv, AsksMatch, SlotsApart, Matches
    <3> QED
      BY <3>2, <3>4 DEF SlotsInv
  <2> QED
    BY <2>1, <2>6, <2>7, <2>8
<1>3. CASE QCheck
  <2> DEFINE a == IF queue.attempt # NoSlot /\ HoldsAttempt(queue.attempt) THEN queue.attempt ELSE NoSlot
             r == IF queue.resolution # NoSlot /\ HoldsSync(queue.resolution)
                  THEN queue.resolution ELSE NoSlot
             d == [queue EXCEPT !.attempt = a, !.resolution = r]
  <2>1. queue' \in {queue, d, NewPass(d)}
    BY <1>3 DEF QCheck, queueVars
  <2>2. queue'.attempt \in {queue.attempt, NoSlot} /\ queue'.resolution \in {queue.resolution, NoSlot}
    BY <1>0, <2>1 DEF Queues, NewPass, PassOver
  <2>3. /\ pin' = pin /\ prop' = prop
        /\ inbox' = inbox \ {Fired("Check")} \/ inbox' = (inbox \ {Fired("Check")}) \cup {Wanted(None)}
    BY <1>3 DEF QCheck, Unread
  <2>4. Fired("Check").type = "Check" /\ Wanted(None).type = "MergeWanted"
    BY DEF Fired, Wanted
  <2>5. \A n : Placed(n) => Placed(n)'
    BY <2>3, <2>4, StillPlaced
  <2>6. (\A x \in AttemptAsks' : x \in AttemptAsks) /\ (\A x \in SyncAsks' : x \in SyncAsks)
    BY <2>3, <2>4 DEF AttemptAsks, SyncAsks
  <2>7. AsksMatch'
    BY <2>2, <2>6 DEF SlotsInv, AsksMatch, SlotsApart, Matches, NoSlot
  <2>8. SlotsPlaced(queue)'
    BY <1>0, <2>2, <2>5 DEF SlotsPlaced
  <2> QED
    BY <2>7, <2>8 DEF SlotsInv
<1>4. CASE QSweep
  <2>1. /\ LookAtLine(NewPass(queue)) /\ NewPass(queue) \in Queues /\ prop' = prop /\ inbox' = inbox
        /\ NewPass(queue).attempt = queue.attempt /\ NewPass(queue).resolution = queue.resolution
    BY <1>0, <1>4, PassTypes DEF QSweep, Queues, NewPass, PassOver
  <2>2. \A n : Placed(n) => Placed(n)'
    BY <2>1, LookPins, StillPlaced
  <2> QED
    BY <1>0, <2>1, <2>2, LookSlots
<1>5. CASE CheckDue
  <2>1. Fired("Check").type = "Check"
    BY DEF Fired
  <2> QED
    BY <1>5, <2>1, OthersCarry, CarriesSlots DEF CheckDue
<1> QED
  BY <1>1, <1>2, <1>3, <1>4, <1>5 DEF QueueDecides

LEMMA InitSlots == Init => SlotsInv
<1> SUFFICES ASSUME Init PROVE SlotsInv
  OBVIOUS
<1>1. queue.attempt = NoSlot /\ queue.resolution = NoSlot /\ pin = {}
        /\ (\A m \in inbox : m.type = "MergeWanted")
  BY DEF Init, Wanted
<1>2. \A p \in Proposals : prop[p].attempt.queueN = 0 /\ prop[p].sync.queueN = 0
  BY DEF Init, NoAttempt, NoSync
<1>3. SlotsApart(queue) /\ SlotsPlaced(queue)
  BY <1>1 DEF SlotsApart, SlotsPlaced, NoSlot
<1>4. \A x \in AttemptAsks \cup SyncAsks : x[1] = 0
  BY <1>1, <1>2 DEF AttemptAsks, SyncAsks
<1> QED
  BY <1>3, <1>4 DEF SlotsInv, AsksMatch, Matches

\* Nothing of the queue's doubles an ask: a new one's number is new.
LEMMA QueueAsksOnce ==
  ASSUME TypeInv, AsksOnce, QueueDecides \/ QSweep \/ CheckDue
  PROVE  AsksOnce'
<1>1. ASSUME NEW n, n # 0, prop' = prop,
             \A m \in pin' : m \in pin \/ m.type \notin {"MergeRequested", "SyncRequested"} \/ m.n # n,
             \A m \in inbox' : m \in inbox \/ m.type \notin {"AttemptEnded", "ResolutionEnded"}
      PROVE  Once(n)'
  <2>1. \A x \in Names(n)' : x \in Names(n)
    BY <1>1 DEF Names
  <2>2. \A x, y : Outlives(x, y, n) => Outlives(x, y, n)'
    BY <1>1 DEF Outlives
  <2> QED
    BY <1>1, <2>1, <2>2 DEF AsksOnce, Once
<1>2. ASSUME NEW n \in FreshAsks, NEW m, prop' = prop, pin' = pin \cup {m}, m.n = n,
             \A k \in inbox' : k \in inbox \/ k.type \notin {"AttemptEnded", "ResolutionEnded"}
      PROVE  Once(n)'
  <2>1. Names(n) = {}
    BY DEF Names, FreshAsks, AskNumbers
  <2>2. \A x \in Names(n)' : x = <<"asked", m>>
    BY <1>2, <2>1 DEF Names
  <2> QED
    BY <2>2 DEF Once
<1>3. ASSUME NEW d \in Queues, LookAtLine(d), prop' = prop, inbox' \subseteq inbox
      PROVE  AsksOnce'
  <2>1. CASE pin' = pin
    BY <1>1, <1>3, <2>1 DEF AsksOnce
  <2>2. CASE \E n \in FreshAsks : \E m : pin' = pin \cup {m} /\ m.n = n
    BY <1>1, <1>2, <1>3, <2>2 DEF AsksOnce
  <2>3. CASE \E n \in FreshAsks : \E p, a : pin' = pin \cup {MergeRequested(p, n, a)}
    <3>1. PICK n \in FreshAsks : \E p, a : pin' = pin \cup {MergeRequested(p, n, a)}
      BY <2>3
    <3>2. PICK p, a : pin' = pin \cup {MergeRequested(p, n, a)}
      BY <3>1
    <3>3. MergeRequested(p, n, a).n = n
      BY DEF MergeRequested
    <3> QED
      BY <2>2, <3>2, <3>3
  <2>4. CASE \E n \in FreshAsks : \E p, a, b : pin' = pin \cup {SyncRequested(p, n, a, b)}
    <3>1. PICK n \in FreshAsks : \E p, a, b : pin' = pin \cup {SyncRequested(p, n, a, b)}
      BY <2>4
    <3>2. PICK p, a, b : pin' = pin \cup {SyncRequested(p, n, a, b)}
      BY <3>1
    <3>3. SyncRequested(p, n, a, b).n = n
      BY DEF SyncRequested
    <3> QED
      BY <2>2, <3>2, <3>3
  <2>5. CASE \E n \in FreshAsks, p \in Proposals : \E a :
               /\ queue'.attempt = [n |-> n, p |-> p] /\ queue'.resolution = d.resolution
               /\ pin' = pin \cup {MergeRequested(p, n, a)}
    BY <2>3, <2>5
  <2>6. CASE \E n \in FreshAsks, p \in Proposals : \E a, b :
               /\ queue'.attempt = d.attempt /\ queue'.resolution = [n |-> n, p |-> p]
               /\ pin' = pin \cup {SyncRequested(p, n, a, b)}
    BY <2>4, <2>6
  <2> QED
    BY <1>3, <2>1, <2>5, <2>6, LookAsks
<1>4. queue \in Queues /\ NoSlot \in QueueSlots
  BY BlankTypes DEF TypeInv, MergeTypeOK
<1>5. ASSUME NEW p \in Proposals \cup {None}, QWanted(p) PROVE AsksOnce'
  <2> DEFINE d == IF Working(queue)
                  THEN [queue EXCEPT !.tried = {k \in @ : k[1] = "sync" \/ k[2] # p},
                                     !.owed = TRUE, !.named = Named(p)]
                  ELSE [queue EXCEPT !.tried = {}, !.owed = FALSE, !.named = Named(p)]
  <2>1. d \in Queues
    BY <1>4, <1>5 DEF Queues, Named
  <2>2. LookAtLine(d) /\ prop' = prop /\ inbox' \subseteq inbox
    BY <1>5 DEF QWanted, Unread
  <2> HIDE DEF d
  <2> QED
    BY <1>3, <2>1, <2>2
<1>6. ASSUME NEW p \in Proposals \cup {None}, NEW m \in AnswersOf(p), QAnswered(m) PROVE AsksOnce'
  <2>1. prop' = prop /\ inbox' \subseteq inbox
    BY <1>6 DEF QAnswered, Unread
  <2>2. [queue EXCEPT !.attempt = NoSlot] \in Queues /\ [queue EXCEPT !.resolution = NoSlot] \in Queues
    BY <1>4 DEF Queues
  <2>3. \/ LookAtLine([queue EXCEPT !.attempt = NoSlot])
        \/ LookAtLine([queue EXCEPT !.resolution = NoSlot])
        \/ pin' = pin
    BY <1>6 DEF QAnswered
  <2>4. CASE pin' = pin
    BY <1>1, <2>1, <2>4 DEF AsksOnce
  <2> QED
    BY <1>3, <2>1, <2>2, <2>3, <2>4
<1>7. CASE QCheck \/ CheckDue
  <2>1. prop' = prop /\ pin' = pin
    BY <1>7 DEF QCheck, CheckDue
  <2>2. \A m \in inbox' : m \in inbox \/ m.type \notin {"AttemptEnded", "ResolutionEnded"}
    BY <1>7 DEF QCheck, CheckDue, Unread, Fired, Wanted
  <2> QED
    BY <1>1, <2>1, <2>2 DEF AsksOnce
<1>8. CASE QSweep
  <2>1. NewPass(queue) \in Queues
    BY <1>4, PassTypes
  <2> QED
    BY <1>3, <1>8, <2>1 DEF QSweep
<1> QED
  BY <1>5, <1>6, <1>7, <1>8 DEF QueueDecides

\* Every step is the queue's, or carries the asks there are.
LEMMA NextCarries == TypeInv /\ [Next]_vars => Carries \/ QueueDecides \/ QSweep \/ CheckDue
<1> SUFFICES ASSUME TypeInv, [Next]_vars PROVE Carries \/ QueueDecides \/ QSweep \/ CheckDue
  OBVIOUS
<1>1. CASE UNCHANGED vars
  BY <1>1, OthersCarry DEF vars
<1>2. ASSUME NEW p \in Proposals, Decides(p) PROVE Carries
  BY <1>2, MergeAskedCarries, GatedCarries, AttemptedCarries, OtherMergeCarries, SyncAskedCarries,
     WorldCarries DEF Decides
<1>3. ASSUME NEW p \in Proposals, WorkSteps(p) \/ SyncPushes(p) \/ NotHeard(p) PROVE Carries
  BY <1>3, OtherMergeCarries, SyncEndsCarries, WorldCarries DEF WorkSteps
<1>4. ASSUME NEW p \in Proposals, Looks(p) PROVE Carries
  BY <1>4, OtherMergeCarries, PersonCarries, WorldCarries DEF Looks
<1>5. ASSUME NEW p \in Proposals, Person(p) PROVE Carries
  BY <1>5, SyncAskedCarries, SyncEndsCarries, PersonCarries, WorldCarries DEF Person
<1> QED
  BY <1>1, <1>2, <1>3, <1>4, <1>5 DEF Next

LEMMA NextSlots == TypeInv /\ SlotsInv /\ [Next]_vars => SlotsInv'
BY NextCarries, CarriesSlots, QueueSlotsHold

LEMMA NextOnce == TypeInv /\ AsksOnce /\ [Next]_vars => AsksOnce'
BY NextCarries, QueueAsksOnce DEF AsksOnce, Carries

\* The queue never waits on an ask that nobody has and nobody will answer: a
\* slot's ask is unread, held by its proposal, or answered.
THEOREM SlotsNeverLeak == Spec => []NoSlotLeaks
<1>1. Init => TypeInv /\ SlotsInv
  BY InitTypes, InitSlots
<1>2. TypeInv /\ SlotsInv /\ [Next]_vars => (TypeInv /\ SlotsInv)'
  BY NextTypes, NextSlots
<1>3. SlotsInv => NoSlotLeaks
  BY PlacedIsAPlace DEF SlotsInv, SlotsPlaced, NoSlotLeaks
<1> QED
  BY <1>1, <1>2, <1>3, PTL DEF Spec

LEMMA InitOnce == Init => AsksOnce
<1> SUFFICES ASSUME Init, NEW n, n # 0 PROVE Once(n)
  BY DEF AsksOnce
<1>1. pin = {} /\ \A m \in inbox : m.type = "MergeWanted"
  BY DEF Init, Wanted
<1>2. \A p \in Proposals : prop[p].attempt.queueN = 0 /\ prop[p].sync.queueN = 0
  BY DEF Init, NoAttempt, NoSync
<1>3. Names(n) = {}
  BY <1>1, <1>2 DEF Names
<1> QED
  BY <1>3 DEF Once

\* A place is a name, and the one name that may stand beside another is no place.
LEMMA OncePlaced == ASSUME NEW n, Once(n) PROVE Cardinality(AskPlaces(n)) <= 1
<1>1. AskPlaces(n) \subseteq Names(n)
  BY DEF AskPlaces, Names
<1>2. \A x, y \in AskPlaces(n) : ~Outlives(x, y, n)
  BY DEF AskPlaces, Outlives
<1>3. \A x, y \in AskPlaces(n) : x = y
  BY <1>1, <1>2 DEF Once
<1>4. CASE AskPlaces(n) = {}
  BY <1>4, FS_EmptySet
<1>5. ASSUME NEW x \in AskPlaces(n) PROVE Cardinality(AskPlaces(n)) <= 1
  <2>1. AskPlaces(n) = {x}
    BY <1>3
  <2> QED
    BY <2>1, FS_Singleton
<1> QED
  BY <1>4, <1>5

\* Whatever ends a gate, a merge or a sync, an ask is in one place at a time: it
\* is not answered twice, nor answered and gone on with, and no two asks at
\* once go under one number.
THEOREM AsksAnsweredOnce == Spec => []OneAnswer
<1>1. Init => TypeInv /\ AsksOnce
  BY InitTypes, InitOnce
<1>2. TypeInv /\ AsksOnce /\ [Next]_vars => (TypeInv /\ AsksOnce)'
  BY NextTypes, NextOnce
<1>3. AsksOnce => OneAnswer
  BY OncePlaced, MergeLineAssumption DEF AsksOnce, OneAnswer
<1> QED
  BY <1>1, <1>2, <1>3, PTL DEF Spec
=============================================================================
