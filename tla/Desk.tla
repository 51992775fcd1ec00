-------------------------------- MODULE Desk --------------------------------
(***************************************************************************)
(* Applications as the people around them see them: the officer, who works *)
(* through pages that are as old as their last load, another officer, the  *)
(* synthetic reviewer of the seed tick, the applicant, whose status page   *)
(* asks again every few seconds, and the login; and the sweep, in a scene  *)
(* of its own.                                                             *)
(*                                                                         *)
(* What the worker does to an application is one step here for each of its *)
(* transactions (CaseFile has their interleavings).  A page asks several   *)
(* queries at once and each sees its own snapshot, so a page that loads    *)
(* collects what is committed meanwhile and is built of any of it.         *)
(***************************************************************************)
EXTENDS Pages, Login, Sweeper

CONSTANTS
  Applications, \* bound: applications
  Scenes,       \* who is there, the applications, the seeded ones, their status
  Moves,        \* the status changes of Transitions that happen here
  Findings,     \* what screening may find: [score, route]
  MaxReviews    \* MAX_REVIEWS_PER_TICK (4)

Scores == {f.score : f \in Findings}
Staff == {"officer", "reviewer"}

\* The changes of applications_enforce_lifecycle (017) that no decision makes.
Transitions ==
  {<<"started", s>> : s \in {"submitted", "checking", "screening", "expired"}}
  \cup {<<"submitted", s>> : s \in {"checking", "screening", "verification_unavailable"}}
  \cup {<<"checking", s>> : s \in {"screening", "verification_unavailable"}}

\* How an application ends, in the words of the status page.
Endings == {"Application approved", "Application declined", "Application closed"}

ASSUME DeskAssumption ==
  /\ IsFiniteSet(Applications) /\ None \notin Applications \cup Nat \cup Endings
  /\ Moves \subseteq Transitions
  /\ Scenes \subseteq [cast : SUBSET {"officer", "colleague", "applicant", "worker",
                                      "reviewer", "login", "sweeper"},
                       applications : SUBSET Applications, seeded : SUBSET Applications,
                       from : {"started", "checking", "referred"}]
  /\ Findings \subseteq [score : Nat, route : Verdicts \cup {"referred"}]
  /\ MaxReviews \in Nat \ {0}

VARIABLES
  scene,    \* the scene
  cases,    \* the rows of each application
  order,    \* the referred applications, oldest referral first
  aged,     \* how many of these were referred more than REVIEW_AFTER_HOURS ago
  tab,      \* the officer's browser
  phone,    \* the applicant's browser
  tick,     \* the seed tick under way
  reported  \* reviews the trickle.completed events speak of, in all

deskVars == <<scene, cases, order, aged, tab, phone, tick, reported>>
aside == <<loginVars, sweeperVars>>
vars == <<deskVars, aside>>

Event(action, says, automatic) == [action |-> action, says |-> says, automatic |-> automatic]

\* An application that got as far as `from`, referred for `found` if that far.
NewCase(from, seeded, found) ==
  [status |-> IF from = "referred" THEN "screening" ELSE from,
   score |-> IF from = "referred" THEN found.score ELSE None,
   decisions |-> IF from = "referred"
                   THEN <<[outcome |-> "referred", by |-> "system", score |-> found.score]>>
                   ELSE <<>>,
   job |-> "none", seeded |-> seeded,
   trail |->
     <<Event("application.created", None, None)>>
     \o (IF from = "started" THEN <<>>
         ELSE <<Event("verification.session_created", None, None),
                Event("status.changed", "checking", None)>>)
     \o (IF from # "referred" THEN <<>>
         ELSE <<Event("status.changed", "screening", None),
                Event("screening.completed", None, None),
                Event("decision.recorded", "referred", None)>>)]

Away == [at |-> "away", id |-> None, seen |-> {}, page |-> None, outcome |-> None,
         rows |-> <<>>, band |-> "all", query |-> None, cursor |-> 0]
Asleep == [at |-> "away", id |-> None, seen |-> {}, page |-> None]
NoTick == [at |-> "idle", todo |-> <<>>, decided |-> 0, skipped |-> 0]

Statuses == Range(LIFECYCLE) \cup OffRamps
Outcomes == Verdicts \cup {"referred"}
EventType ==
  [action : {"application.created", "verification.session_created", "status.changed",
             "screening.completed", "decision.recorded", "verification.unavailable",
             "application.expired"},
   says : Statuses \cup Outcomes \cup {None}, automatic : BOOLEAN \cup {None}]
DecisionType == [outcome : Outcomes, by : Staff \cup {"system"}, score : Scores]
CaseType ==
  [status : Statuses, score : Scores \cup {None}, decisions : Seq(DecisionType),
   job : {"none", "queued", "retrying", "parked"}, seeded : BOOLEAN, trail : Seq(EventType)]
CasePageType ==
  [head : [score : Nat, class : {"score-high", "score-mid", "score-low"},
           pill : Outcomes \cup {"awaiting review"}],
   flags : [ruleset : BOOLEAN, referred : BOOLEAN],
   block : [shows : {"verdict", "stuck", "form"}, warned : BOOLEAN]]
Sentences ==
  Endings \cup {"Application started", "Identity check opened", "Details received",
                "Identity check in progress", "Identity check reviewed", "Decision recorded",
                "Background checks completed", "Sent for manual review"}
StatusPageType == [label : Range(STATUS_COPY), step : Nat, told : Seq(Sentences)]
TabType ==
  [at : {"away", "queue", "loading", "case", "sent", "told"}, id : Applications \cup {None},
   seen : SUBSET CaseType, page : CasePageType \cup {None}, outcome : Verdicts \cup {None},
   rows : Seq([id : Applications, score : Nat]), band : BANDS,
   query : Applications \cup {None}, cursor : Int]
PhoneType ==
  [at : {"away", "loading", "shown"}, id : Applications \cup {None},
   seen : SUBSET CaseType, page : StatusPageType \cup {None}]

TypeOK ==
  /\ scene \in Scenes
  /\ cases \in [scene.applications -> CaseType]
  /\ order \in Seq(scene.applications) /\ aged \in 0..Len(order)
  /\ tab \in TabType /\ phone \in PhoneType
  /\ tick \in [at : {"idle", "reviewing"}, decided : Nat, skipped : Nat,
               todo : Seq([id : scene.applications, outcome : Verdicts])]
  /\ tick.decided + tick.skipped + Len(tick.todo) <= MaxReviews
  /\ reported \in Nat
  /\ LoginTypeOK /\ SweeperTypeOK

Init ==
  /\ scene \in Scenes
  /\ \E found \in [scene.applications -> {f \in Findings : f.route = "referred"}] :
       cases = [c \in scene.applications |->
                  NewCase(scene.from, c \in scene.seeded, found[c])]
  /\ order = IF scene.from = "referred" THEN SetToSeq(scene.applications) ELSE <<>>
  /\ aged = 0
  /\ tab = Away /\ phone = Asleep
  /\ tick = NoTick /\ reported = 0
  /\ LoginInit /\ SweeperInit

-----------------------------------------------------------------------------
(* Commits, and the pages that load meanwhile.                             *)

Meanwhile(view, c, rows) ==
  IF view.at = "loading" /\ view.id = c THEN [view EXCEPT !.seen = @ \cup {rows}] ELSE view

Commits(c, rows) ==
  /\ cases' = [cases EXCEPT ![c] = rows]
  /\ phone' = Meanwhile(phone, c, rows)

OfOthers(c, rows) == Commits(c, rows) /\ tab' = Meanwhile(tab, c, rows)

-----------------------------------------------------------------------------
(* The worker, and the applicant's own step.                               *)

Closing == [verification_unavailable |-> "verification.unavailable",
            expired |-> "application.expired"]

EventOf(from, to) ==
  IF to \in OffRamps THEN Event(Closing[to], None, None)
  ELSE IF from = "started" THEN Event("verification.session_created", None, None)
  ELSE Event("status.changed", to, None)

\* A status is read again under the row's lock before it changes.
\* (Mutant: the sweeper closes a case on the status it read before it asked the vendor.)
OnOldStatus(rows, to) ==
  \/ <<rows.status, to>> \in Moves
  \/ to = "verification_unavailable" /\ rows.status = "screening"
MayMove(rows, to) == <<rows.status, to>> \in Moves

Move(c, to) ==
  /\ MayMove(cases[c], to)
  /\ OfOthers(c, [cases[c] EXCEPT !.status = to,
                                  !.job = IF to = "screening" THEN "queued" ELSE @,
                                  !.trail = Append(@, EventOf(cases[c].status, to))])
  /\ UNCHANGED <<scene, order, aged, tick, reported, aside>>

\* Of two executions that apply one result, the second enqueues screening again.
ScreenAgain(c) ==
  /\ cases[c].status = "screening" /\ cases[c].job = "none"
  /\ OfOthers(c, [cases[c] EXCEPT !.job = "queued"])
  /\ UNCHANGED <<scene, order, aged, tick, reported, aside>>

\* applications_freeze_risk_after_decision.
Thawed(rows) == rows.status # "decided"  \* (mutant: the freeze keyed on the status)
Unfrozen(rows) == rows.decisions = <<>>

Runs(c) == cases[c].job \in {"queued", "retrying"}

\* Score, decision, status and events in one transaction.
Decides(rows, found) ==
  IF found.route = "referred" THEN ~Referred(rows) ELSE ~Decided(rows)
Screened(rows, found) ==
  LET decides == Decides(rows, found)
      scored == IF rows.score = found.score THEN <<>>
                ELSE <<Event("screening.completed", None, None)>>
      routed == IF ~decides THEN <<>>
                ELSE <<Event("decision.recorded", found.route,
                             IF found.route = "referred" THEN None ELSE TRUE)>>
  IN [rows EXCEPT !.score = found.score, !.job = "none",
                  !.status = IF decides /\ found.route \in Verdicts THEN "decided" ELSE @,
                  !.decisions = IF decides
                                  THEN Append(@, [outcome |-> found.route, by |-> "system",
                                                  score |-> found.score])
                                  ELSE @,
                  !.trail = @ \o scored \o routed]

Screen(c, found) ==
  /\ Runs(c) /\ cases[c].status = "screening"
  /\ cases[c].score = found.score \/ Unfrozen(cases[c])
  /\ OfOthers(c, Screened(cases[c], found))
  /\ order' = IF Decides(cases[c], found) /\ found.route = "referred"
                THEN Append(order, c) ELSE order
  /\ UNCHANGED <<scene, aged, tick, reported, aside>>

\* The case is not in screening any more.
SkipScreening(c) ==
  /\ Runs(c) /\ cases[c].status # "screening"
  /\ OfOthers(c, [cases[c] EXCEPT !.job = "none"])
  /\ UNCHANGED <<scene, order, aged, tick, reported, aside>>

\* The freeze raises, there is no list, the process dies: tried again, then parked.
ScreeningFails(c) ==
  /\ Runs(c)
  /\ \E job \in {"retrying", "parked"} : OfOthers(c, [cases[c] EXCEPT !.job = job])
  /\ UNCHANGED <<scene, order, aged, tick, reported, aside>>

-----------------------------------------------------------------------------
(* recordDecision: one transaction under the row's lock.                   *)

\* (Mutant: the verdict is not looked for again under the lock, and no index stands
\* behind it.)
DecidesTwice(rows) == ~Stuck(rows) /\ rows.score # None
Unscored(rows) == ~Decided(rows) /\ ~Stuck(rows)  \* (mutant: 022 is not there)
Decidable(rows) == ~Decided(rows) /\ ~Stuck(rows) /\ rows.score # None

WithVerdict(rows, outcome, by) ==
  [rows EXCEPT !.decisions = Append(@, [outcome |-> outcome, by |-> by, score |-> rows.score]),
               !.status = IF @ = "screening" THEN "decided" ELSE @,
               !.trail = Append(@, Event("decision.recorded", outcome, FALSE))]

\* Another officer decides any case at any time.
AnotherOfficer(c, outcome) ==
  /\ "colleague" \in scene.cast
  /\ Decidable(cases[c])
  /\ OfOthers(c, WithVerdict(cases[c], outcome, "officer"))
  /\ UNCHANGED <<scene, order, aged, tick, reported, aside>>

-----------------------------------------------------------------------------
(* The officer's browser.  requireStaff sends every request without a live *)
(* session to the login page.                                              *)

Browses == "officer" \in scene.cast /\ tab.at \notin {"loading", "sent"}
Tab(new) ==
  /\ tab' = new
  /\ UNCHANGED <<scene, cases, order, aged, phone, tick, reported, aside>>

ToLogin ==
  /\ "officer" \in scene.cast /\ tab.at # "away" /\ session # "live"
  /\ Tab(Away)

\* QueuePage; QueueTable is mounted anew.
OpenQueue ==
  /\ Browses /\ session = "live"
  /\ Tab([Away EXCEPT !.at = "queue", !.rows = pendingCases(cases, order)])

Shown == Visible(tab.rows, tab.band, tab.query)

Filter(band, query) ==
  Tab([tab EXCEPT !.band = band, !.query = query,
                  !.cursor = IF band = tab.band /\ query = tab.query THEN @ ELSE 0])

\* j, k and the mouse.
Down == Tab([tab EXCEPT !.cursor = IF @ + 1 < Len(Shown) - 1 THEN @ + 1 ELSE Len(Shown) - 1])
Up == Tab([tab EXCEPT !.cursor = IF @ > 1 THEN @ - 1 ELSE 0])
Hover(i) == Tab([tab EXCEPT !.cursor = i - 1])

OnQueue ==
  /\ tab.at = "queue" /\ "officer" \in scene.cast
  /\ \/ \E band \in BANDS, query \in DOMAIN cases \cup {None} : Filter(band, query)
     \/ Down \/ Up
     \/ \E i \in DOMAIN Shown : Hover(i)

Load(c, rows) == [Away EXCEPT !.at = "loading", !.id = c, !.seen = {rows}]

\* Enter opens the row under the cursor, if there is one;
Enter ==
  /\ tab.at = "queue" /\ session = "live"
  /\ tab.cursor + 1 \in DOMAIN Shown
  /\ Tab(Load(Shown[tab.cursor + 1].id, cases[Shown[tab.cursor + 1].id]))

\* every other link, or a reload, opens any case.
Visit(c) ==
  /\ Browses /\ session = "live"
  /\ Tab(Load(c, cases[c]))

\* The page is there: each query saw one of the states committed since the request.
CasePages(seen) ==
  {CasePage(application, decided, stuck, retrying) :
     application \in seen, decided \in seen, stuck \in seen, retrying \in seen}
Render ==
  /\ tab.at = "loading"
  /\ \E page \in CasePages(tab.seen) :
       Tab([Away EXCEPT !.at = "case", !.id = tab.id, !.page = page])

\* A reason and a button; a reason too short comes back with the form.
Submit(outcome) ==
  /\ tab.at = "case" /\ tab.page.block.shows = "form"
  /\ Tab([tab EXCEPT !.at = "sent", !.outcome = outcome])

\* The server action, after requireStaff.  The page is then rendered again;
\* a refusal is told on it, and a case without a score is an error page.
Decide ==
  LET rows == cases[tab.id]
      new == WithVerdict(rows, tab.outcome, "officer")
  IN /\ tab.at = "sent" /\ session = "live"
     /\ \/ /\ Decidable(rows)
           /\ Commits(tab.id, new)
           /\ tab' = Load(tab.id, new)
        \/ /\ Decided(rows)
           /\ tab' = [tab EXCEPT !.at = "told", !.outcome = None]
           /\ UNCHANGED <<cases, phone>>
        \/ /\ ~Decided(rows) /\ Stuck(rows)
           /\ tab' = [tab EXCEPT !.at = "case", !.outcome = None]
           /\ UNCHANGED <<cases, phone>>
        \/ /\ ~Decided(rows) /\ ~Stuck(rows) /\ rows.score = None
           /\ tab' = Away
           /\ UNCHANGED <<cases, phone>>
     /\ UNCHANGED <<scene, order, aged, tick, reported, aside>>

-----------------------------------------------------------------------------
(* The applicant's browser: AutoRefresh asks again, one request at a time. *)

Refresh(c) ==
  /\ "applicant" \in scene.cast
  /\ phone.at = "away" \/ (phone.at = "shown" /\ phone.id = c)
  /\ phone' = [phone EXCEPT !.at = "loading", !.id = c, !.seen = {cases[c]}]
  /\ UNCHANGED <<scene, cases, order, aged, tab, tick, reported, aside>>

StatusPages(seen) ==
  {StatusPage(application, audit) : application \in seen, audit \in seen}
Refreshed ==
  /\ phone.at = "loading"
  /\ \E page \in StatusPages(phone.seen) :
       phone' = [phone EXCEPT !.at = "shown", !.seen = {}, !.page = page]
  /\ UNCHANGED <<scene, cases, order, aged, tab, tick, reported, aside>>

-----------------------------------------------------------------------------
(* The synthetic reviewer: runSyntheticReviewer, once in every seed tick.  *)

\* 48 hours after its referral a case is old enough.
DayPasses ==
  /\ "reviewer" \in scene.cast
  /\ aged < Len(order)
  /\ aged' = aged + 1
  /\ UNCHANGED <<scene, cases, order, tab, phone, tick, reported, aside>>

Old == Kept(order, {i \in 1..aged : cases[order[i]].seeded /\ Awaits(cases[order[i]])})
AtMost(n, s) == SubSeq(s, 1, IF Len(s) < n THEN Len(s) ELSE n)

\* (Mutant: the newest referral first.)
NewestFirst == AtMost(MaxReviews, Reverse(Old))
ToReview == AtMost(MaxReviews, Old)

RejectsFrom == 60

\* The cases are listed with their scores,
TickLists ==
  /\ "reviewer" \in scene.cast /\ tick.at = "idle"
  /\ tick' = [NoTick EXCEPT !.at = "reviewing",
                            !.todo = [i \in DOMAIN ToReview |->
                              [id |-> ToReview[i],
                               outcome |-> IF ScoreShown(cases[ToReview[i]]) >= RejectsFrom
                                             THEN "rejected" ELSE "approved"]]]
  /\ UNCHANGED <<scene, cases, order, aged, tab, phone, reported, aside>>

\* and decided one by one; one that recordDecision refuses is skipped.
\* (Mutant: it is counted as reviewed.)
CountsAll(done) == [tick EXCEPT !.todo = Tail(@), !.decided = @ + 1]
Counts(done) == IF done THEN [tick EXCEPT !.todo = Tail(@), !.decided = @ + 1]
                       ELSE [tick EXCEPT !.todo = Tail(@), !.skipped = @ + 1]

TickDecides ==
  /\ tick.at = "reviewing" /\ tick.todo # <<>>
  /\ LET item == Head(tick.todo)
         rows == cases[item.id]
     IN \/ /\ Decidable(rows)
           /\ OfOthers(item.id, WithVerdict(rows, item.outcome, "reviewer"))
           /\ tick' = Counts(TRUE)
        \/ /\ ~Decidable(rows)
           /\ tick' = Counts(FALSE)
           /\ UNCHANGED <<cases, tab, phone>>
  /\ UNCHANGED <<scene, order, aged, reported, aside>>

\* trickle.completed.
TickEnds ==
  /\ tick.at = "reviewing" /\ tick.todo = <<>>
  /\ reported' = reported + tick.decided
  /\ tick' = NoTick
  /\ UNCHANGED <<scene, cases, order, aged, tab, phone, aside>>

\* A statement fails or the instance dies: the rest of the tick, its event too, is lost.
TickDies ==
  /\ tick.at = "reviewing"
  /\ tick' = NoTick
  /\ UNCHANGED <<scene, cases, order, aged, tab, phone, reported, aside>>

-----------------------------------------------------------------------------
Worker ==
  /\ "worker" \in scene.cast
  /\ \E c \in DOMAIN cases :
       \/ \E to \in Statuses : Move(c, to)
       \/ ScreenAgain(c) \/ SkipScreening(c) \/ ScreeningFails(c)
       \/ \E found \in Findings : Screen(c, found)

Officer ==
  \/ ToLogin \/ OpenQueue \/ OnQueue \/ Enter \/ Render \/ Decide
  \/ \E c \in DOMAIN cases : Visit(c)
  \/ \E o \in Verdicts : Submit(o)

Others ==
  \/ \E c \in DOMAIN cases, o \in Verdicts : AnotherOfficer(c, o)
  \/ Refreshed
  \/ \E c \in DOMAIN cases : Refresh(c)
  \/ DayPasses \/ TickLists \/ TickDecides \/ TickEnds \/ TickDies

Access ==
  /\ \/ "login" \in scene.cast /\ LoginNext
     \/ "officer" \in scene.cast /\ SessionNext
  /\ UNCHANGED <<deskVars, sweeperVars>>

\* A step of the sweep, where there is one.
Sweeps(A) == "sweeper" \in scene.cast /\ A /\ UNCHANGED <<deskVars, loginVars>>

Next == Worker \/ Officer \/ Others \/ Access \/ Sweeps(SweeperNext)

(***************************************************************************)
(* Fairness.  The workflow that calls the tick recurs, and of the ticks    *)
(* that list a case one in the end lives to decide it; time passes.  The   *)
(* sweep is as fair as Sweeper says.  Nothing is assumed of the staff, the *)
(* applicant or, beyond the sweep, the worker.                             *)
(***************************************************************************)
Spec == Init /\ [][Next]_vars /\ WF_vars(DayPasses)
             /\ WF_vars(TickLists) /\ SF_vars(TickDecides) /\ WF_vars(TickEnds)
             /\ WF_vars(Sweeps(SweepStarts))
             /\ WF_vars(Sweeps(SweepAsks \/ SweepRaises \/ SweepCommits \/ SweepIsLost))
             /\ SF_vars(Sweeps(SweepCommits))
             /\ \A a \in Files : WF_vars(Sweeps(FallsDue(a)))
             /\ WF_vars(Sweeps(HourGoesBy)) /\ WF_vars(Sweeps(MonthGoesBy))

-----------------------------------------------------------------------------
(* Properties.                                                             *)

\* Every application is processed or on exactly one line of "where every application is",
\* every verdict has one giver, and the split is one of the verdicts counted, as the
\* tables are after any transaction.
EveryApplicationCounted ==
  LET total == totals(cases)
      split == OutcomeSplit(total)
  IN /\ total.decided + StatsLines(cases) = total.applications
     /\ total.auto_decided + total.human_decided = total.decided
     /\ split # None => split.approved + split.rejected = split.of /\ split.human <= split.of

\* The officer's timeline tells the case as the tables have it: referred, decided,
\* and by whom, and closed.
RecordAgrees ==
  \A c \in DOMAIN cases :
    LET lines == Timeline(cases[c])
        Says(what) == {line \in Range(lines) : line[1] = what}
        given == cases[c].decisions
        Of(by) == {<<given[i].outcome>> : i \in {j \in VerdictsOf(cases[c]) : given[j].by \in by}}
    IN /\ Says("Referred for review") # {} <=> Referred(cases[c])
       /\ {<<line[2]>> : line \in Says("Decided automatically")} = Of({"system"})
       /\ {<<line[2]>> : line \in Says("Decided by a reviewer")} = Of(Staff)
       /\ Says("Closed") # {} <=> cases[c].status \in OffRamps

\* What the ticks report as reviewed was decided by the reviewer.
ReportedReviewsHappened ==
  reported + tick.decided <= VerdictRows(cases, {"reviewer"})

\* The verdict of a page that showed a score is recorded with that score, however old
\* the page and whatever its queries raced with.
ShownIsDecided ==
  [][\A c \in DOMAIN cases :
       tab.at = "sent" /\ tab.id = c /\ tab'.at = "loading" /\ tab.page.flags.ruleset
       => Last(cases'[c].decisions).score = tab.page.head.score]_vars

\* The applicant is told one ending at most and the heading never tells another; what
\* the history told it tells for ever, and the step above it never goes back.
EndingOf == [l \in Range(STATUS_COPY) |->
               IF l = STATUS_COPY.decided THEN Endings \ {"Application closed"}
               ELSE IF \E s \in OffRamps : l = STATUS_COPY[s] THEN {"Application closed"}
               ELSE Endings]
ToldOnce ==
  [][/\ phone'.page # None =>
          LET told == phone'.page.told
              endings == {i \in DOMAIN told : told[i] \in Endings}
          IN /\ Cardinality(endings) <= 1
             /\ \A i \in endings : told[i] \in EndingOf[phone'.page.label]
     /\ phone.page # None =>
          /\ IsPrefix(phone.page.told, phone'.page.told)
          /\ phone.page.step <= phone'.page.step]_vars

\* Each case keeps the promise of its record, whoever decides and however many at once.
StageOf(c) == IF c \notin DOMAIN cases THEN "open"
              ELSE IF cases[c].status \in OffRamps THEN "closed"
              ELSE IF Decided(cases[c]) THEN "decided"
              ELSE IF Referred(cases[c]) THEN "referred" ELSE "open"
VerdictOf(c) == IF c \in DOMAIN cases /\ Decided(cases[c])
                  THEN cases[c].decisions[Max(VerdictsOf(cases[c]))].outcome ELSE None
BasisOf(c) == IF c \in DOMAIN cases /\ cases[c].decisions # <<>> THEN cases[c].score ELSE None
Case(c) == INSTANCE Adjudication
             WITH Assessments <- Scores, None <- None,
                  stage <- StageOf(c), verdict <- VerdictOf(c), basis <- BasisOf(c)
EachCaseKeepsItsPromise ==
  /\ scene.from # "referred" => \A c \in Applications : Case(c)!Init
  /\ [][\A c \in Applications :
          [Case(c)!Next]_<<StageOf(c), VerdictOf(c), BasisOf(c)>>]_vars

\* A seeded case that was referred two days ago is decided in the end, or held by its
\* evidence, or by as many older cases as a tick may take that are held by theirs.
Before(c) == {d \in Range(order) : \E i, j \in DOMAIN order :
                i < j /\ order[i] = d /\ order[j] = c}
HeldUp(c) == Cardinality({d \in Before(c) : cases[d].seeded /\ Stuck(cases[d])}) >= MaxReviews
Closed(c) == c \in DOMAIN cases /\ (Decided(cases[c]) \/ Stuck(cases[c]) \/ HeldUp(c))
OldReferralsAreReviewed ==
  \A c \in UNION {s.seeded : s \in Scenes} :
    (\E i \in 1..aged : order[i] = c /\ cases[c].seeded) ~> Closed(c)
=============================================================================
