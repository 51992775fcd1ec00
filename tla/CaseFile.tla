------------------------------ MODULE CaseFile ------------------------------
(***************************************************************************)
(* One application and everything that changes it: the applicant's         *)
(* verification sessions, the vendor's webhooks, the worker's two ways of  *)
(* learning a result (webhook job and sweep), screening, the officer and   *)
(* the synthetic reviewer, and the triggers and constraints of the schema. *)
(*                                                                         *)
(* A handler reads the application with a plain SELECT, works (the vendor  *)
(* is asked over HTTP, the list is searched) and writes at the end, in one *)
(* READ COMMITTED transaction.  Its reads and the answer it gets are steps *)
(* of their own; its writes are one step at the commit, since the first of *)
(* them locks the application's row until then.  recordDecision locks the  *)
(* row before it reads and is one step.  Jobs are as JobQueue shows them:  *)
(* pending until done or parked, their effects committed with them.        *)
(***************************************************************************)
EXTENDS Naturals, Sequences

CONSTANTS
  Sessions,     \* verification sessions the applicant may start
  Results,      \* vendor statuses the vendor may report
  MaxResults,   \* bound: results the vendor reports in all
  Runs,         \* handler executions that may be under way at once
  MaxAttempts,  \* jobs.max_attempts
  CloseAfter,   \* SESSION_NOT_FOUND_CLOSE_AFTER
  Timestamped,  \* does a fetched result carry its time? (simulator: yes, live: no)
  MaxList,      \* bound: sanctions snapshots loaded, 0 while there is none
  MaxRuleset,   \* bound: deployed ruleset versions
  Findings,     \* what risk_signals can say of an applicant
  Finding,      \* the signals for a vendor status, snapshot and ruleset
  Hits,         \* entries of lists, with how they resemble the applicant
  Found,        \* the hits for a vendor status, snapshot and ruleset
  Score,        \* the risk score of each finding
  Routing,      \* where score_application sends each finding
  None          \* SQL's NULL, and "no answer"

Lists == 1..MaxList
Rulesets == 1..MaxRuleset
Assessments == [finding : Findings, ruleset : Rulesets, list : Lists]
Matches == [hit : Hits, list : Lists]  \* a hit, and the snapshot it was found on

ASSUME CaseFileAssumption ==
  /\ None \notin Sessions \cup Results \cup Nat \cup Assessments
  /\ {MaxResults, MaxList} \subseteq Nat
  /\ {MaxAttempts, CloseAfter, MaxRuleset} \subseteq Nat \ {0}
  /\ Timestamped \in BOOLEAN
  /\ Finding \in [(Results \cup {None, "Not Started"}) \X Lists \X Rulesets -> Findings]
  /\ Found \in [DOMAIN Finding -> SUBSET Hits]
  /\ Score \in [Findings -> Nat]
  /\ Routing \in [Findings -> {"approve", "review", "reject"}]

VARIABLES
  row,        \* the application: status, vendor session and result, risk columns
  decisions,  \* the application's rows of decisions, in order
  matches,    \* its rows of screening_results
  reported,   \* what the vendor has reported, in the order of the vendor's clock
  created,    \* sessions created with the vendor
  forgotten,  \* of these, the ones the vendor has lost its record of
  opening,    \* sessions created with the vendor whose web request goes on
  inbox,      \* the webhook job of each reported result
  screens,    \* the screening.run jobs of the application
  run,        \* the handler executions
  pick,       \* what the synthetic reviewer has chosen for the case it read
  list,       \* the active sanctions snapshot
  ruleset,    \* the ruleset version in force
  missing,    \* not-found answers on record, counted up to CloseAfter
  anHourOn,   \* is the first of them at least an hour old?
  seeded,     \* was the application created by the seeder?
  heard       \* history: the position in `reported` of the applied result

outside == <<reported, created, forgotten, list, ruleset, anHourOn, seeded>>
inside == <<row, decisions, matches, opening, inbox, screens, run, pick, missing, heard>>
vars == <<row, decisions, matches, reported, created, forgotten, opening, inbox, screens, run,
          pick, list, ruleset, missing, anHourOn, seeded, heard>>

OnTheWay == {"submitted", "checking"}
OffRamps == {"verification_unavailable", "expired"}
Statuses == {"started", "screening", "decided"} \cup OnTheWay \cup OffRamps
Rows == [status : Statuses, session : Sessions \cup {None},
         vendorStatus : Results \cup {None, "Not Started"},
         resultAt : Nat, risk : Assessments \cup {None}]
Verdicts == {"approved", "rejected"}
Decisions == [outcome : Verdicts \cup {"referred"},
              by : {"system", "officer", "reviewer"}, risk : Assessments]
Jobs == [state : {"none", "queued", "running", "done", "parked"}, tries : 0..MaxAttempts]
NewJob == [state |-> "queued", tries |-> 0]
Executions == [at : {"idle", "asking", "applying", "searching", "storing"},
               for : {"event", "sweep", "screening", "nothing"},
               no : Nat, seen : Rows, answer : Nat \cup {None},
               found : Assessments \cup {None}]

NewRow == [status |-> "started", session |-> None, vendorStatus |-> None,
           resultAt |-> 0, risk |-> None]
Idle == [at |-> "idle", for |-> "nothing", no |-> 0, seen |-> NewRow,
         answer |-> None, found |-> None]

TypeOK ==
  /\ row \in Rows
  /\ decisions \in Seq(Decisions)
  /\ matches \subseteq Matches
  /\ reported \in Seq([session : Sessions, status : Results])
  /\ created \subseteq Sessions
  /\ forgotten \subseteq created /\ opening \subseteq created
  /\ inbox \in [1..MaxResults -> Jobs]
  /\ screens \in Seq(Jobs)
  /\ run \in [Runs -> Executions]
  /\ pick \in Verdicts \cup {None}
  /\ list \in 0..MaxList /\ ruleset \in Rulesets
  /\ missing \in 0..CloseAfter /\ anHourOn \in BOOLEAN /\ seeded \in BOOLEAN
  /\ heard \in Nat

Init ==
  /\ row = NewRow
  /\ decisions = <<>> /\ matches = {}
  /\ reported = <<>> /\ created = {} /\ forgotten = {} /\ opening = {}
  /\ inbox = [n \in 1..MaxResults |-> [state |-> "none", tries |-> 0]]
  /\ screens = <<>>
  /\ run = [r \in Runs |-> Idle]
  /\ pick = None
  /\ list = 0 /\ ruleset = 1
  /\ missing = 0 /\ anHourOn = FALSE
  /\ seeded \in BOOLEAN
  /\ heard = 0

-----------------------------------------------------------------------------
(* The schema's rules, and reads both services share.                      *)

Transitions ==
  {<<"started", s>> : s \in {"submitted", "checking", "screening", "expired"}}
  \cup {<<"submitted", s>> : s \in {"checking", "screening", "verification_unavailable"}}
  \cup {<<"checking", s>> : s \in {"screening", "verification_unavailable"}}
  \cup {<<"screening", "decided">>}

\* applications_enforce_lifecycle (017): may the row's status become s?
AnyStatus(s) == TRUE  \* (mutant: no trigger)
Permits(s) == s = row.status \/ <<row.status, s>> \in Transitions

\* applications_freeze_risk_after_decision (020): may the risk columns change?
Thawed == row.status # "decided"  \* (mutant: the freeze keyed on the status)
Unfrozen == decisions = <<>>

Recorded(outcomes) == \E i \in DOMAIN decisions : decisions[i].outcome \in outcomes
EvidenceStuck == \E j \in DOMAIN screens : screens[j].state = "parked"

\* decisions_ruleset_version_present (022).
Unscored == TRUE  \* (mutant: the constraint is not there)
Scored == row.risk # None

Decision(outcome, by, risk) == [outcome |-> outcome, by |-> by, risk |-> risk]

-----------------------------------------------------------------------------
(* The applicant: startVerificationSession.                                *)

\* The vendor creates the session, over HTTP, before anything is written.
CreateSession(s) ==
  /\ s \notin created
  /\ created' = created \cup {s}
  /\ opening' = opening \cup {s}
  /\ UNCHANGED <<row, decisions, inbox, screens, run, pick, missing, heard, matches,
                 reported, forgotten, list, ruleset, anHourOn, seeded>>

\* The session is recorded; the status moves only out of 'started'.
RecordSession(s) ==
  /\ s \in opening
  /\ row' = [row EXCEPT !.session = s,
                        !.status = IF @ = "started" THEN "submitted" ELSE @]
  /\ opening' = opening \ {s}
  /\ UNCHANGED <<decisions, inbox, screens, run, pick, missing, heard, matches, outside>>

\* The web request dies between the two.
LoseSession(s) ==
  /\ s \in opening
  /\ opening' = opening \ {s}
  /\ UNCHANGED <<row, decisions, inbox, screens, run, pick, missing, heard, matches, outside>>

-----------------------------------------------------------------------------
(* The vendor, external: results, corrections, webhooks.                   *)

TargetOf ==
  [v \in {"Not Started", "In Progress", "Awaiting User", "Resubmitted", "In Review",
          "Approved", "Declined", "Abandoned", "Expired", "Kyc Expired"} |->
     CASE v \in {"Not Started", "In Progress", "Awaiting User", "Resubmitted"} ->
            "submitted"
       [] v = "In Review" -> "checking"
       [] OTHER -> "screening"]

Conclusive == {v \in DOMAIN TargetOf : TargetOf[v] = "screening"}

\* The last result within the bound is conclusive: a vendor does conclude.
Report(s, v) ==
  /\ s \in created \ forgotten
  /\ Len(reported) < MaxResults
  /\ Len(reported) + 1 = MaxResults => v \in Conclusive
  /\ reported' = Append(reported, [session |-> s, status |-> v])
  /\ UNCHANGED <<inside, created, forgotten, list, ruleset, anHourOn, seeded>>

\* The vendor has no record of the session any more.
Forget(s) ==
  /\ s \in created \ forgotten
  /\ forgotten' = forgotten \cup {s}
  /\ UNCHANGED <<inside, reported, created, list, ruleset, anHourOn, seeded>>

\* The webhook route: the event is stored and its job enqueued, once, however
\* often and in whatever order the deliveries arrive; one may never arrive.
Deliver(n) ==
  /\ n \in DOMAIN reported
  /\ inbox[n].state = "none"
  /\ inbox' = [inbox EXCEPT ![n] = NewJob]
  /\ UNCHANGED <<row, decisions, opening, screens, run, pick, missing, heard, matches, outside>>

\* The answer to fetch_session: the latest result of the session, 0 before the
\* first ("Not Started"), None when the vendor has no record of it.
Answer(s) ==
  LET of == {n \in DOMAIN reported : reported[n].session = s}
  IN IF s \notin created \ forgotten THEN None
     ELSE CHOOSE n \in of \cup {0} : \A m \in of : m <= n

StatusAt(n) == IF n = 0 THEN "Not Started" ELSE reported[n].status

-----------------------------------------------------------------------------
(* Handler executions.                                                     *)

Claimed(job) == [state |-> "running", tries |-> job.tries + 1]
Done(job) == [job EXCEPT !.state = "done"]
Parked(job) == [job EXCEPT !.state = "parked"]
TriedAgain(job) == [job EXCEPT !.state = "queued"]  \* (mutant: retried for ever)
Failed(job) ==
  [job EXCEPT !.state = IF job.tries >= MaxAttempts THEN "parked" ELSE "queued"]

Begin(r, task, n, at) ==
  run' = [run EXCEPT ![r] = [at |-> at, for |-> task, no |-> n, seen |-> row,
                             answer |-> None, found |-> None]]

Finish(r) == run' = [run EXCEPT ![r] = Idle]

\* The job of an execution that asks the vendor ends this way; a sweep's own job
\* recurs and is not followed here.
InboxAfter(r, job) ==
  IF run[r].for = "event" THEN [inbox EXCEPT ![run[r].no] = job] ELSE inbox
InboxJob(r) == IF run[r].for = "event" THEN inbox[run[r].no] ELSE NewJob

\* process_webhook loads the application, without a lock.
LoadEvent(r, n) ==
  /\ run[r].at = "idle"
  /\ inbox[n].state = "queued"
  /\ inbox' = [inbox EXCEPT ![n] = Claimed(@)]
  /\ Begin(r, "event", n, "asking")
  /\ UNCHANGED <<row, decisions, opening, screens, pick, missing, heard, matches, outside>>

\* sweep_stuck selects the application, when it has waited long enough.
\* (Mutant: it looks for 'submitted' alone.)
LoadSweepSubmitted(r) ==
  /\ run[r].at = "idle"
  /\ row.status = "submitted" /\ row.session # None
  /\ Begin(r, "sweep", 0, "asking")
  /\ UNCHANGED <<row, decisions, opening, inbox, screens, pick, missing, heard, matches, outside>>
LoadSweep(r) ==
  /\ run[r].at = "idle"
  /\ row.status \in OnTheWay /\ row.session # None
  /\ Begin(r, "sweep", 0, "asking")
  /\ UNCHANGED <<row, decisions, opening, inbox, screens, pick, missing, heard, matches, outside>>

Ask(r) ==
  /\ run[r].at = "asking"
  /\ LET s == IF run[r].for = "event" THEN reported[run[r].no].session
              ELSE run[r].seen.session
     IN run' = [run EXCEPT ![r].at = "applying", ![r].answer = Answer(s)]
  /\ UNCHANGED <<row, decisions, opening, inbox, screens, pick, missing, heard, matches, outside>>

\* The vendor's time of an answer: the simulator publishes it; otherwise a webhook
\* has that of its own event and a sweep has none.
TimeOf(r) ==
  IF Timestamped /\ run[r].answer # 0 THEN run[r].answer ELSE run[r].no

\* evaluate_vendor_result says APPLIED: known status, not older than the last
\* result applied, a change of status, and a legal one - for the row as it was read.
Applies(seen, v, time) ==
  /\ v \in DOMAIN TargetOf
  /\ ~(time # 0 /\ seen.resultAt # 0 /\ time < seen.resultAt)
  /\ TargetOf[v] # seen.status
  /\ <<seen.status, TargetOf[v]>> \in Transitions

\* (Mutant: screening is enqueued only for a case that waited for its verdict.)
ScreensIfChecked(r, v) ==
  IF TargetOf[v] = "screening" /\ run[r].seen.status = "checking"
    THEN Append(screens, NewJob) ELSE screens
ScreensAfter(r, v) ==
  IF TargetOf[v] = "screening" THEN Append(screens, NewJob) ELSE screens

Answered(r) == run[r].at = "applying" /\ run[r].answer # None
Changes(r) == Applies(run[r].seen, StatusAt(run[r].answer), TimeOf(r))

\* apply_result writes, if the trigger lets it.
ApplyResult(r) ==
  LET v == StatusAt(run[r].answer)
  IN /\ Answered(r) /\ Changes(r)
     /\ Permits(TargetOf[v])
     /\ row' = [row EXCEPT !.status = TargetOf[v], !.vendorStatus = v,
                           !.resultAt = IF TimeOf(r) > @ THEN TimeOf(r) ELSE @]
     /\ heard' = run[r].answer
     /\ screens' = ScreensAfter(r, v)
     /\ inbox' = InboxAfter(r, Done(InboxJob(r)))
     /\ Finish(r)
     /\ UNCHANGED <<decisions, opening, pick, missing, matches, outside>>

\* A result that changes nothing is refused (the refusal goes to the audit log).
RefuseResult(r) ==
  /\ Answered(r) /\ ~Changes(r)
  /\ inbox' = InboxAfter(r, Done(InboxJob(r)))
  /\ Finish(r)
  /\ UNCHANGED <<row, decisions, opening, screens, pick, missing, heard, matches, outside>>

\* The vendor has no record of a webhook's session: PermanentError.
ParkEvent(r) ==
  /\ run[r].at = "applying" /\ run[r].answer = None /\ run[r].for = "event"
  /\ inbox' = InboxAfter(r, Parked(InboxJob(r)))
  /\ Finish(r)
  /\ UNCHANGED <<row, decisions, opening, screens, pick, missing, heard, matches, outside>>

\* _record_not_found and _close_if_confirmed_missing: the status is read again,
\* under a lock; if another transaction has the row, SKIP LOCKED leaves the case.
RecordNotFound(r) ==
  /\ run[r].at = "applying" /\ run[r].answer = None /\ run[r].for = "sweep"
  /\ missing' = IF missing < CloseAfter THEN missing + 1 ELSE missing
  /\ \/ row' = row
     \/ /\ row.status \in OnTheWay
        /\ missing' = CloseAfter /\ anHourOn
        /\ row' = [row EXCEPT !.status = "verification_unavailable"]
  /\ Finish(r)
  /\ UNCHANGED <<decisions, opening, inbox, screens, pick, heard, matches, outside>>

\* The vendor cannot be reached, the trigger raises, or the process dies: nothing
\* of the execution is kept but its job's attempt.
FailAsking(r) ==
  /\ run[r].at \in {"asking", "applying"}
  /\ inbox' = InboxAfter(r, Failed(InboxJob(r)))
  /\ Finish(r)
  /\ UNCHANGED <<row, decisions, opening, screens, pick, missing, heard, matches, outside>>

\* expire_abandoned, part of a sweep: the window has passed without a session.
Expire ==
  /\ row.status = "started" /\ row.session = None
  /\ row' = [row EXCEPT !.status = "expired"]
  /\ UNCHANGED <<decisions, opening, inbox, screens, run, pick, missing, heard, matches, outside>>

-----------------------------------------------------------------------------
(* Screening.                                                              *)

ScreensWith(r, job) == [screens EXCEPT ![run[r].no] = job]

LoadScreening(r, j) ==
  /\ run[r].at = "idle"
  /\ screens[j].state = "queued"
  /\ screens' = [screens EXCEPT ![j] = Claimed(@)]
  /\ Begin(r, "screening", j, "searching")
  /\ UNCHANGED <<row, decisions, opening, inbox, pick, missing, heard, matches, outside>>

\* The case is not in screening (any more).
SkipScreening(r) ==
  /\ run[r].at = "searching" /\ run[r].seen.status # "screening"
  /\ screens' = ScreensWith(r, Done(screens[run[r].no]))
  /\ Finish(r)
  /\ UNCHANGED <<row, decisions, opening, inbox, pick, missing, heard, matches, outside>>

\* No fully loaded snapshot: PermanentError.
ParkScreening(r) ==
  /\ run[r].at = "searching" /\ run[r].seen.status = "screening" /\ list = 0
  /\ screens' = ScreensWith(r, Parked(screens[run[r].no]))
  /\ Finish(r)
  /\ UNCHANGED <<row, decisions, opening, inbox, pick, missing, heard, matches, outside>>

\* The active snapshot is searched and the applicant scored.
Search(r) ==
  /\ run[r].at = "searching" /\ run[r].seen.status = "screening" /\ list # 0
  /\ LET finding == Finding[<<run[r].seen.vendorStatus, list, ruleset>>]
     IN run' = [run EXCEPT ![r].at = "storing",
                           ![r].found = [finding |-> finding, ruleset |-> ruleset,
                                         list |-> list]]
  /\ UNCHANGED <<row, decisions, opening, inbox, screens, pick, missing, heard, matches, outside>>

\* _store_assessment: score and signals are compared, the ruleset version and the
\* snapshot are not.
Unchanged(r) ==
  run[r].seen.risk # None /\ run[r].seen.risk.finding = run[r].found.finding

OutcomeOf(route) ==
  CASE route = "approve" -> "approved" [] route = "reject" -> "rejected"
    [] route = "review" -> "referred"

\* _store_matches writes a row for each hit; on conflict of entities it does nothing, so
\* that the first row stays.
HitsOf(r) == Found[<<run[r].seen.vendorStatus, run[r].found.list, run[r].found.ruleset>>]
FoundNow(r, hits) == {[hit |-> hit, list |-> run[r].found.list] : hit \in hits}
\* (Mutant: on conflict do update.)
MatchesAnew(r) ==
  {m \in matches : \A hit \in HitsOf(r) : hit.entity # m.hit.entity} \cup FoundNow(r, HitsOf(r))
MatchesWith(r) ==
  matches \cup FoundNow(r, {hit \in HitsOf(r) : \A m \in matches : m.hit.entity # hit.entity})

\* _store_matches, _store_assessment and _route, if the freeze trigger lets them.
StoreScreening(r) ==
  LET found == run[r].found
      route == Routing[found.finding]
      refers == route = "review" /\ ~Recorded({"referred"})
      decides == route # "review" /\ ~Recorded(Verdicts)
  IN /\ run[r].at = "storing"
     /\ Unchanged(r) \/ Unfrozen
     /\ row' = [row EXCEPT !.risk = IF Unchanged(r) THEN @ ELSE found,
                           !.status = IF decides /\ @ = "screening" THEN "decided" ELSE @]
     /\ decisions' = IF refers \/ decides
                       THEN Append(decisions, Decision(OutcomeOf(route), "system", found))
                       ELSE decisions
     /\ matches' = MatchesWith(r)
     /\ screens' = ScreensWith(r, Done(screens[run[r].no]))
     /\ Finish(r)
     /\ UNCHANGED <<opening, inbox, pick, missing, heard, outside>>

\* A trigger raises or the process dies.
FailScreening(r) ==
  /\ run[r].at \in {"searching", "storing"}
  /\ screens' = ScreensWith(r, Failed(screens[run[r].no]))
  /\ Finish(r)
  /\ UNCHANGED <<row, decisions, opening, inbox, pick, missing, heard, matches, outside>>

-----------------------------------------------------------------------------
(* Humans, and the reviewer of seeded cases: recordDecision.               *)

\* The whole transaction, under the row lock; every refusal changes nothing.
RecordDecision(outcome, by) ==
  /\ ~Recorded(Verdicts)
  /\ ~EvidenceStuck
  /\ Scored
  /\ decisions' = Append(decisions, Decision(outcome, by, row.risk))
  /\ row' = [row EXCEPT !.status = IF @ = "screening" THEN "decided" ELSE @]

\* The server action takes a decision on any case at any time.
Decide(outcome) ==
  /\ RecordDecision(outcome, "officer")
  /\ UNCHANGED <<opening, inbox, screens, run, pick, missing, heard, matches, outside>>

RejectsFrom == 60

\* runSyntheticReviewer lists seeded, referred, undecided cases with their scores,
ListForReview ==
  /\ pick = None
  /\ seeded /\ row.status = "screening"
  /\ Recorded({"referred"}) /\ ~Recorded(Verdicts)
  /\ pick' = IF Score[row.risk.finding] >= RejectsFrom THEN "rejected" ELSE "approved"
  /\ UNCHANGED <<row, decisions, opening, inbox, screens, run, missing, heard, matches, outside>>

\* and then takes them one by one; a refused case is skipped.
Review ==
  /\ pick # None
  /\ RecordDecision(pick, "reviewer")
  /\ pick' = None
  /\ UNCHANGED <<opening, inbox, screens, run, missing, heard, matches, outside>>

SkipReview ==
  /\ pick # None
  /\ Recorded(Verdicts) \/ EvidenceStuck
  /\ pick' = None
  /\ UNCHANGED <<row, decisions, opening, inbox, screens, run, missing, heard, matches, outside>>

-----------------------------------------------------------------------------
(* The world moves on.                                                     *)

LoadList ==
  /\ list < MaxList
  /\ list' = list + 1
  /\ UNCHANGED <<inside, reported, created, forgotten, ruleset, anHourOn, seeded>>

DeployRuleset ==
  /\ ruleset < MaxRuleset
  /\ ruleset' = ruleset + 1
  /\ UNCHANGED <<inside, reported, created, forgotten, list, anHourOn, seeded>>

HourPasses ==
  /\ missing > 0 /\ ~anHourOn
  /\ anHourOn' = TRUE
  /\ UNCHANGED <<inside, reported, created, forgotten, list, ruleset, seeded>>

-----------------------------------------------------------------------------
Web ==
  \/ \E s \in Sessions : CreateSession(s) \/ RecordSession(s) \/ LoseSession(s)
  \/ \E n \in 1..MaxResults : Deliver(n)
  \/ \E o \in Verdicts : Decide(o)
  \/ ListForReview \/ Review \/ SkipReview

Worker(r) ==
  \/ \E n \in 1..MaxResults : LoadEvent(r, n)
  \/ LoadSweep(r) \/ Ask(r)
  \/ ApplyResult(r) \/ RefuseResult(r) \/ ParkEvent(r) \/ RecordNotFound(r) \/ FailAsking(r)
  \/ \E j \in DOMAIN screens : LoadScreening(r, j)
  \/ SkipScreening(r) \/ ParkScreening(r) \/ Search(r) \/ StoreScreening(r) \/ FailScreening(r)

World ==
  \/ \E s \in Sessions : Forget(s) \/ \E v \in Results : Report(s, v)
  \/ LoadList \/ DeployRuleset \/ HourPasses

Next == Web \/ (\E r \in Runs : Worker(r)) \/ Expire \/ World

Spec == Init /\ [][Next]_vars

(***************************************************************************)
(* Fairness.  Jobs are claimed and executed and the sweep recurs, as       *)
(* JobQueue shows; an execution that is repeated for ever meets a vendor   *)
(* that answers, and one that is not killed; the vendor concludes in the   *)
(* end; time passes.  Nothing is assumed of webhooks, the applicant or the *)
(* staff.                                                                  *)
(***************************************************************************)
Fairness ==
  /\ \A r \in Runs :
       /\ \A n \in 1..MaxResults : SF_vars(LoadEvent(r, n))
       /\ SF_vars(LoadSweep(r)) /\ SF_vars(Ask(r))
       /\ SF_vars(ApplyResult(r) \/ RefuseResult(r) \/ ParkEvent(r) \/ RecordNotFound(r))
       /\ SF_vars(RecordNotFound(r) /\ row' # row)
       /\ SF_vars(\E j \in DOMAIN screens : LoadScreening(r, j))
       /\ WF_vars(SkipScreening(r) \/ ParkScreening(r) \/ Search(r)
                  \/ StoreScreening(r) \/ FailScreening(r))
  /\ \A s \in Sessions : WF_vars(\E v \in Conclusive : Report(s, v))
  /\ WF_vars(HourPasses)

FairSpec == Spec /\ Fairness

-----------------------------------------------------------------------------
(* Properties.                                                             *)

\* A case is decided exactly when it has its one verdict: no path decides a case
\* that was not screened, gives a second verdict, or closes a case with a verdict
\* (017, 007, 022, and a recordDecision that does not look at the status).
DecidedByOneVerdict ==
  LET verdicts == {i \in DOMAIN decisions : decisions[i].outcome \in Verdicts}
  IN /\ \A i, j \in verdicts : i = j
     /\ row.status = "decided" <=> verdicts # {}

\* Every decision carries the score and ruleset version the application shows now:
\* nothing re-scores a case under a referral or a verdict, however many screening
\* jobs, list loads and rule changes race with it.
EvidenceFrozen == \A i \in DOMAIN decisions : decisions[i].risk = row.risk

\* A case in screening has a screening job to come, or a referral, or a parked job
\* for someone to look at: it never waits for nothing.
NeverStranded ==
  row.status = "screening" =>
    \/ Recorded({"referred"})
    \/ \E j \in DOMAIN screens : screens[j].state \in {"queued", "running", "parked"}

\* The synthetic reviewer's verdict fits the score it is recorded with, though it
\* chose before it had the lock; and it never decides a case a visitor created.
ReviewFitsScore ==
  \A i \in DOMAIN decisions :
    decisions[i].by = "reviewer" =>
      /\ seeded
      /\ (decisions[i].outcome = "rejected")
           <=> Score[decisions[i].risk.finding] >= RejectsFrom

\* What the case shows an auditor, and the promise it keeps.
stage == IF row.status \in OffRamps THEN "closed"
         ELSE IF Recorded(Verdicts) THEN "decided"
         ELSE IF Recorded({"referred"}) THEN "referred" ELSE "open"
verdict == IF Recorded(Verdicts)
             THEN (CHOOSE d \in {decisions[i] : i \in DOMAIN decisions} :
                     d.outcome \in Verdicts).outcome
             ELSE None
basis == IF decisions = <<>> THEN None ELSE row.risk
Promise == INSTANCE Adjudication WITH stage <- stage, verdict <- verdict, basis <- basis
AdjudicationPromise == Promise!Spec

\* A case that waits for the vendor on a recorded session is decided, referred,
\* closed, or held by a parked screening job in the end - with every webhook lost,
\* if need be.
EveryCaseIsHandled ==
  row.status \in OnTheWay /\ row.session # None ~>
    \/ row.status \in {"decided", "verification_unavailable"}
    \/ Recorded({"referred"})
    \/ EvidenceStuck

\* README.md, "Two guards": the vendor timestamp catches an older Declined
\* overwriting a newer Approved; docs/decisions.md: the recency guard "covers the
\* narrower case of two fetches racing each other".
ResultNeverOlder == [][heard' >= heard]_vars

\* 023: "A referred case is already at 'screening', so a late correction writes
\* vendor_status without changing status and enqueues screening.run."
CorrectionIsWritten ==
  [][\A r \in Runs :
       /\ RefuseResult(r) /\ run[r].for = "event"
       /\ row.status = "screening" /\ Recorded({"referred"})
       => \/ run[r].answer <= heard
          \/ StatusAt(run[r].answer) \notin Conclusive
          \/ StatusAt(run[r].answer) = row.vendorStatus]_vars
=============================================================================
