------------------------------- MODULE Pages -------------------------------
(***************************************************************************)
(* What the pages make of the rows they read: the case page, the review    *)
(* queue, the applicant's status page and the statistics.                  *)
(*                                                                         *)
(* The rows of one application, as a transaction leaves them, are a        *)
(* record: status, score (None: never scored), decisions and trail         *)
(* (audit_events) in order, and the state of its screening.run job.  A     *)
(* page is a function of one such record for each query it makes, since    *)
(* the queries of a page run side by side, each in a snapshot of its own.  *)
(***************************************************************************)
EXTENDS Naturals, Integers, Sequences, SequencesExt, FiniteSetsExt, Selection

CONSTANTS
  None,
  MinForStats  \* MIN_N_FOR_STATS (20): a share of fewer decisions is not shown

ASSUME PagesAssumption == MinForStats \in Nat

Verdicts == {"approved", "rejected"}
OffRamps == {"verification_unavailable", "expired"}
LIFECYCLE == <<"started", "submitted", "checking", "screening", "decided">>

\* The verdicts among the decisions, by their places.
VerdictsOf(rows) == {i \in DOMAIN rows.decisions : rows.decisions[i].outcome \in Verdicts}
Decided(rows) == VerdictsOf(rows) # {}
Referred(rows) == \E i \in DOMAIN rows.decisions : rows.decisions[i].outcome = "referred"
Stuck(rows) == rows.job = "parked"
Retrying(rows) == rows.job = "retrying"

-----------------------------------------------------------------------------
(* The case page.                                                          *)

\* An application that was never scored shows 0.
ScoreShown(rows) == IF rows.score = None THEN 0 ELSE rows.score

scoreClass(score) ==
  IF score >= 80 THEN "score-high" ELSE IF score >= 20 THEN "score-mid" ELSE "score-low"

\* The header, of the applications and the decisions query.
CaseHead(application, decided) ==
  [score |-> ScoreShown(application), class |-> scoreClass(ScoreShown(application)),
   pill |-> IF Decided(decided) THEN decided.decisions[Min(VerdictsOf(decided))].outcome
            ELSE "awaiting review"]

\* "Why this was flagged": the ruleset is named when the case was scored.
Flags(application, decided) ==
  [ruleset |-> application.score # None, referred |-> Referred(decided)]

\* The decision block: the verdict, or why there can be none, or the form.
DecisionBlock(decided, stuck, retrying) ==
  IF Decided(decided) THEN [shows |-> "verdict", warned |-> FALSE]
  ELSE IF Stuck(stuck) THEN [shows |-> "stuck", warned |-> FALSE]
  ELSE [shows |-> "form", warned |-> Retrying(retrying)]

CasePage(application, decided, stuck, retrying) ==
  [head |-> CaseHead(application, decided),
   flags |-> Flags(application, decided),
   block |-> DecisionBlock(decided, stuck, retrying)]

\* One line of the officer's timeline.
\* (Mutant: `automatic` alone says who decided; a referral has no such key.)
ByAutomatic(event) ==
  CASE event.action = "decision.recorded" ->
         IF event.automatic = TRUE THEN <<"Decided automatically", event.says>>
         ELSE <<"Decided by a reviewer", event.says>>
    [] event.action \in {"verification.unavailable", "application.expired"} ->
         <<"Closed", event.action>>
    [] OTHER -> <<event.action, event.says>>
describeEvent(event) ==
  CASE event.action = "decision.recorded" /\ event.says = "referred" ->
         <<"Referred for review", None>>
    [] event.action = "decision.recorded" /\ event.says # "referred" ->
         IF event.automatic = TRUE THEN <<"Decided automatically", event.says>>
         ELSE <<"Decided by a reviewer", event.says>>
    [] event.action \in {"verification.unavailable", "application.expired"} ->
         <<"Closed", event.action>>
    [] OTHER -> <<event.action, event.says>>

Timeline(rows) == [i \in DOMAIN rows.trail |-> describeEvent(rows.trail[i])]

-----------------------------------------------------------------------------
(* The review queue.  `order` holds the referred cases, oldest first.      *)

Awaits(rows) == rows.status = "screening" /\ Referred(rows) /\ ~Decided(rows)

pendingCases(cases, order) ==
  LET waiting == Kept(order, {i \in DOMAIN order : Awaits(cases[order[i]])})
  IN [i \in DOMAIN waiting |-> [id |-> waiting[i], score |-> ScoreShown(cases[waiting[i]])]]

BANDS == {"all", "60", "40", "20"}
InBand(band, score) ==
  CASE band = "all" -> TRUE
    [] band = "60" -> score >= 60
    [] band = "40" -> score \in 40..59
    [] band = "20" -> score < 40

\* What the filters leave; a search names one case, or nothing (None).
Visible(rows, band, query) ==
  Kept(rows, {i \in DOMAIN rows : /\ InBand(band, rows[i].score)
                                  /\ query \in {None, rows[i].id}})

-----------------------------------------------------------------------------
(* The applicant's status page.                                            *)

\* A status off the happy path has no step in the tracker; nothing follows it.
StepOf(status) == IF status \in OffRamps THEN Len(LIFECYCLE) + 1
                  ELSE CHOOSE i \in DOMAIN LIFECYCLE : LIFECYCLE[i] = status

STATUS_COPY ==
  [started |-> "Not started", submitted |-> "Documents received",
   checking |-> "Checking your documents", screening |-> "Final checks",
   decided |-> "Complete", verification_unavailable |-> "Could not be completed",
   expired |-> "Closed - not started in time"]

\* What an event tells the applicant, None: nothing.  (That screening began is told in
\* the vendor's words, for its result; they do not differ here.)
onStatusChange(event) ==
  CASE event.says = "submitted" -> "Details received"
    [] event.says = "checking" -> "Identity check in progress"
    [] event.says = "screening" -> "Identity check reviewed"
    [] event.says = "decided" -> "Decision recorded"
    [] OTHER -> None
onDecision(event) ==
  CASE event.says = "approved" -> "Application approved"
    [] event.says = "rejected" -> "Application declined"
    [] event.says = "referred" -> "Sent for manual review"
    [] OTHER -> None
describeForApplicant(event) ==
  CASE event.action = "application.created" -> "Application started"
    [] event.action = "verification.session_created" -> "Identity check opened"
    [] event.action = "status.changed" -> onStatusChange(event)
    [] event.action = "screening.completed" -> "Background checks completed"
    [] event.action = "decision.recorded" -> onDecision(event)
    [] event.action \in {"verification.unavailable", "application.expired"} ->
         "Application closed"
    [] OTHER -> None

\* The history, of the audit query.
History(audit) ==
  LET titles == [i \in DOMAIN audit.trail |-> describeForApplicant(audit.trail[i])]
  IN Kept(titles, {i \in DOMAIN titles : titles[i] # None})

\* With the heading and the step, of the application.
StatusPage(application, audit) ==
  [label |-> STATUS_COPY[application.status],
   step |-> StepOf(application.status),
   told |-> History(audit)]

-----------------------------------------------------------------------------
(* The statistics, on one snapshot.                                        *)

CountOf(cases, statuses) == Cardinality({c \in DOMAIN cases : cases[c].status \in statuses})

\* The rows of the decisions table that are one of these outcomes, by one of these.
DecisionRows(cases, outcomes, by) ==
  UNION {{c} \X {i \in DOMAIN cases[c].decisions :
                   /\ cases[c].decisions[i].outcome \in outcomes
                   /\ cases[c].decisions[i].by \in by} : c \in DOMAIN cases}

VerdictRows(cases, by) == Cardinality(DecisionRows(cases, Verdicts, by))
OutcomeRows(cases, outcome) ==
  Cardinality(DecisionRows(cases, {outcome}, {"system", "officer", "reviewer"}))

\* (Mutant: a case whose scoring is still to come is on no line.)
NeverOn(rows) == FALSE
BeingScreened(rows) == rows.status = "screening" /\ ~Referred(rows)

totals(cases) ==
  [applications |-> Cardinality(DOMAIN cases),
   decided |-> VerdictRows(cases, {"system", "officer", "reviewer"}),
   auto_decided |-> VerdictRows(cases, {"system"}),
   human_decided |-> VerdictRows(cases, {"officer", "reviewer"}),
   approved |-> OutcomeRows(cases, "approved"),
   rejected |-> OutcomeRows(cases, "rejected"),
   in_flight |-> CountOf(cases, {"started", "submitted", "checking"}),
   verification_unavailable |-> CountOf(cases, {"verification_unavailable"}),
   expired |-> CountOf(cases, {"expired"}),
   being_screened |-> Cardinality({c \in DOMAIN cases : BeingScreened(cases[c])})]

queueState(cases) == Cardinality({c \in DOMAIN cases : Awaits(cases[c])})

\* "Where every application is".
StatsLines(cases) ==
  LET total == totals(cases)
  IN queueState(cases) + total.in_flight + total.being_screened
       + total.verification_unavailable + total.expired

\* "Outcome split": how many of the decided ones.
OutcomeSplit(total) ==
  IF total.decided < MinForStats THEN None
  ELSE [approved |-> total.approved, rejected |-> total.rejected,
        human |-> total.human_decided, of |-> total.decided]
=============================================================================
