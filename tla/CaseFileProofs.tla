--------------------------- MODULE CaseFileProofs ---------------------------
(***************************************************************************)
(* What holds of CaseFile for any sessions, results, lists and rulesets,   *)
(* any number of handler executions, and any scoring and routing.          *)
(***************************************************************************)
EXTENDS CaseFile, BoundedSets, TLAPS

-----------------------------------------------------------------------------
(* Typing.  A job waits only while it has an attempt left; an execution    *)
(* belongs to a job that is there, knows an answer the vendor has given    *)
(* and stores only what it has found for a case it read in screening.      *)

Waits(job) == job.state = "queued" => job.tries < MaxAttempts

JobsFit ==
  /\ \A n \in 1..MaxResults : Waits(inbox[n])
  /\ \A j \in DOMAIN screens : Waits(screens[j])

Fits(e) ==
  /\ e.for = "screening" <=> e.at \in {"searching", "storing"}
  /\ e.for = "screening" => e.no \in DOMAIN screens
  /\ e.for = "event" => e.no \in 1..MaxResults
  /\ e.answer = None \/ e.answer \in 0..Len(reported)
  /\ e.at = "storing" => e.found \in Assessments /\ e.seen.status = "screening"

RunsFit == \A r \in Runs : Fits(run[r])

TInv == TypeOK /\ JobsFit /\ RunsFit

\* The bounds are numbers.
LEMMA Bounds ==
  /\ MaxResults \in Nat /\ MaxList \in Nat
  /\ MaxAttempts \in Nat /\ MaxAttempts > 0
  /\ CloseAfter \in Nat /\ CloseAfter > 0
  /\ MaxRuleset \in Nat /\ MaxRuleset > 0
<1>1. MaxResults \in {MaxResults, MaxList} /\ MaxList \in {MaxResults, MaxList}
  OBVIOUS
<1>2. MaxAttempts \in {MaxAttempts, CloseAfter, MaxRuleset}
      /\ CloseAfter \in {MaxAttempts, CloseAfter, MaxRuleset}
      /\ MaxRuleset \in {MaxAttempts, CloseAfter, MaxRuleset}
  OBVIOUS
<1>3. {MaxResults, MaxList} \subseteq Nat
      /\ {MaxAttempts, CloseAfter, MaxRuleset} \subseteq Nat \ {0}
  BY CaseFileAssumption
<1>4. MaxResults \in Nat /\ MaxList \in Nat
  BY <1>1, <1>3
<1>5. /\ MaxAttempts \in Nat \ {0} /\ CloseAfter \in Nat \ {0}
      /\ MaxRuleset \in Nat \ {0}
  BY <1>2, <1>3
<1>6. QED
  BY <1>4, <1>5

\* The latest result of a session is one that was reported, or there is none.
LEMMA AnswerType ==
  ASSUME TypeOK, NEW s
  PROVE  Answer(s) = None \/ Answer(s) \in 0..Len(reported)
<1> DEFINE of == {n \in DOMAIN reported : reported[n].session = s}
<1>1. /\ of \cup {0} \in SUBSET Nat
      /\ Len(reported) \in Nat
      /\ of \cup {0} \subseteq 0..Len(reported)
  BY DEF TypeOK
<1>2. \A n \in of \cup {0} : n <= Len(reported)
  BY <1>1
<1> HIDE DEF of
<1>3. LET m == CHOOSE i \in of \cup {0} : \A j \in of \cup {0} : j <= i
      IN m \in of \cup {0} /\ \A j \in of \cup {0} : j <= m
  BY <1>1, <1>2, ChosenGreatest
<1>4. (CHOOSE n \in of \cup {0} : \A m \in of : m <= n) \in 0..Len(reported)
  <2>1. \E n \in of \cup {0} : \A m \in of : m <= n
    BY <1>3
  <2>2. (CHOOSE n \in of \cup {0} : \A m \in of : m <= n) \in of \cup {0}
    BY <2>1
  <2>3. QED
    BY <1>1, <2>2
<1>5. QED
  BY <1>4 DEF Answer, of

\* One execution changes, to something that fits.
LEMMA RunStep ==
  ASSUME TInv, NEW r \in Runs, NEW e \in Executions, run' = [run EXCEPT ![r] = e],
         Fits(e)', Len(screens') \in Nat, Len(screens) <= Len(screens'),
         screens \in Seq(Jobs), screens' \in Seq(Jobs),
         UNCHANGED reported
  PROVE  run' \in [Runs -> Executions] /\ RunsFit'
<1>1. run' \in [Runs -> Executions]
  BY DEF TInv, TypeOK
<1>2. ASSUME NEW q \in Runs
      PROVE  Fits(run[q])'
  <2>1. CASE q = r
    BY <2>1 DEF TInv, TypeOK
  <2>2. CASE q # r
    <3>1. run'[q] = run[q] /\ Fits(run[q])
      BY <2>2 DEF TInv, TypeOK, RunsFit
    <3>2. DOMAIN screens \subseteq DOMAIN screens'
      OBVIOUS
    <3>3. QED
      BY <3>1, <3>2 DEF Fits
  <2>3. QED
    BY <2>1, <2>2
<1>3. QED
  BY <1>1, <1>2 DEF RunsFit

LEMMA IdleFits == Idle \in Executions /\ Fits(Idle) /\ Fits(Idle)'
<1>1. NewRow \in Rows
  BY DEF NewRow, Rows, Statuses
<1>2. QED
  BY <1>1 DEF Idle, Executions, Fits

\* One screening job changes its state.
LEMMA ScreenStep ==
  ASSUME TInv, NEW j \in DOMAIN screens, NEW job \in Jobs, Waits(job),
         screens' = [screens EXCEPT ![j] = job], UNCHANGED inbox
  PROVE  /\ screens' \in Seq(Jobs) /\ Len(screens') = Len(screens)
         /\ screens \in Seq(Jobs) /\ Len(screens) \in Nat
         /\ JobsFit'
<1>1. screens \in Seq(Jobs) /\ Len(screens) \in Nat
  BY DEF TInv, TypeOK
<1>2. screens' \in Seq(Jobs) /\ Len(screens') = Len(screens) /\ DOMAIN screens' = DOMAIN screens
  BY <1>1
<1>3. \A k \in DOMAIN screens : Waits(screens[k])'
  BY <1>1 DEF TInv, JobsFit, Waits
<1>4. QED
  BY <1>1, <1>2, <1>3 DEF TInv, JobsFit, Waits

\* One webhook job changes its state.
LEMMA InboxStep ==
  ASSUME TInv, NEW n \in 1..MaxResults, NEW job \in Jobs, Waits(job),
         inbox' = [inbox EXCEPT ![n] = job], UNCHANGED screens
  PROVE  inbox' \in [1..MaxResults -> Jobs] /\ JobsFit'
BY DEF TInv, TypeOK, JobsFit, Waits

\* What becomes of a job.
LEMMA JobMoves ==
  ASSUME NEW job \in Jobs
  PROVE  /\ Done(job) \in Jobs /\ Waits(Done(job))
         /\ Parked(job) \in Jobs /\ Waits(Parked(job))
         /\ Failed(job) \in Jobs /\ Waits(Failed(job))
         /\ job.state = "queued" /\ Waits(job) => Claimed(job) \in Jobs /\ Waits(Claimed(job))
         /\ NewJob \in Jobs /\ Waits(NewJob)
<1> USE DEF Jobs, Waits
<1>1. MaxAttempts \in Nat /\ MaxAttempts > 0 /\ job.tries \in 0..MaxAttempts
  BY Bounds
<1>2. Done(job) \in Jobs /\ Waits(Done(job))
  BY DEF Done
<1>3. Parked(job) \in Jobs /\ Waits(Parked(job))
  BY DEF Parked
<1>4. Failed(job) \in Jobs /\ Waits(Failed(job))
  <2>1. CASE job.tries >= MaxAttempts
    BY <2>1 DEF Failed
  <2>2. CASE ~(job.tries >= MaxAttempts)
    BY <1>1, <2>2 DEF Failed
  <2>3. QED
    BY <2>1, <2>2
<1>5. ASSUME job.state = "queued", Waits(job)
      PROVE  Claimed(job) \in Jobs /\ Waits(Claimed(job))
  <2>1. job.tries + 1 \in 0..MaxAttempts
    BY <1>1, <1>5
  <2>2. QED
    BY <2>1 DEF Claimed
<1>6. NewJob \in Jobs /\ Waits(NewJob)
  BY <1>1 DEF NewJob
<1>7. QED
  BY <1>2, <1>3, <1>4, <1>5, <1>6

\* The job of an execution that asks the vendor changes its state, if it has one.
LEMMA InboxAfterStep ==
  ASSUME TInv, NEW r \in Runs, NEW job \in Jobs, Waits(job),
         inbox' = InboxAfter(r, job), UNCHANGED screens
  PROVE  inbox' \in [1..MaxResults -> Jobs] /\ JobsFit'
<1>1. CASE run[r].for = "event"
  BY <1>1, InboxStep DEF InboxAfter, TInv, RunsFit, Fits
<1>2. CASE run[r].for # "event"
  BY <1>2 DEF InboxAfter, TInv, TypeOK, JobsFit, Waits
<1>3. QED
  BY <1>1, <1>2

LEMMA InboxJobType ==
  ASSUME TInv, NEW r \in Runs
  PROVE  InboxJob(r) \in Jobs
BY JobMoves, Bounds DEF InboxJob, NewJob, Jobs, TInv, TypeOK, RunsFit, Fits

\* An execution begins on a job it has claimed, or on none.
LEMMA BeginFits ==
  ASSUME TInv, NEW task \in {"event", "sweep", "screening"}, NEW n \in Nat,
         NEW at \in {"asking", "searching"}, task = "screening" <=> at = "searching",
         task = "event" => n \in 1..MaxResults, task = "screening" => n \in DOMAIN screens'
  PROVE  LET e == [at |-> at, for |-> task, no |-> n, seen |-> row,
                   answer |-> None, found |-> None]
         IN e \in Executions /\ Fits(e)'
BY DEF TInv, TypeOK, Executions, Fits

LEMMA TInvInit == Init => TInv
<1> SUFFICES ASSUME Init PROVE TInv
  OBVIOUS
<1>1. Idle \in Executions /\ Fits(Idle)
  BY IdleFits
<1>2. [state |-> "none", tries |-> 0] \in Jobs
  BY Bounds DEF Jobs
<1>3. NewRow \in Rows
  BY DEF NewRow, Rows, Statuses
<1>4. TypeOK
  <2>1. run \in [Runs -> Executions] /\ inbox \in [1..MaxResults -> Jobs]
    BY <1>1, <1>2 DEF Init
  <2>2. 0 \in 0..MaxList /\ 1 \in Rulesets /\ 0 \in 0..CloseAfter
    BY Bounds DEF Rulesets
  <2>3. /\ decisions \in Seq(Decisions) /\ screens \in Seq(Jobs)
        /\ reported \in Seq([session : Sessions, status : Results])
    BY DEF Init
  <2>4. created \subseteq Sessions /\ forgotten \subseteq created /\ opening \subseteq created
    BY DEF Init
  <2>5. QED
    BY <1>3, <2>1, <2>2, <2>3, <2>4 DEF Init, TypeOK
<1>5. JobsFit
  BY DEF Init, JobsFit, Waits
<1>6. RunsFit
  BY <1>1 DEF Init, RunsFit
<1>7. QED
  BY <1>4, <1>5, <1>6 DEF TInv

\* A row whose status, session or result columns change stays a row.
LEMMA RowMoves ==
  ASSUME row \in Rows
  PROVE  /\ \A s \in Sessions, st \in Statuses :
              [row EXCEPT !.session = s, !.status = st] \in Rows
         /\ \A st \in Statuses : [row EXCEPT !.status = st] \in Rows
         /\ \A st \in Statuses, v \in Results \cup {"Not Started"}, t \in Nat :
              [row EXCEPT !.status = st, !.vendorStatus = v, !.resultAt = t] \in Rows
         /\ \A st \in Statuses, a \in Assessments \cup {None} :
              [row EXCEPT !.risk = a, !.status = st] \in Rows
BY DEF Rows

\* Steps that leave the row, the decisions and the executions alone.
LEMMA TypeAround ==
  ASSUME TInv,
         \/ \E s \in Sessions : CreateSession(s) \/ LoseSession(s) \/ Forget(s)
         \/ \E s \in Sessions, v \in Results : Report(s, v)
         \/ \E n \in 1..MaxResults : Deliver(n)
         \/ LoadList \/ DeployRuleset \/ HourPasses
  PROVE  TInv'
<1> USE DEF TInv, inside, outside
<1>1. ASSUME NEW s \in Sessions, CreateSession(s) \/ LoseSession(s) \/ Forget(s)
      PROVE  TInv'
  BY <1>1 DEF CreateSession, LoseSession, Forget, TypeOK, JobsFit, Waits, RunsFit, Fits
<1>2. ASSUME NEW s \in Sessions, NEW v \in Results, Report(s, v)
      PROVE  TInv'
  <2>1. reported' \in Seq([session : Sessions, status : Results])
        /\ Len(reported') = Len(reported) + 1 /\ Len(reported) \in Nat
    BY <1>2 DEF Report, TypeOK
  <2>2. TypeOK' /\ JobsFit'
    BY <1>2, <2>1 DEF Report, TypeOK, JobsFit, Waits
  <2>3. RunsFit'
    BY <1>2, <2>1 DEF Report, RunsFit, Fits
  <2>4. QED
    BY <2>2, <2>3
<1>3. ASSUME NEW n \in 1..MaxResults, Deliver(n)
      PROVE  TInv'
  <2>1. NewJob \in Jobs /\ Waits(NewJob)
    BY Bounds DEF NewJob, Jobs, Waits
  <2>2. inbox' \in [1..MaxResults -> Jobs] /\ JobsFit'
    BY <1>3, <2>1, InboxStep DEF Deliver
  <2>3. QED
    BY <1>3, <2>2 DEF Deliver, TypeOK, RunsFit, Fits
<1>4. CASE LoadList
  BY <1>4, Bounds DEF LoadList, TypeOK, JobsFit, Waits, RunsFit, Fits
<1>5. CASE DeployRuleset
  BY <1>5, Bounds DEF DeployRuleset, TypeOK, Rulesets, JobsFit, Waits, RunsFit, Fits
<1>6. CASE HourPasses
  BY <1>6 DEF HourPasses, TypeOK, JobsFit, Waits, RunsFit, Fits
<1>7. QED
  BY <1>1, <1>2, <1>3, <1>4, <1>5, <1>6

\* The applicant's session, the sweep's expiry, the humans and the reviewer.
LEMMA TypeDesk ==
  ASSUME TInv,
         \/ \E s \in Sessions : RecordSession(s)
         \/ Expire
         \/ \E o \in Verdicts : Decide(o)
         \/ ListForReview \/ Review \/ SkipReview
  PROVE  TInv'
<1> USE DEF TInv, outside
<1>row. row \in Rows
  BY DEF TypeOK
<1>status. row.status \in Statuses /\ {"submitted", "expired", "decided"} \subseteq Statuses
  BY <1>row DEF Rows, Statuses, OnTheWay, OffRamps
<1>decision. ASSUME NEW o \in Verdicts, NEW by \in {"officer", "reviewer"}, RecordDecision(o, by)
             PROVE  row' \in Rows /\ decisions' \in Seq(Decisions)
  <2>1. row.risk \in Assessments
    BY <1>row, <1>decision DEF RecordDecision, Scored, Rows
  <2>2. Decision(o, by, row.risk) \in Decisions
    BY <2>1 DEF Decision, Decisions, Verdicts
  <2>3. decisions' \in Seq(Decisions)
    BY <1>decision, <2>2 DEF RecordDecision, TypeOK
  <2>4. row' \in Rows
    BY <1>row, <1>status, <1>decision, RowMoves DEF RecordDecision
  <2>5. QED
    BY <2>3, <2>4
<1>1. ASSUME NEW s \in Sessions, RecordSession(s)
      PROVE  TInv'
  <2>1. row' \in Rows
    BY <1>row, <1>status, <1>1, RowMoves DEF RecordSession
  <2>2. QED
    BY <1>1, <2>1 DEF RecordSession, TypeOK, JobsFit, Waits, RunsFit, Fits
<1>2. CASE Expire
  <2>1. row' \in Rows
    BY <1>row, <1>status, <1>2, RowMoves DEF Expire
  <2>2. QED
    BY <1>2, <2>1 DEF Expire, TypeOK, JobsFit, Waits, RunsFit, Fits
<1>3. ASSUME NEW o \in Verdicts, Decide(o)
      PROVE  TInv'
  <2>1. row' \in Rows /\ decisions' \in Seq(Decisions)
    BY <1>decision, <1>3 DEF Decide
  <2>2. QED
    BY <1>3, <2>1 DEF Decide, TypeOK, JobsFit, Waits, RunsFit, Fits
<1>4. CASE ListForReview
  BY <1>4 DEF ListForReview, Verdicts, TypeOK, JobsFit, Waits, RunsFit, Fits
<1>5. CASE Review
  <2>1. pick \in Verdicts
    BY <1>5 DEF Review, TypeOK
  <2>2. row' \in Rows /\ decisions' \in Seq(Decisions)
    BY <1>decision, <1>5, <2>1 DEF Review
  <2>3. QED
    BY <1>5, <2>2 DEF Review, TypeOK, JobsFit, Waits, RunsFit, Fits
<1>6. CASE SkipReview
  BY <1>6 DEF SkipReview, TypeOK, JobsFit, Waits, RunsFit, Fits
<1>7. QED
  BY <1>1, <1>2, <1>3, <1>4, <1>5, <1>6

\* An execution ends: its job moves, and nothing else of it is left.
LEMMA FinishFits ==
  ASSUME TInv, NEW r \in Runs, Finish(r), screens' \in Seq(Jobs),
         Len(screens) <= Len(screens'), UNCHANGED reported
  PROVE  run' \in [Runs -> Executions] /\ RunsFit'
<1>1. Idle \in Executions /\ Fits(Idle)'
  BY IdleFits
<1>2. screens \in Seq(Jobs) /\ Len(screens') \in Nat
  BY DEF TInv, TypeOK
<1>3. QED
  BY <1>1, <1>2, RunStep DEF Finish

\* Executions that learn a result.
LEMMA TypeAsking ==
  ASSUME TInv, NEW r \in Runs,
         \/ \E n \in 1..MaxResults : LoadEvent(r, n)
         \/ LoadSweep(r) \/ Ask(r)
         \/ RefuseResult(r) \/ ParkEvent(r) \/ FailAsking(r) \/ RecordNotFound(r)
  PROVE  TInv'
<1> USE DEF TInv, outside
<1>screens. screens \in Seq(Jobs) /\ Len(screens) \in Nat
  BY DEF TypeOK
<1>same. screens' = screens => Len(screens) <= Len(screens') /\ Len(screens') \in Nat
  BY <1>screens
<1>job. LET job == InboxJob(r)
        IN /\ Done(job) \in Jobs /\ Waits(Done(job))
           /\ Parked(job) \in Jobs /\ Waits(Parked(job))
           /\ Failed(job) \in Jobs /\ Waits(Failed(job))
  BY InboxJobType, JobMoves
<1>1. ASSUME NEW n \in 1..MaxResults, LoadEvent(r, n)
      PROVE  TInv'
  <2>1. inbox[n] \in Jobs /\ Waits(inbox[n]) /\ n \in Nat
    BY Bounds DEF TypeOK, JobsFit
  <2>2. inbox' \in [1..MaxResults -> Jobs] /\ JobsFit'
    BY <1>1, <2>1, JobMoves, InboxStep DEF LoadEvent
  <2>3. run' \in [Runs -> Executions] /\ RunsFit'
    BY <1>screens, <1>same, <1>1, <2>1, BeginFits, RunStep DEF LoadEvent, Begin
  <2>4. QED
    BY <1>1, <2>2, <2>3 DEF LoadEvent, TypeOK
<1>2. CASE LoadSweep(r)
  <2>1. run' \in [Runs -> Executions] /\ RunsFit'
    BY <1>screens, <1>same, <1>2, BeginFits, RunStep DEF LoadSweep, Begin
  <2>2. QED
    BY <1>2, <2>1 DEF LoadSweep, TypeOK, JobsFit, Waits
<1>3. CASE Ask(r)
  <2> DEFINE s == IF run[r].for = "event" THEN reported[run[r].no].session
                  ELSE run[r].seen.session
             old == run[r]
  <2>1. PICK a \in Nat \cup {None} : a = Answer(s) /\ (a = None \/ a \in 0..Len(reported))
    <3>1. Answer(s) = None \/ Answer(s) \in 0..Len(reported)
      BY AnswerType
    <3>2. Answer(s) \in Nat \cup {None}
      BY <3>1 DEF TypeOK
    <3> HIDE DEF s
    <3>3. QED
      BY <3>1, <3>2
  <2>2. old \in Executions /\ Fits(old) /\ old.at = "asking"
    BY <1>3 DEF Ask, TypeOK, RunsFit
  <2>3. run' = [run EXCEPT ![r] = [old EXCEPT !.at = "applying", !.answer = a]]
    BY <1>3, <2>1 DEF Ask, TypeOK
  <2> HIDE DEF old
  <2>4. PICK e \in Executions : e = [old EXCEPT !.at = "applying", !.answer = a]
    BY <2>1, <2>2 DEF Executions
  <2>5. /\ e.for = old.for /\ e.no = old.no /\ e.at = "applying"
        /\ e.answer = a /\ e.found = old.found
    BY <2>2, <2>4 DEF Executions
  <2>6. Fits(e)'
    <3>1. UNCHANGED <<screens, reported>>
      BY <1>3 DEF Ask
    <3>2. QED
      BY <2>1, <2>2, <2>5, <3>1 DEF Fits
  <2>7. run' \in [Runs -> Executions] /\ RunsFit'
    BY <1>screens, <1>same, <1>3, <2>3, <2>4, <2>6, RunStep DEF Ask
  <2>8. QED
    BY <1>3, <2>7 DEF Ask, TypeOK, JobsFit, Waits
<1>4. CASE RefuseResult(r)
  <2>1. inbox' \in [1..MaxResults -> Jobs] /\ JobsFit'
    BY <1>job, <1>4, InboxAfterStep DEF RefuseResult
  <2>2. run' \in [Runs -> Executions] /\ RunsFit'
    BY <1>screens, <1>same, <1>4, FinishFits DEF RefuseResult
  <2>3. QED
    BY <1>4, <2>1, <2>2 DEF RefuseResult, TypeOK
<1>5. CASE ParkEvent(r)
  <2>1. inbox' \in [1..MaxResults -> Jobs] /\ JobsFit'
    BY <1>job, <1>5, InboxAfterStep DEF ParkEvent
  <2>2. run' \in [Runs -> Executions] /\ RunsFit'
    BY <1>screens, <1>same, <1>5, FinishFits DEF ParkEvent
  <2>3. QED
    BY <1>5, <2>1, <2>2 DEF ParkEvent, TypeOK
<1>6. CASE FailAsking(r)
  <2>1. inbox' \in [1..MaxResults -> Jobs] /\ JobsFit'
    BY <1>job, <1>6, InboxAfterStep DEF FailAsking
  <2>2. run' \in [Runs -> Executions] /\ RunsFit'
    BY <1>screens, <1>same, <1>6, FinishFits DEF FailAsking
  <2>3. QED
    BY <1>6, <2>1, <2>2 DEF FailAsking, TypeOK
<1>7. CASE RecordNotFound(r)
  <2>1. run' \in [Runs -> Executions] /\ RunsFit'
    BY <1>screens, <1>same, <1>7, FinishFits DEF RecordNotFound
  <2>2. row' \in Rows
    <3>1. row \in Rows /\ "verification_unavailable" \in Statuses
      BY DEF TypeOK, Statuses, OffRamps
    <3>2. QED
      BY <1>7, <3>1, RowMoves DEF RecordNotFound
  <2>3. missing' \in 0..CloseAfter
    <3>1. missing \in 0..CloseAfter /\ missing' = IF missing < CloseAfter THEN missing + 1 ELSE missing
      BY <1>7 DEF RecordNotFound, TypeOK
    <3>2. QED
      BY <3>1, Bounds
  <2>4. QED
    BY <1>7, <2>1, <2>2, <2>3 DEF RecordNotFound, TypeOK, JobsFit, Waits
<1>8. QED
  BY <1>1, <1>2, <1>3, <1>4, <1>5, <1>6, <1>7

\* The vendor status of an answer is one that was reported, or "Not Started".
LEMMA StatusType ==
  ASSUME TInv, NEW n \in 0..Len(reported)
  PROVE  StatusAt(n) \in Results \cup {"Not Started"}
<1>1. CASE n = 0
  BY <1>1 DEF StatusAt
<1>2. CASE n # 0
  <2> DEFINE S == [session : Sessions, status : Results]
  <2>1. n \in DOMAIN reported /\ reported \in Seq(S)
    BY <1>2 DEF TInv, TypeOK
  <2> HIDE DEF S
  <2>2. reported[n] \in S
    BY <2>1
  <2>3. StatusAt(n) = reported[n].status
    BY <1>2 DEF StatusAt
  <2>4. QED
    BY <2>2, <2>3 DEF S
<1>3. QED
  BY <1>1, <1>2

LEMMA TargetType ==
  ASSUME NEW v \in DOMAIN TargetOf
  PROVE  TargetOf[v] \in {"submitted", "checking", "screening"}
BY DEF TargetOf

\* A result is written.
LEMMA TypeApply ==
  ASSUME TInv, NEW r \in Runs, ApplyResult(r)
  PROVE  TInv'
<1> DEFINE n == run[r].answer
           v == StatusAt(run[r].answer)
<1> USE DEF TInv, outside
<1>1. n \in 0..Len(reported) /\ n \in Nat /\ Len(reported) \in Nat
  BY DEF ApplyResult, Answered, RunsFit, Fits, TypeOK
<1>2. v \in Results \cup {"Not Started"} /\ v \in DOMAIN TargetOf
  BY <1>1, StatusType DEF ApplyResult, Changes, Applies
<1>3. TargetOf[v] \in Statuses
  BY <1>2, TargetType DEF Statuses, OnTheWay
<1>4. TimeOf(r) \in Nat
  BY <1>1 DEF TimeOf, TypeOK, Executions
<1>5. row' \in Rows
  <2>1. row \in Rows /\ row.resultAt \in Nat
    BY DEF TypeOK, Rows
  <2>2. PICK t \in Nat : t = IF TimeOf(r) > row.resultAt THEN TimeOf(r) ELSE row.resultAt
    BY <1>4, <2>1
  <2>3. row' = [row EXCEPT !.status = TargetOf[v], !.vendorStatus = v, !.resultAt = t]
    BY <2>1, <2>2 DEF ApplyResult
  <2> HIDE DEF v
  <2>4. QED
    BY <1>2, <1>3, <2>1, <2>2, <2>3, RowMoves
<1>6. /\ screens' \in Seq(Jobs) /\ Len(screens') \in Nat /\ Len(screens) <= Len(screens')
      /\ \A j \in DOMAIN screens' : Waits(screens'[j])
  <2>1. NewJob \in Jobs /\ Waits(NewJob)
    BY Bounds DEF NewJob, Jobs, Waits
  <2>2. screens' = screens \/ screens' = Append(screens, NewJob)
    BY DEF ApplyResult, ScreensAfter
  <2>3. screens \in Seq(Jobs) /\ Len(screens) \in Nat /\ \A j \in DOMAIN screens : Waits(screens[j])
    BY DEF TypeOK, JobsFit
  <2>4. CASE screens' = screens
    BY <2>3, <2>4 DEF Waits
  <2>5. CASE screens' = Append(screens, NewJob)
    <3>1. screens' \in Seq(Jobs) /\ Len(screens') = Len(screens) + 1
      BY <2>1, <2>3, <2>5
    <3>2. ASSUME NEW j \in DOMAIN screens'
          PROVE  screens'[j] = NewJob \/ (j \in DOMAIN screens /\ screens'[j] = screens[j])
      BY <2>1, <2>3, <2>5
    <3>3. QED
      BY <2>1, <2>3, <3>1, <3>2 DEF Waits
  <2>6. QED
    BY <2>2, <2>4, <2>5
<1>7. inbox' \in [1..MaxResults -> Jobs] /\ \A m \in 1..MaxResults : Waits(inbox'[m])
  <2>1. PICK job \in Jobs : job = Done(InboxJob(r)) /\ Waits(job)
    BY InboxJobType, JobMoves
  <2>2. inbox' = inbox \/ \E m \in 1..MaxResults : inbox' = [inbox EXCEPT ![m] = job]
    BY <2>1 DEF ApplyResult, InboxAfter, RunsFit, Fits
  <2>3. QED
    BY <2>1, <2>2 DEF TypeOK, JobsFit
<1>8. run' \in [Runs -> Executions] /\ RunsFit'
  BY <1>6, FinishFits DEF ApplyResult
<1>9. QED
  BY <1>1, <1>5, <1>6, <1>7, <1>8 DEF ApplyResult, TypeOK, JobsFit, Waits

\* An execution that stores has found something the screening knows, and what it adds to
\* the matches are hits.
FoundHow(r) == <<run[r].seen.vendorStatus, run[r].found.list, run[r].found.ruleset>>

LEMMA MatchesStep ==
  ASSUME TInv, NEW r \in Runs, run[r].at = "storing"
  PROVE  /\ FoundHow(r) \in DOMAIN Finding
         /\ HitsOf(r) \subseteq Hits
         /\ MatchesWith(r) \subseteq Matches
<1>1. run[r] \in Executions /\ run[r].found \in Assessments
  BY DEF TInv, TypeOK, RunsFit, Fits
<1>2. run[r].seen \in Rows
  BY <1>1 DEF Executions
<1>3. /\ run[r].seen.vendorStatus \in Results \cup {None, "Not Started"}
      /\ run[r].found.list \in Lists /\ run[r].found.ruleset \in Rulesets
  BY <1>1, <1>2 DEF Rows, Assessments
<1>4. DOMAIN Finding = (Results \cup {None, "Not Started"}) \X Lists \X Rulesets
  BY CaseFileAssumption
<1>5. FoundHow(r) \in DOMAIN Finding
  BY <1>3, <1>4 DEF FoundHow
<1>6. HitsOf(r) \subseteq Hits
  BY <1>5, CaseFileAssumption DEF HitsOf, FoundHow
<1>7. MatchesWith(r) \subseteq Matches
  <2>1. matches \subseteq Matches
    BY DEF TInv, TypeOK
  <2>2. \A hit \in Hits : [hit |-> hit, list |-> run[r].found.list] \in Matches
    BY <1>3 DEF Matches
  <2> DEFINE new == {hit \in HitsOf(r) : \A m \in matches : m.hit.entity # hit.entity}
  <2>3. new \subseteq Hits
    BY <1>6
  <2>4. MatchesWith(r) = matches \cup FoundNow(r, new)
    BY DEF MatchesWith
  <2> HIDE DEF new
  <2>5. FoundNow(r, new) \subseteq Matches
    BY <2>2, <2>3 DEF FoundNow
  <2>6. QED
    BY <2>1, <2>4, <2>5
<1>8. QED
  BY <1>5, <1>6, <1>7

\* Executions of screening.run.
LEMMA TypeScreening ==
  ASSUME TInv, NEW r \in Runs,
         \/ \E j \in DOMAIN screens : LoadScreening(r, j)
         \/ SkipScreening(r) \/ ParkScreening(r) \/ Search(r)
         \/ StoreScreening(r) \/ FailScreening(r)
  PROVE  TInv'
<1> USE DEF TInv, outside
<1> DEFINE old == run[r]
<1>own. ASSUME old.at \in {"searching", "storing"}
        PROVE  /\ old.no \in DOMAIN screens
               /\ LET job == screens[old.no]
                  IN /\ Done(job) \in Jobs /\ Waits(Done(job))
                     /\ Parked(job) \in Jobs /\ Waits(Parked(job))
                     /\ Failed(job) \in Jobs /\ Waits(Failed(job))
  <2>1. old.no \in DOMAIN screens
    BY <1>own DEF RunsFit, Fits
  <2>2. screens[old.no] \in Jobs
    BY <2>1 DEF TypeOK
  <2>3. QED
    BY <2>1, <2>2, JobMoves
<1>end. ASSUME NEW job \in Jobs, Waits(job), old.at \in {"searching", "storing"},
               screens' = ScreensWith(r, job), Finish(r), UNCHANGED <<inbox, reported>>
        PROVE  /\ screens' \in Seq(Jobs) /\ JobsFit'
               /\ run' \in [Runs -> Executions] /\ RunsFit'
  <2>1. /\ screens' \in Seq(Jobs) /\ Len(screens') = Len(screens)
        /\ screens \in Seq(Jobs) /\ Len(screens) \in Nat /\ JobsFit'
    BY <1>end, <1>own, ScreenStep DEF ScreensWith
  <2>2. QED
    BY <1>end, <2>1, FinishFits
<1>1. ASSUME NEW j \in DOMAIN screens, LoadScreening(r, j)
      PROVE  TInv'
  <2>1. screens[j] \in Jobs /\ Waits(screens[j]) /\ j \in Nat
    BY DEF TypeOK, JobsFit
  <2>2. /\ screens' \in Seq(Jobs) /\ Len(screens') = Len(screens)
        /\ screens \in Seq(Jobs) /\ Len(screens) \in Nat /\ JobsFit'
    BY <1>1, <2>1, JobMoves, ScreenStep DEF LoadScreening
  <2>3. j \in DOMAIN screens' /\ Len(screens) <= Len(screens') /\ Len(screens') \in Nat
    BY <2>2
  <2>4. run' \in [Runs -> Executions] /\ RunsFit'
    BY <1>1, <2>1, <2>2, <2>3, BeginFits, RunStep DEF LoadScreening, Begin
  <2>5. QED
    BY <1>1, <2>2, <2>4 DEF LoadScreening, TypeOK
<1>2. CASE SkipScreening(r)
  BY <1>own, <1>end, <1>2 DEF SkipScreening, TypeOK
<1>3. CASE ParkScreening(r)
  BY <1>own, <1>end, <1>3 DEF ParkScreening, TypeOK
<1>4. CASE FailScreening(r)
  BY <1>own, <1>end, <1>4 DEF FailScreening, TypeOK
<1>5. CASE Search(r)
  <2>1. old \in Executions /\ Fits(old) /\ old.seen \in Rows /\ old.seen.status = "screening"
    BY <1>5 DEF Search, TypeOK, RunsFit, Executions
  <2>2. <<old.seen.vendorStatus, list, ruleset>>
          \in (Results \cup {None, "Not Started"}) \X Lists \X Rulesets
    <3>1. old.seen.vendorStatus \in Results \cup {None, "Not Started"}
      BY <2>1 DEF Rows
    <3>2. list \in Lists /\ ruleset \in Rulesets
      BY <1>5, Bounds DEF Search, TypeOK, Lists
    <3>3. QED
      BY <3>1, <3>2
  <2>3. PICK f \in Assessments :
          f = [finding |-> Finding[<<old.seen.vendorStatus, list, ruleset>>], ruleset |-> ruleset,
               list |-> list]
    BY <2>2, CaseFileAssumption DEF Assessments, TypeOK
  <2>4. run' = [run EXCEPT ![r] = [old EXCEPT !.at = "storing", !.found = f]]
    BY <1>5, <2>3 DEF Search, TypeOK
  <2> HIDE DEF old
  <2>5. PICK e \in Executions : e = [old EXCEPT !.at = "storing", !.found = f]
    BY <2>1, <2>3 DEF Executions
  <2>6. /\ e.for = old.for /\ e.no = old.no /\ e.at = "storing"
        /\ e.answer = old.answer /\ e.found = f /\ e.seen = old.seen
    BY <2>1, <2>5 DEF Executions
  <2>7. Fits(e)'
    <3>1. UNCHANGED <<screens, reported>> /\ old.at = "searching"
      BY <1>5 DEF Search, old
    <3>2. QED
      BY <2>1, <2>3, <2>6, <3>1 DEF Fits
  <2>8. run' \in [Runs -> Executions] /\ RunsFit'
    <3>1. screens' = screens /\ screens \in Seq(Jobs) /\ Len(screens) \in Nat
      BY <1>5 DEF Search, TypeOK
    <3>2. Len(screens') \in Nat /\ Len(screens) <= Len(screens') /\ screens' \in Seq(Jobs)
      BY <3>1
    <3>3. run' = [run EXCEPT ![r] = e] /\ UNCHANGED reported
      BY <1>5, <2>4, <2>5 DEF Search
    <3>4. QED
      BY <2>7, <3>1, <3>2, <3>3, RunStep
  <2>9. QED
    BY <1>5, <2>8 DEF Search, TypeOK, JobsFit, Waits
<1>6. CASE StoreScreening(r)
  <2> DEFINE found == run[r].found
             route == Routing[run[r].found.finding]
  <2>1. found \in Assessments /\ route \in {"approve", "review", "reject"}
    BY <1>6, CaseFileAssumption DEF StoreScreening, RunsFit, Fits, Assessments
  <2>2. OutcomeOf(route) \in Verdicts \cup {"referred"}
    BY <2>1 DEF OutcomeOf, Verdicts
  <2>3. Decision(OutcomeOf(route), "system", found) \in Decisions
    BY <2>1, <2>2 DEF Decision, Decisions
  <2>4. decisions' \in Seq(Decisions)
    <3>1. PICK d \in Decisions : d = Decision(OutcomeOf(route), "system", found)
      BY <2>3
    <3>2. decisions' = decisions \/ decisions' = Append(decisions, d)
      BY <1>6, <3>1 DEF StoreScreening
    <3>3. decisions \in Seq(Decisions)
      BY DEF TypeOK
    <3>4. QED
      BY <3>2, <3>3
  <2>5. row' \in Rows
    <3>1. row \in Rows /\ row.risk \in Assessments \cup {None} /\ row.status \in Statuses
          /\ "decided" \in Statuses
      BY DEF TypeOK, Rows, Statuses
    <3>2. PICK a \in Assessments \cup {None}, st \in Statuses :
            row' = [row EXCEPT !.risk = a, !.status = st]
      BY <1>6, <2>1, <3>1 DEF StoreScreening
    <3>3. QED
      BY <3>1, <3>2, RowMoves
  <2>6. matches' \subseteq Matches
    BY <1>6, MatchesStep DEF StoreScreening
  <2>7. QED
    BY <1>own, <1>end, <1>6, <2>4, <2>5, <2>6 DEF StoreScreening, TypeOK
<1>7. QED
  BY <1>1, <1>2, <1>3, <1>4, <1>5, <1>6

LEMMA TInvNext == TInv /\ [Next]_vars => TInv'
<1> SUFFICES ASSUME TInv, [Next]_vars PROVE TInv'
  OBVIOUS
<1>1. CASE Web
  BY <1>1, TypeAround, TypeDesk DEF Web
<1>2. ASSUME NEW r \in Runs, Worker(r)
      PROVE  TInv'
  BY <1>2, TypeAsking, TypeApply, TypeScreening DEF Worker
<1>3. CASE Expire
  BY <1>3, TypeDesk
<1>4. CASE World
  BY <1>4, TypeAround DEF World
<1>5. CASE UNCHANGED vars
  BY <1>5 DEF vars, TInv, TypeOK, JobsFit, Waits, RunsFit, Fits
<1>6. QED
  BY <1>1, <1>2, <1>3, <1>4, <1>5 DEF Next

LEMMA Typed == Spec => []TInv
BY TInvInit, TInvNext, PTL DEF Spec

\* The case keeps its type.
THEOREM TypeCorrect == Spec => []TypeOK
<1>1. TInv => TypeOK
  BY DEF TInv
<1>2. QED
  BY <1>1, Typed, PTL
-----------------------------------------------------------------------------
(* The case.  A scored case was routed by its score in the same step, so   *)
(* that a case which is scored again with the same finding has nothing     *)
(* left to record; and what an execution has read is what the row shows    *)
(* still, once there is a score, or once it was in screening.              *)

Final == {"screening", "decided"}

ScoredIsRouted ==
  /\ row.risk # None <=> decisions # <<>>
  /\ row.risk # None =>
       /\ row.status \in Final
       /\ Routing[row.risk.finding] = "review" => Recorded({"referred"})
       /\ Routing[row.risk.finding] # "review" => Recorded(Verdicts)

\* What the reviewer has chosen fits the score, which does not change any more.
PickFits ==
  pick # None =>
    /\ seeded /\ row.risk # None
    /\ pick = "rejected" <=> Score[row.risk.finding] >= RejectsFrom

ReadsAreOld ==
  \A r \in Runs :
    /\ run[r].seen.risk # None => run[r].seen.risk = row.risk
    /\ run[r].seen.status = "screening" => row.status \in Final

\* A screening execution has its running job for itself.
JobsHeld ==
  \A r \in Runs :
    run[r].for = "screening" =>
      /\ screens[run[r].no].state = "running"
      /\ \A q \in Runs \ {r} : run[q].for = "screening" => run[q].no # run[r].no

\* A case in screening is referred, or has a job that is not taken yet, or is being
\* screened by an execution that read it in screening.
RowsKept ==
  row.status = "screening" =>
    \/ Recorded({"referred"})
    \/ \E j \in DOMAIN screens : screens[j].state \in {"queued", "parked"}
    \/ \E r \in Runs : run[r].for = "screening" /\ run[r].seen.status = "screening"

Record == ScoredIsRouted /\ EvidenceFrozen /\ DecidedByOneVerdict /\ ReviewFitsScore /\ PickFits

CInv == Record /\ ReadsAreOld /\ JobsHeld /\ RowsKept

LEMMA CInvInit == Init => CInv
<1> SUFFICES ASSUME Init PROVE CInv
  OBVIOUS
<1>1. row.risk = None /\ row.status = "started" /\ decisions = <<>> /\ pick = None
  BY DEF Init, NewRow
<1>2. ~Recorded(Verdicts)
  BY <1>1 DEF Recorded
<1>3. Record
  BY <1>1, <1>2 DEF Record, ScoredIsRouted, EvidenceFrozen, DecidedByOneVerdict,
                    ReviewFitsScore, PickFits
<1>4. \A r \in Runs : run[r].for = "nothing" /\ run[r].seen = NewRow
  BY DEF Init, Idle
<1>5. ReadsAreOld /\ JobsHeld /\ RowsKept
  BY <1>1, <1>4 DEF ReadsAreOld, JobsHeld, RowsKept, NewRow
<1>6. QED
  BY <1>3, <1>5 DEF CInv

\* What is recorded after one more decision.
LEMMA RecordedAppend ==
  ASSUME TypeOK, NEW d \in Decisions, decisions' = Append(decisions, d), NEW O
  PROVE  Recorded(O)' <=> Recorded(O) \/ d.outcome \in O
<1>1. /\ Len(decisions) \in Nat /\ DOMAIN decisions = 1..Len(decisions)
      /\ DOMAIN decisions' = 1..(Len(decisions) + 1)
      /\ decisions'[Len(decisions) + 1] = d
      /\ \A i \in DOMAIN decisions : decisions'[i] = decisions[i]
  BY DEF TypeOK
<1>2. ASSUME Recorded(O) \/ d.outcome \in O
      PROVE  Recorded(O)'
  BY <1>1, <1>2 DEF Recorded
<1>3. ASSUME Recorded(O)'
      PROVE  Recorded(O) \/ d.outcome \in O
  <2>1. PICK i \in DOMAIN decisions' : decisions'[i].outcome \in O
    BY <1>3 DEF Recorded
  <2>2. i \in DOMAIN decisions \/ i = Len(decisions) + 1
    BY <1>1, <2>1
  <2>3. QED
    BY <1>1, <2>1, <2>2 DEF Recorded
<1>4. QED
  BY <1>2, <1>3

\* One more decision, on the score the row shows; a verdict only if there is none yet.
LEMMA DecisionStep ==
  ASSUME TypeOK, EvidenceFrozen, DecidedByOneVerdict, ReviewFitsScore,
         NEW d \in Decisions, decisions' = Append(decisions, d),
         d.risk = row'.risk, decisions = <<>> \/ row'.risk = row.risk,
         d.outcome \in Verdicts => ~Recorded(Verdicts) /\ row'.status = "decided",
         d.outcome \notin Verdicts => row'.status = row.status,
         d.by = "reviewer" => seeded /\ (d.outcome = "rejected"
                                         <=> Score[d.risk.finding] >= RejectsFrom),
         UNCHANGED seeded
  PROVE  EvidenceFrozen' /\ DecidedByOneVerdict' /\ ReviewFitsScore'
<1>1. /\ Len(decisions) \in Nat /\ DOMAIN decisions = 1..Len(decisions)
      /\ DOMAIN decisions' = 1..(Len(decisions) + 1)
      /\ decisions'[Len(decisions) + 1] = d
      /\ \A i \in DOMAIN decisions : decisions'[i] = decisions[i]
  BY DEF TypeOK
<1>2. \A i \in DOMAIN decisions' : i \in DOMAIN decisions \/ i = Len(decisions) + 1
  BY <1>1
<1>3. EvidenceFrozen'
  BY <1>1, <1>2 DEF EvidenceFrozen
<1>4. ReviewFitsScore'
  BY <1>1, <1>2 DEF ReviewFitsScore
<1>5. DecidedByOneVerdict'
  <2>1. \A i, j \in DOMAIN decisions' :
          decisions'[i].outcome \in Verdicts /\ decisions'[j].outcome \in Verdicts => i = j
    BY <1>1, <1>2 DEF DecidedByOneVerdict, Recorded
  <2>2. row.status = "decided" <=> Recorded(Verdicts)
    BY DEF DecidedByOneVerdict, Recorded
  <2>3. Recorded(Verdicts)' <=> Recorded(Verdicts) \/ d.outcome \in Verdicts
    BY RecordedAppend
  <2>4. row'.status = "decided" <=> Recorded(Verdicts)'
    BY <2>2, <2>3
  <2>5. QED
    BY <2>1, <2>4 DEF DecidedByOneVerdict, Recorded
<1>6. QED
  BY <1>3, <1>4, <1>5

\* The status moves, before there is a score.
LEMMA StatusStep ==
  ASSUME Record, row'.risk = row.risk,
         row'.status = row.status \/ (row.status \notin Final /\ row'.status # "decided"),
         UNCHANGED <<decisions, seeded, pick>>
  PROVE  /\ Record'
         /\ row.risk # None => row'.risk = row.risk
         /\ row.status \in Final => row'.status \in Final
<1> USE DEF Record
<1>1. ScoredIsRouted' /\ PickFits'
  BY DEF ScoredIsRouted, PickFits, Recorded, Final
<1>2. EvidenceFrozen' /\ ReviewFitsScore'
  BY DEF EvidenceFrozen, ReviewFitsScore
<1>3. DecidedByOneVerdict'
  BY DEF DecidedByOneVerdict, Final
<1>4. QED
  BY <1>1, <1>2, <1>3

\* Executions that read nothing, or read the row as it is, see what is still so.
LEMMA ReadsStep ==
  ASSUME ReadsAreOld,
         row.risk # None => row'.risk = row.risk,
         row.status \in Final => row'.status \in Final,
         \A r \in Runs : run'[r].seen \in {run[r].seen, row, NewRow}
  PROVE  ReadsAreOld'
BY DEF ReadsAreOld, NewRow, Final

\* Executions that are not screenings come and go, and screening jobs are added.
LEMMA OtherRunsStep ==
  ASSUME TInv, JobsHeld, NEW r \in Runs, run[r].for # "screening", run'[r].for # "screening",
         \A q \in Runs \ {r} : run'[q] = run[q],
         screens' = screens \/ screens' = Append(screens, NewJob)
  PROVE  /\ JobsHeld'
         /\ RowsKept /\ Recorded({"referred"})' = Recorded({"referred"})
              /\ (row'.status = "screening" => row.status = "screening") => RowsKept'
         /\ screens' = Append(screens, NewJob) => RowsKept'
<1>1. /\ \A j \in DOMAIN screens : j \in DOMAIN screens' /\ screens'[j] = screens[j]
      /\ screens' = Append(screens, NewJob) =>
           /\ Len(screens) + 1 \in DOMAIN screens'
           /\ screens'[Len(screens) + 1].state = "queued"
  <2>1. screens \in Seq(Jobs) /\ Len(screens) \in Nat
    BY DEF TInv, TypeOK
  <2>2. PICK job : job = NewJob /\ job.state = "queued"
    BY DEF NewJob
  <2>3. screens' = screens \/ screens' = Append(screens, job)
    BY <2>2
  <2>4. ASSUME screens' = Append(screens, job)
        PROVE  /\ Len(screens) + 1 \in DOMAIN screens'
               /\ screens'[Len(screens) + 1] = job
               /\ \A j \in DOMAIN screens : j \in DOMAIN screens' /\ screens'[j] = screens[j]
    BY <2>1, <2>4
  <2>5. QED
    BY <2>2, <2>3, <2>4
<1>2. \A q \in Runs : run[q].for = "screening" => run[q].no \in DOMAIN screens
  BY DEF TInv, RunsFit, Fits
<1>3. \A q \in Runs : run'[q].for = "screening" => q # r /\ run'[q] = run[q]
  OBVIOUS
<1>4. JobsHeld'
  BY <1>1, <1>2, <1>3 DEF JobsHeld
<1>5. ASSUME RowsKept, Recorded({"referred"})' = Recorded({"referred"}),
             row'.status = "screening" => row.status = "screening"
      PROVE  RowsKept'
  <2> SUFFICES ASSUME row'.status = "screening", ~Recorded({"referred"})'
               PROVE  \/ \E j \in DOMAIN screens' : screens'[j].state \in {"queued", "parked"}
                      \/ \E q \in Runs : run'[q].for = "screening"
                                       /\ run'[q].seen.status = "screening"
    BY DEF RowsKept
  <2>1. CASE \E j \in DOMAIN screens : screens[j].state \in {"queued", "parked"}
    BY <1>1, <2>1
  <2>2. CASE \E q \in Runs : run[q].for = "screening" /\ run[q].seen.status = "screening"
    <3>1. PICK q \in Runs : run[q].for = "screening" /\ run[q].seen.status = "screening"
      BY <2>2
    <3>2. run'[q] = run[q]
      BY <3>1
    <3>3. QED
      BY <3>1, <3>2
  <2>3. QED
    BY <1>5, <2>1, <2>2 DEF RowsKept
<1>6. ASSUME screens' = Append(screens, NewJob)
      PROVE  RowsKept'
  BY <1>1, <1>6 DEF RowsKept
<1>7. QED
  BY <1>4, <1>5, <1>6

\* Steps that leave the case's record and its screenings alone.
LEMMA CaseRests ==
  ASSUME CInv, UNCHANGED <<row, decisions, seeded, pick, run, screens>>
  PROVE  CInv'
BY DEF CInv, Record, ScoredIsRouted, EvidenceFrozen, DecidedByOneVerdict, ReviewFitsScore,
       PickFits, ReadsAreOld, JobsHeld, RowsKept, Recorded

\* Steps of executions that learn a result and write nothing of the case.
LEMMA CaseAsking ==
  ASSUME TInv, CInv, NEW r \in Runs,
         \/ \E n \in 1..MaxResults : LoadEvent(r, n)
         \/ LoadSweep(r) \/ Ask(r)
         \/ RefuseResult(r) \/ ParkEvent(r) \/ FailAsking(r)
  PROVE  CInv'
<1>1. UNCHANGED <<row, decisions, seeded, pick, screens>>
  BY DEF LoadEvent, LoadSweep, Ask, RefuseResult, ParkEvent, FailAsking, outside
<1>2. /\ run[r].for # "screening" /\ run'[r].for # "screening"
      /\ \A q \in Runs \ {r} : run'[q] = run[q]
      /\ run'[r].seen \in {run[r].seen, row, NewRow}
  BY DEF LoadEvent, LoadSweep, Ask, RefuseResult, ParkEvent, FailAsking, Answered,
         Begin, Finish, Idle, TInv, TypeOK, RunsFit, Fits, Executions
<1>3. Record'
  BY <1>1, StatusStep DEF CInv
<1>4. ReadsAreOld'
  BY <1>1, <1>2, ReadsStep DEF CInv
<1>5. Recorded({"referred"})' = Recorded({"referred"})
  BY <1>1 DEF Recorded
<1>6. JobsHeld' /\ RowsKept'
  BY <1>1, <1>2, <1>5, OtherRunsStep DEF CInv
<1>7. QED
  BY <1>3, <1>4, <1>6 DEF CInv

\* A result is written, or a case the vendor does not know is closed.
LEMMA CaseMoves ==
  ASSUME TInv, CInv, NEW r \in Runs, ApplyResult(r) \/ RecordNotFound(r)
  PROVE  CInv'
<1>1. /\ UNCHANGED <<decisions, seeded, pick>> /\ row'.risk = row.risk
      /\ row'.status = row.status \/ (row.status \notin Final /\ row'.status # "decided")
      /\ screens' = screens \/ screens' = Append(screens, NewJob)
      /\ screens' = screens => (row'.status = "screening" => row.status = "screening")
  <2>1. CASE ApplyResult(r)
    <3> DEFINE st == TargetOf[StatusAt(run[r].answer)]
    <3>1. st \in {"submitted", "checking", "screening"} /\ Permits(st)
      BY <2>1, TargetType DEF ApplyResult, Changes, Applies
    <3>2. row'.status = st /\ row'.risk = row.risk
      BY <2>1 DEF ApplyResult, TInv, TypeOK, Rows
    <3>3. screens' = IF st = "screening" THEN Append(screens, NewJob) ELSE screens
      BY <2>1 DEF ApplyResult, ScreensAfter
    <3>4. UNCHANGED <<decisions, seeded, pick>>
      BY <2>1 DEF ApplyResult, outside
    <3> HIDE DEF st
    <3>5. st = row.status \/ row.status \notin Final
      BY <3>1 DEF Permits, Transitions, Final
    <3>6. QED
      BY <3>1, <3>2, <3>3, <3>4, <3>5
  <2>2. CASE RecordNotFound(r)
    BY <2>2 DEF RecordNotFound, outside, OnTheWay, Final, TInv, TypeOK, Rows
  <2>3. QED
    BY <2>1, <2>2
<1>2. /\ run[r].for # "screening" /\ run'[r].for # "screening"
      /\ \A q \in Runs \ {r} : run'[q] = run[q]
      /\ run'[r].seen = NewRow
  BY DEF ApplyResult, RecordNotFound, Answered, Finish, Idle, TInv, TypeOK, RunsFit, Fits
<1>3. /\ Record'
      /\ row.risk # None => row'.risk = row.risk
      /\ row.status \in Final => row'.status \in Final
  BY <1>1, StatusStep DEF CInv
<1>4. ReadsAreOld'
  BY <1>2, <1>3, ReadsStep DEF CInv
<1>5. Recorded({"referred"})' = Recorded({"referred"})
  BY <1>1 DEF Recorded
<1>6. JobsHeld' /\ RowsKept'
  BY <1>1, <1>2, <1>5, OtherRunsStep DEF CInv
<1>7. QED
  BY <1>3, <1>4, <1>6 DEF CInv

\* A session is recorded, or the window has passed.
LEMMA CaseBegins ==
  ASSUME TInv, CInv, (\E s \in Sessions : RecordSession(s)) \/ Expire
  PROVE  CInv'
<1>1. /\ UNCHANGED <<decisions, seeded, pick, run, screens>> /\ row'.risk = row.risk
      /\ row'.status = row.status \/ (row.status \notin Final /\ row'.status \notin Final)
  <2>1. row.status = "started" => row.status \notin Final
    BY DEF Final
  <2>2. ASSUME NEW s \in Sessions, RecordSession(s)
        PROVE  row'.risk = row.risk /\ row'.status = IF row.status = "started" THEN "submitted"
                                                     ELSE row.status
    BY <2>2 DEF RecordSession, TInv, TypeOK, Rows
  <2>3. QED
    BY <2>1, <2>2 DEF RecordSession, Expire, outside, Final, TInv, TypeOK, Rows
<1>2. /\ Record'
      /\ row.risk # None => row'.risk = row.risk
      /\ row.status \in Final => row'.status \in Final
  BY <1>1, StatusStep DEF CInv, Final
<1>3. ReadsAreOld'
  BY <1>1, <1>2, ReadsStep DEF CInv
<1>4. JobsHeld' /\ RowsKept'
  BY <1>1 DEF CInv, JobsHeld, RowsKept, Recorded, Final
<1>5. QED
  BY <1>2, <1>3, <1>4 DEF CInv

\* recordDecision gives the verdict, on the score under which the case was routed.
LEMMA VerdictStep ==
  ASSUME TInv, CInv, NEW o \in Verdicts, NEW by \in {"officer", "reviewer"},
         RecordDecision(o, by), by = "reviewer" => pick = o /\ pick # None,
         UNCHANGED <<seeded, run, screens>>, pick' = pick \/ pick' = None
  PROVE  CInv'
<1>1. /\ row.risk \in Assessments /\ row.risk # None
      /\ row.status \in Final /\ ~Recorded(Verdicts) /\ row.status = "screening"
  BY DEF RecordDecision, Scored, TInv, TypeOK, Rows, CInv, Record, ScoredIsRouted,
         DecidedByOneVerdict, Recorded, Final
<1>2. row'.risk = row.risk /\ row'.status = "decided"
  BY <1>1 DEF RecordDecision, TInv, TypeOK, Rows
<1>3. PICK d \in Decisions : d = Decision(o, by, row.risk)
  BY <1>1 DEF Decision, Decisions, Verdicts
<1>4. decisions' = Append(decisions, d) /\ d.outcome = o /\ d.by = by /\ d.risk = row.risk
  BY <1>3 DEF RecordDecision, Decision
<1>5. TypeOK /\ EvidenceFrozen /\ DecidedByOneVerdict /\ ReviewFitsScore
  BY DEF TInv, CInv, Record
<1>6. by = "reviewer" => seeded /\ (o = "rejected" <=> Score[row.risk.finding] >= RejectsFrom)
  BY DEF CInv, Record, PickFits
<1>7. EvidenceFrozen' /\ DecidedByOneVerdict' /\ ReviewFitsScore'
  BY <1>1, <1>2, <1>4, <1>5, <1>6, DecisionStep
<1>8. ScoredIsRouted'
  <2>1. /\ Recorded({"referred"})' <=> Recorded({"referred"}) \/ o = "referred"
        /\ Recorded(Verdicts)'
    BY <1>4, <1>5, RecordedAppend
  <2>2. decisions' # <<>>
    BY <2>1 DEF Recorded
  <2>3. QED
    BY <1>1, <1>2, <2>1, <2>2 DEF ScoredIsRouted, CInv, Record, Final
<1>9. PickFits'
  BY <1>2 DEF PickFits, CInv, Record
<1>10. ReadsAreOld'
  BY <1>2, ReadsStep DEF CInv, Final
<1>11. JobsHeld' /\ RowsKept'
  BY <1>2 DEF JobsHeld, RowsKept, CInv
<1>12. QED
  BY <1>7, <1>8, <1>9, <1>10, <1>11 DEF CInv, Record

\* The officer and the reviewer.
LEMMA CaseDesk ==
  ASSUME TInv, CInv,
         (\E o \in Verdicts : Decide(o)) \/ ListForReview \/ Review \/ SkipReview
  PROVE  CInv'
<1>1. ASSUME NEW o \in Verdicts, Decide(o)
      PROVE  CInv'
  BY <1>1, VerdictStep DEF Decide, outside
<1>2. CASE Review
  BY <1>2, VerdictStep DEF Review, outside, TInv, TypeOK
<1>3. CASE SkipReview
  <2>1. UNCHANGED <<row, decisions, seeded, run, screens>> /\ pick' = None
    BY <1>3 DEF SkipReview, outside
  <2>2. QED
    BY <2>1 DEF CInv, Record, ScoredIsRouted, EvidenceFrozen, DecidedByOneVerdict,
                ReviewFitsScore, PickFits, ReadsAreOld, JobsHeld, RowsKept, Recorded
<1>4. CASE ListForReview
  <2>1. UNCHANGED <<row, decisions, seeded, run, screens>>
    BY <1>4 DEF ListForReview, outside
  <2>2. row.risk # None
    <3>1. decisions # <<>>
      BY <1>4 DEF ListForReview, Recorded
    <3>2. QED
      BY <3>1 DEF CInv, Record, ScoredIsRouted
  <2>3. PickFits'
    BY <1>4, <2>1, <2>2 DEF ListForReview, PickFits
  <2>4. QED
    BY <2>1, <2>3 DEF CInv, Record, ScoredIsRouted, EvidenceFrozen, DecidedByOneVerdict,
                      ReviewFitsScore, ReadsAreOld, JobsHeld, RowsKept, Recorded
<1>5. QED
  BY <1>1, <1>2, <1>3, <1>4

\* A screening execution ends and its job moves: no other one is concerned.
LEMMA ScreeningEnds ==
  ASSUME TInv, JobsHeld, NEW r \in Runs, run[r].for = "screening", NEW job,
         Finish(r), screens' = ScreensWith(r, job)
  PROVE  /\ JobsHeld'
         /\ \A j \in DOMAIN screens : screens[j].state \in {"queued", "parked"} =>
              j \in DOMAIN screens' /\ screens'[j] = screens[j]
         /\ run[r].no \in DOMAIN screens' /\ screens'[run[r].no] = job
         /\ run'[r].seen = NewRow /\ \A q \in Runs \ {r} : run'[q] = run[q]
<1>1. run[r].no \in DOMAIN screens /\ screens \in Seq(Jobs)
      /\ \A q \in Runs : run[q].for = "screening" => run[q].no \in DOMAIN screens
  BY DEF TInv, TypeOK, RunsFit, Fits
<1>2. /\ DOMAIN screens' = DOMAIN screens /\ screens'[run[r].no] = job
      /\ \A j \in DOMAIN screens \ {run[r].no} : screens'[j] = screens[j]
  BY <1>1 DEF ScreensWith
<1>3. run'[r] = Idle /\ \A q \in Runs \ {r} : run'[q] = run[q]
  BY DEF Finish, TInv, TypeOK
<1>4. Idle.for # "screening" /\ Idle.seen = NewRow
  BY DEF Idle
<1>5. screens[run[r].no].state = "running"
  BY DEF JobsHeld
<1>6. JobsHeld'
  BY <1>1, <1>2, <1>3, <1>4 DEF JobsHeld
<1>7. QED
  BY <1>1, <1>2, <1>3, <1>4, <1>5, <1>6

\* Screening begins, finds something, or ends with nothing written.
LEMMA CaseSearched ==
  ASSUME TInv, CInv, NEW r \in Runs,
         \/ \E j \in DOMAIN screens : LoadScreening(r, j)
         \/ SkipScreening(r) \/ ParkScreening(r) \/ FailScreening(r) \/ Search(r)
  PROVE  CInv'
<1>1. UNCHANGED <<row, decisions, seeded, pick>>
  BY DEF LoadScreening, SkipScreening, ParkScreening, FailScreening, Search, outside
<1>2. Record'
  BY <1>1, StatusStep DEF CInv
<1>3. ASSUME NEW j \in DOMAIN screens, LoadScreening(r, j)
      PROVE  ReadsAreOld' /\ JobsHeld' /\ RowsKept'
  <2>1. /\ run[r].for # "screening" /\ screens[j].state = "queued"
        /\ run'[r].for = "screening" /\ run'[r].no = j /\ run'[r].seen = row
        /\ \A q \in Runs \ {r} : run'[q] = run[q]
    BY <1>3 DEF LoadScreening, Begin, TInv, TypeOK, RunsFit, Fits
  <2>2. /\ DOMAIN screens' = DOMAIN screens /\ screens'[j].state = "running"
        /\ \A k \in DOMAIN screens \ {j} : screens'[k] = screens[k]
    BY <1>3 DEF LoadScreening, Claimed, TInv, TypeOK
  <2>3. ReadsAreOld'
    BY <1>1, <2>1, ReadsStep DEF CInv
  <2>4. JobsHeld'
    <3>1. \A q \in Runs : run[q].for = "screening" =>
            run[q].no \in DOMAIN screens /\ screens[run[q].no].state = "running"
      BY DEF CInv, JobsHeld, TInv, RunsFit, Fits
    <3>2. QED
      BY <2>1, <2>2, <3>1 DEF CInv, JobsHeld
  <2>5. RowsKept'
    BY <1>1, <2>1 DEF RowsKept
  <2>6. QED
    BY <2>3, <2>4, <2>5
<1>4. ASSUME NEW job, Finish(r), run[r].for = "screening", screens' = ScreensWith(r, job),
             run[r].seen.status = "screening" => job.state \in {"queued", "parked"}
      PROVE  ReadsAreOld' /\ JobsHeld' /\ RowsKept'
  <2>1. /\ JobsHeld'
        /\ \A j \in DOMAIN screens : screens[j].state \in {"queued", "parked"} =>
             j \in DOMAIN screens' /\ screens'[j] = screens[j]
        /\ run[r].no \in DOMAIN screens' /\ screens'[run[r].no] = job
        /\ run'[r].seen = NewRow /\ \A q \in Runs \ {r} : run'[q] = run[q]
    BY <1>4, ScreeningEnds DEF CInv
  <2>2. ReadsAreOld'
    BY <1>1, <2>1, ReadsStep DEF CInv
  <2>3. RowsKept'
    <3> SUFFICES ASSUME row.status = "screening", ~Recorded({"referred"})
                 PROVE  \/ \E j \in DOMAIN screens' : screens'[j].state \in {"queued", "parked"}
                        \/ \E q \in Runs : run'[q].for = "screening"
                                         /\ run'[q].seen.status = "screening"
      BY <1>1 DEF RowsKept, Recorded
    <3>1. CASE \E j \in DOMAIN screens : screens[j].state \in {"queued", "parked"}
      BY <2>1, <3>1
    <3>2. CASE \E q \in Runs : run[q].for = "screening" /\ run[q].seen.status = "screening"
      <4>1. PICK q \in Runs : run[q].for = "screening" /\ run[q].seen.status = "screening"
        BY <3>2
      <4>2. CASE q = r
        BY <1>4, <2>1, <4>1, <4>2
      <4>3. CASE q # r
        BY <2>1, <4>1, <4>3
      <4>4. QED
        BY <4>2, <4>3
    <3>3. QED
      BY <3>1, <3>2 DEF CInv, RowsKept
  <2>4. QED
    BY <2>1, <2>2, <2>3
<1>5. ASSUME SkipScreening(r) \/ ParkScreening(r) \/ FailScreening(r)
      PROVE  ReadsAreOld' /\ JobsHeld' /\ RowsKept'
  <2>1. run[r].for = "screening" /\ Finish(r)
    BY <1>5 DEF SkipScreening, ParkScreening, FailScreening, TInv, RunsFit, Fits
  <2>2. screens[run[r].no] \in Jobs
    BY <2>1 DEF TInv, TypeOK, RunsFit, Fits
  <2>3. /\ Parked(screens[run[r].no]).state = "parked"
        /\ Failed(screens[run[r].no]).state \in {"queued", "parked"}
    BY <2>2 DEF Parked, Failed, Jobs
  <2>4. CASE SkipScreening(r)
    BY <1>4, <2>1, <2>4 DEF SkipScreening
  <2>5. CASE ParkScreening(r)
    BY <1>4, <2>1, <2>3, <2>5 DEF ParkScreening
  <2>6. CASE FailScreening(r)
    BY <1>4, <2>1, <2>3, <2>6 DEF FailScreening
  <2>7. QED
    BY <1>5, <2>4, <2>5, <2>6
<1>6. ASSUME Search(r)
      PROVE  ReadsAreOld' /\ JobsHeld' /\ RowsKept'
  <2>1. /\ run'[r].for = run[r].for /\ run'[r].no = run[r].no /\ run'[r].seen = run[r].seen
        /\ \A q \in Runs \ {r} : run'[q] = run[q]
    BY <1>6 DEF Search, TInv, TypeOK, Executions
  <2>2. \A q \in Runs : /\ run'[q].for = run[q].for /\ run'[q].no = run[q].no
                        /\ run'[q].seen = run[q].seen
    BY <2>1
  <2>3. screens' = screens
    BY <1>6 DEF Search
  <2>4. QED
    BY <1>1, <2>2, <2>3 DEF CInv, ReadsAreOld, JobsHeld, RowsKept, Recorded
<1>7. QED
  BY <1>2, <1>3, <1>5, <1>6 DEF CInv

\* Screening stores what it found.  Either the finding is the one the row shows, and
\* the case was routed by it before, so that nothing is recorded; or the case had no
\* score, and is scored and routed now.
LEMMA CaseStored ==
  ASSUME TInv, CInv, NEW r \in Runs, StoreScreening(r)
  PROVE  /\ CInv'
         /\ \/ row'.risk = row.risk /\ row'.status = row.status /\ decisions' = decisions
            \/ /\ decisions = <<>> /\ row.status = "screening"
               /\ \/ Recorded({"referred"})' /\ ~Recorded(Verdicts)' /\ row'.status = "screening"
                  \/ ~Recorded({"referred"})' /\ Recorded(Verdicts)' /\ row'.status = "decided"
               /\ row'.risk \in Assessments
<1> DEFINE found == run[r].found
           route == Routing[run[r].found.finding]
<1>1. /\ run[r].for = "screening" /\ run[r].seen.status = "screening"
      /\ found \in Assessments /\ found # None /\ row.status \in Final
  BY CaseFileAssumption DEF StoreScreening, TInv, RunsFit, Fits, CInv, ReadsAreOld
<1>2. route \in {"approve", "review", "reject"}
  BY <1>1, CaseFileAssumption DEF Assessments
<1>3. UNCHANGED <<seeded, pick>>
  BY DEF StoreScreening, outside
<1>4. PICK job : job = Done(screens[run[r].no])
  OBVIOUS
<1>5. /\ JobsHeld'
      /\ run'[r].seen = NewRow /\ \A q \in Runs \ {r} : run'[q] = run[q]
  <2>1. screens' = ScreensWith(r, job) /\ Finish(r) /\ JobsHeld
    BY <1>4 DEF StoreScreening, CInv
  <2>2. QED
    BY <1>1, <2>1, ScreeningEnds
<1>6. CASE Unchanged(r)
  <2>1. row.risk # None /\ row.risk.finding = found.finding
    BY <1>6 DEF Unchanged, CInv, ReadsAreOld
  <2>2. /\ route = "review" => Recorded({"referred"})
        /\ route # "review" => Recorded(Verdicts)
    BY <2>1 DEF CInv, Record, ScoredIsRouted
  <2>3. row'.risk = row.risk /\ row'.status = row.status /\ decisions' = decisions
    BY <1>6, <2>2 DEF StoreScreening, TInv, TypeOK, Rows
  <2>4. Record'
    BY <1>3, <2>3, StatusStep DEF CInv
  <2>5. ReadsAreOld'
    BY <1>5, <2>3, ReadsStep DEF CInv
  <2>6. RowsKept'
    <3>1. Recorded(Verdicts) => row.status = "decided"
      BY DEF CInv, Record, DecidedByOneVerdict, Recorded
    <3>2. QED
      BY <2>2, <2>3, <3>1 DEF RowsKept, Recorded
  <2>7. QED
    BY <1>5, <2>3, <2>4, <2>5, <2>6 DEF CInv
<1>7. CASE ~Unchanged(r)
  <2>1. decisions = <<>> /\ row.risk = None /\ pick = None
    BY <1>7 DEF StoreScreening, Unfrozen, CInv, Record, ScoredIsRouted, PickFits
  <2>2. ~Recorded({"referred"}) /\ ~Recorded(Verdicts) /\ row.status = "screening"
    BY <1>1, <2>1 DEF Recorded, CInv, Record, DecidedByOneVerdict, Final
  <2>3. OutcomeOf(route) \in Verdicts \cup {"referred"}
        /\ (OutcomeOf(route) = "referred" <=> route = "review")
    BY <1>2 DEF OutcomeOf, Verdicts
  <2>4. PICK d \in Decisions : d = Decision(OutcomeOf(route), "system", found)
    BY <1>1, <2>3 DEF Decision, Decisions
  <2>5. /\ d.outcome = OutcomeOf(route) /\ d.by = "system" /\ d.risk = found
    BY <2>4 DEF Decision
  <2>6. /\ decisions' = Append(decisions, d)
        /\ row'.risk = found
        /\ row'.status = IF route # "review" THEN "decided" ELSE "screening"
    BY <1>7, <2>2, <2>4 DEF StoreScreening, TInv, TypeOK, Rows
  <2>7. d.outcome \in Verdicts <=> route # "review"
    BY <2>3, <2>5 DEF Verdicts
  <2>8. EvidenceFrozen' /\ DecidedByOneVerdict' /\ ReviewFitsScore'
    <3>1. TypeOK /\ EvidenceFrozen /\ DecidedByOneVerdict /\ ReviewFitsScore
      BY DEF TInv, CInv, Record
    <3> HIDE DEF found, route
    <3>2. QED
      BY <1>3, <2>1, <2>2, <2>5, <2>6, <2>7, <3>1, DecisionStep
  <2>9. /\ Recorded({"referred"})' <=> route = "review"
        /\ Recorded(Verdicts)' <=> route # "review"
    BY <2>2, <2>3, <2>5, <2>6, <2>7, RecordedAppend DEF TInv
  <2>10. ScoredIsRouted' /\ PickFits'
    <3>1. decisions' # <<>>
      BY <2>9 DEF Recorded
    <3>2. QED
      BY <1>1, <1>3, <2>1, <2>6, <2>9, <3>1 DEF ScoredIsRouted, PickFits, Final
  <2>11. ReadsAreOld'
    BY <1>5, <2>1, <2>6, ReadsStep DEF CInv, Final
  <2>12. RowsKept'
    BY <2>6, <2>9 DEF RowsKept
  <2>13. CInv'
    BY <1>5, <2>8, <2>10, <2>11, <2>12 DEF CInv, Record
  <2>14. QED
    BY <1>1, <2>1, <2>2, <2>6, <2>9, <2>13
<1>8. QED
  BY <1>6, <1>7

LEMMA CInvNext == TInv /\ CInv /\ [Next]_vars => CInv'
<1> SUFFICES ASSUME TInv, CInv, [Next]_vars PROVE CInv'
  OBVIOUS
<1>1. CASE Web
  <2>1. ASSUME NEW s \in Sessions, CreateSession(s) \/ LoseSession(s)
        PROVE  CInv'
    BY <2>1, CaseRests DEF CreateSession, LoseSession, outside
  <2>2. ASSUME NEW n \in 1..MaxResults, Deliver(n)
        PROVE  CInv'
    BY <2>2, CaseRests DEF Deliver, outside
  <2>3. QED
    BY <1>1, <2>1, <2>2, CaseBegins, CaseDesk DEF Web
<1>2. ASSUME NEW r \in Runs, Worker(r)
      PROVE  CInv'
  BY <1>2, CaseAsking, CaseMoves, CaseSearched, CaseStored DEF Worker
<1>3. CASE Expire
  BY <1>3, CaseBegins
<1>4. CASE World
  BY <1>4, CaseRests DEF World, Forget, Report, LoadList, DeployRuleset, HourPasses, inside
<1>5. CASE UNCHANGED vars
  BY <1>5, CaseRests DEF vars
<1>6. QED
  BY <1>1, <1>2, <1>3, <1>4, <1>5 DEF Next

LEMMA Invariance == Spec => [](TInv /\ CInv)
BY TInvInit, TInvNext, CInvInit, CInvNext, PTL DEF Spec

-----------------------------------------------------------------------------
(* What follows.                                                           *)

\* However screenings, officers and the reviewer race, a case is decided exactly when
\* it has a verdict, and it has one at most.
THEOREM OneVerdict == Spec => []DecidedByOneVerdict
<1>1. CInv => DecidedByOneVerdict
  BY DEF CInv, Record
<1>2. QED
  BY <1>1, Invariance, PTL

\* Every decision stands on the score and the ruleset version the case shows.
THEOREM EvidenceStaysFrozen == Spec => []EvidenceFrozen
<1>1. CInv => EvidenceFrozen
  BY DEF CInv, Record
<1>2. QED
  BY <1>1, Invariance, PTL

\* The reviewer's stale choice fits the score it is recorded with.
THEOREM ReviewsFit == Spec => []ReviewFitsScore
<1>1. CInv => ReviewFitsScore
  BY DEF CInv, Record
<1>2. QED
  BY <1>1, Invariance, PTL

\* A case in screening never waits for nothing.
THEOREM NothingIsStranded == Spec => []NeverStranded
<1>1. TInv /\ CInv => NeverStranded
  <2> SUFFICES ASSUME TInv, CInv, row.status = "screening", ~Recorded({"referred"})
               PROVE  \E j \in DOMAIN screens : screens[j].state \in {"queued", "running", "parked"}
    BY DEF NeverStranded
  <2>1. CASE \E j \in DOMAIN screens : screens[j].state \in {"queued", "parked"}
    BY <2>1
  <2>2. CASE \E r \in Runs : run[r].for = "screening" /\ run[r].seen.status = "screening"
    BY <2>2 DEF CInv, JobsHeld, TInv, RunsFit, Fits
  <2>3. QED
    BY <2>1, <2>2 DEF CInv, RowsKept
<1>2. QED
  BY <1>1, Invariance, PTL

-----------------------------------------------------------------------------
(* The case keeps the promise of Adjudication.                             *)

\* What a reader of the case sees, when the invariant holds.
LEMMA Views ==
  ASSUME TInv, CInv
  PROVE  /\ Recorded(Verdicts) => verdict \in Verdicts
         /\ ~Recorded(Verdicts) => verdict = None
         /\ row.status \in OffRamps => decisions = <<>>
         /\ decisions = <<>> => ~Recorded(Verdicts) /\ ~Recorded({"referred"})
         /\ row.status = "decided" <=> Recorded(Verdicts)
<1>1. ASSUME Recorded(Verdicts)
      PROVE  verdict \in Verdicts
  <2>1. \E d \in {decisions[i] : i \in DOMAIN decisions} : d.outcome \in Verdicts
    BY <1>1 DEF Recorded
  <2>2. (CHOOSE d \in {decisions[i] : i \in DOMAIN decisions} : d.outcome \in Verdicts).outcome
           \in Verdicts
    BY <2>1
  <2>3. QED
    BY <1>1, <2>2 DEF verdict
<1>2. ~Recorded(Verdicts) => verdict = None
  BY DEF verdict
<1>3. row.status \in OffRamps => decisions = <<>>
  BY DEF OffRamps, CInv, Record, ScoredIsRouted, Final
<1>4. decisions = <<>> => ~Recorded(Verdicts) /\ ~Recorded({"referred"})
  BY DEF Recorded
<1>5. row.status = "decided" <=> Recorded(Verdicts)
  BY DEF CInv, Record, DecidedByOneVerdict, Recorded
<1>6. QED
  BY <1>1, <1>2, <1>3, <1>4, <1>5

\* A step that decides nothing: the status stays, or moves before there is a decision,
\* and no off-ramp is left.
LEMMA StatusKept ==
  ASSUME TInv, CInv, CInv', UNCHANGED decisions, row'.risk = row.risk,
         row.status \in OffRamps => row'.status = row.status
  PROVE  [Promise!Next]_<<stage, verdict, basis>>
<1>1. /\ \A O : Recorded(O)' <=> Recorded(O)
      /\ verdict' = verdict /\ basis' = basis
  BY DEF Recorded, verdict, basis
<1>2. CASE row.status \in OffRamps \/ row'.status \notin OffRamps
  <2>1. stage' = stage
    BY <1>1, <1>2 DEF stage
  <2>2. QED
    BY <1>1, <2>1
<1>3. CASE row.status \notin OffRamps /\ row'.status \in OffRamps
  <2>1. decisions' = <<>>
    BY <1>3 DEF OffRamps, CInv, Record, ScoredIsRouted, Final
  <2>2. decisions = <<>> /\ ~Recorded(Verdicts) /\ ~Recorded({"referred"})
    BY <2>1, Views
  <2>3. /\ stage = "open" /\ stage' = "closed"
        /\ verdict' = None /\ basis' = None
    BY <1>1, <1>3, <2>2 DEF stage, verdict, basis
  <2>4. QED
    BY <2>3 DEF Promise!Next, Promise!CloseWithoutFinding
<1>4. QED
  BY <1>2, <1>3

\* A human decides: the case was referred, and its evidence is not touched.
LEMMA ReferralDecided ==
  ASSUME TInv, CInv, TInv', CInv', NEW o \in Verdicts, NEW by \in {"officer", "reviewer"},
         RecordDecision(o, by)
  PROVE  Promise!DecideReferral
<1>1. /\ row.risk \in Assessments /\ row.risk # None
      /\ row.status = "screening" /\ ~Recorded(Verdicts) /\ Recorded({"referred"})
  BY DEF RecordDecision, Scored, TInv, TypeOK, Rows, CInv, Record, ScoredIsRouted,
         DecidedByOneVerdict, Recorded, Final
<1>2. row'.risk = row.risk /\ row'.status = "decided"
  BY <1>1 DEF RecordDecision, TInv, TypeOK, Rows
<1>3. verdict' \in Verdicts /\ Recorded(Verdicts)'
  <2>1. /\ Recorded(Verdicts)' => verdict' \in Verdicts
        /\ row'.status = "decided" <=> Recorded(Verdicts)'
    <3>1. (TInv /\ CInv)' => ((Recorded(Verdicts) => verdict \in Verdicts)
                              /\ (row.status = "decided" <=> Recorded(Verdicts)))'
      BY Views, PTL
    <3>2. QED
      BY <3>1
  <2>2. QED
    BY <1>2, <2>1
<1>4. decisions # <<>> /\ decisions' # <<>>
  BY <1>1, <1>3 DEF Recorded
<1>5. stage = "referred" /\ stage' = "decided" /\ basis' = basis
  BY <1>1, <1>2, <1>3, <1>4 DEF stage, basis, OffRamps
<1>6. QED
  BY <1>3, <1>5 DEF Promise!DecideReferral, Promise!Verdicts, Verdicts
\* Screening stores: nothing new is recorded, or an open case is referred or decided.
LEMMA ScreeningKept ==
  ASSUME TInv, CInv, TInv', CInv', NEW r \in Runs, StoreScreening(r)
  PROVE  [Promise!Next]_<<stage, verdict, basis>>
<1>1. CASE row'.risk = row.risk /\ row'.status = row.status /\ decisions' = decisions
  BY <1>1, StatusKept
<1>2. CASE /\ decisions = <<>> /\ row.status = "screening" /\ row'.risk \in Assessments
           /\ \/ Recorded({"referred"})' /\ ~Recorded(Verdicts)' /\ row'.status = "screening"
              \/ ~Recorded({"referred"})' /\ Recorded(Verdicts)' /\ row'.status = "decided"
  <2>1. stage = "open"
    BY <1>2 DEF stage, OffRamps, Recorded
  <2>2. decisions' # <<>> /\ basis' = row'.risk
    BY <1>2 DEF Recorded, basis
  <2>3. ((Recorded(Verdicts) => verdict \in Verdicts) /\ (~Recorded(Verdicts) => verdict = None))'
    BY Views, PTL
  <2>4. CASE Recorded({"referred"})' /\ ~Recorded(Verdicts)' /\ row'.status = "screening"
    <3>1. stage' = "referred" /\ verdict' = None
      BY <2>3, <2>4 DEF stage, OffRamps
    <3>2. QED
      BY <1>2, <2>1, <2>2, <3>1 DEF Promise!Next, Promise!Refer
  <2>5. CASE Recorded(Verdicts)' /\ row'.status = "decided"
    <3>1. stage' = "decided" /\ verdict' \in Verdicts
      BY <2>3, <2>5 DEF stage, OffRamps
    <3>2. QED
      BY <1>2, <2>1, <2>2, <3>1 DEF Promise!Next, Promise!DecideAutomatically,
                                    Promise!Verdicts, Verdicts
  <2>6. QED
    BY <1>2, <2>4, <2>5
<1>3. QED
  BY <1>1, <1>2, CaseStored

\* Every step of the case is a step of its promise, or none.
LEMMA PromiseKept ==
  TInv /\ CInv /\ TInv' /\ CInv' /\ [Next]_vars => [Promise!Next]_<<stage, verdict, basis>>
<1> SUFFICES ASSUME TInv, CInv, TInv', CInv', [Next]_vars
             PROVE  [Promise!Next]_<<stage, verdict, basis>>
  OBVIOUS
<1>still. UNCHANGED <<row, decisions>> => [Promise!Next]_<<stage, verdict, basis>>
  BY StatusKept
<1>1. CASE Web
  <2>1. ASSUME NEW s \in Sessions, RecordSession(s)
        PROVE  [Promise!Next]_<<stage, verdict, basis>>
    <3>1. row'.risk = row.risk /\ (row.status # "started" => row'.status = row.status)
      BY <2>1 DEF RecordSession, TInv, TypeOK, Rows
    <3>2. QED
      BY <2>1, <3>1, StatusKept DEF RecordSession, OffRamps
  <2>2. ASSUME NEW o \in Verdicts, Decide(o)
        PROVE  [Promise!Next]_<<stage, verdict, basis>>
    BY <2>2, ReferralDecided DEF Decide, Promise!Next
  <2>3. CASE Review
    BY <2>3, ReferralDecided DEF Review, Promise!Next, TInv, TypeOK
  <2>4. ASSUME \/ \E s \in Sessions : CreateSession(s) \/ LoseSession(s)
               \/ \E n \in 1..MaxResults : Deliver(n)
               \/ ListForReview \/ SkipReview
        PROVE  UNCHANGED <<row, decisions>>
    BY <2>4 DEF CreateSession, LoseSession, Deliver, ListForReview, SkipReview
  <2>5. QED
    BY <1>1, <1>still, <2>1, <2>2, <2>3, <2>4 DEF Web
<1>2. ASSUME NEW r \in Runs, Worker(r)
      PROVE  [Promise!Next]_<<stage, verdict, basis>>
  <2>1. CASE ApplyResult(r)
    <3>1. /\ UNCHANGED decisions /\ row'.risk = row.risk
          /\ row.status \in OffRamps => row'.status = row.status
      <4> DEFINE st == TargetOf[StatusAt(run[r].answer)]
      <4>1. Permits(st)
        BY <2>1 DEF ApplyResult
      <4>2. UNCHANGED decisions /\ row'.risk = row.risk /\ row'.status = st
        BY <2>1 DEF ApplyResult, TInv, TypeOK, Rows
      <4> HIDE DEF st
      <4>3. QED
        BY <4>1, <4>2 DEF Permits, Transitions, OffRamps
    <3>2. QED
      BY <3>1, StatusKept
  <2>2. CASE RecordNotFound(r)
    <3>1. /\ UNCHANGED decisions /\ row'.risk = row.risk
          /\ row.status \in OffRamps => row'.status = row.status
      BY <2>2 DEF RecordNotFound, OnTheWay, OffRamps, TInv, TypeOK, Rows
    <3>2. QED
      BY <3>1, StatusKept
  <2>3. CASE StoreScreening(r)
    BY <2>3, ScreeningKept
  <2>4. ASSUME \/ \E n \in 1..MaxResults : LoadEvent(r, n)
               \/ LoadSweep(r) \/ Ask(r) \/ RefuseResult(r) \/ ParkEvent(r) \/ FailAsking(r)
               \/ \E j \in DOMAIN screens : LoadScreening(r, j)
               \/ SkipScreening(r) \/ ParkScreening(r) \/ Search(r) \/ FailScreening(r)
        PROVE  UNCHANGED <<row, decisions>>
    BY <2>4 DEF LoadEvent, LoadSweep, Ask, RefuseResult, ParkEvent, FailAsking, LoadScreening,
                SkipScreening, ParkScreening, Search, FailScreening
  <2>5. QED
    BY <1>2, <1>still, <2>1, <2>2, <2>3, <2>4 DEF Worker
<1>3. CASE Expire
  <2>1. row'.risk = row.risk /\ row.status = "started" /\ UNCHANGED decisions
    BY <1>3 DEF Expire, TInv, TypeOK, Rows
  <2>2. QED
    BY <2>1, StatusKept DEF OffRamps
<1>4. CASE World
  BY <1>4, <1>still DEF World, Forget, Report, LoadList, DeployRuleset, HourPasses, inside
<1>5. CASE UNCHANGED vars
  BY <1>5, <1>still DEF vars
<1>6. QED
  BY <1>1, <1>2, <1>3, <1>4, <1>5 DEF Next

\* A case is referred once, decided once and on the evidence of its first decision, or
\* closed without any: CaseFile implements Adjudication.
THEOREM CaseIsAdjudicated == Spec => AdjudicationPromise
<1>1. Init => Promise!Init
  <2> SUFFICES ASSUME Init PROVE Promise!Init
    OBVIOUS
  <2>1. row.status = "started" /\ decisions = <<>>
    BY DEF Init, NewRow
  <2>2. ~Recorded(Verdicts) /\ ~Recorded({"referred"})
    BY <2>1 DEF Recorded
  <2>3. QED
    BY <2>1, <2>2 DEF Promise!Init, stage, verdict, basis, OffRamps
<1>2. QED
  BY <1>1, Invariance, PromiseKept, PTL DEF Spec, AdjudicationPromise, Promise!Spec

-----------------------------------------------------------------------------
(* The recency guard, for any sessions, results and orders of delivery: it *)
(* does what README.md says of it as long as handler executions do not     *)
(* overlap.  That two do is all it takes to break it (CaseFile_race.cfg).  *)

\* The vendor's answers carry their time, and there is one execution at a time.
Serial == Timestamped /\ \A r, q \in Runs : r = q

\* An execution that asks knows the time of the result applied last; one for an event
\* asks about a result that was reported, so it hears of one, and one for a sweep has
\* read a status that "Not Started" does not move.
Asks(e) == e.at \in {"asking", "applying"}
InOrder(e) ==
  Asks(e) =>
    /\ e.seen.resultAt = row.resultAt
    /\ \/ e.for = "event" /\ e.no \in DOMAIN reported /\ (e.at = "applying" => e.answer # 0)
       \/ e.for = "sweep" /\ e.no = 0 /\ e.seen.status \in OnTheWay

OInv ==
  /\ heard = row.resultAt
  /\ \A n \in 1..MaxResults : inbox[n].state # "none" => n \in DOMAIN reported
  /\ \A r \in Runs : InOrder(run[r])

LEMMA OInvInit == Init => OInv
BY DEF Init, OInv, InOrder, Asks, Idle, NewRow

\* Steps that leave the results applied and the executions alone.
LEMMA OrderRests ==
  ASSUME TInv, OInv, UNCHANGED <<heard, run>>, row'.resultAt = row.resultAt,
         DOMAIN reported \subseteq DOMAIN reported',
         \A n \in 1..MaxResults :
           inbox'[n].state # "none" => inbox[n].state # "none" \/ n \in DOMAIN reported
  PROVE  OInv'
BY DEF OInv, InOrder, Asks

\* One execution goes on, or ends, and no result is applied.
LEMMA OrderStep ==
  ASSUME TInv, OInv, NEW r \in Runs, NEW e, run' = [run EXCEPT ![r] = e], InOrder(e)',
         UNCHANGED <<heard, reported>>, row'.resultAt = row.resultAt,
         \A n \in 1..MaxResults :
           inbox'[n].state # "none" => inbox[n].state # "none" \/ n \in DOMAIN reported
  PROVE  OInv'
<1>1. ASSUME NEW q \in Runs PROVE InOrder(run[q])'
  <2>1. run'[q] = IF q = r THEN e ELSE run[q]
    BY DEF TInv, TypeOK
  <2>2. CASE q = r
    BY <2>1, <2>2 DEF InOrder, Asks
  <2>3. CASE q # r
    BY <2>1, <2>3 DEF OInv, InOrder, Asks
  <2>4. QED
    BY <2>2, <2>3
<1>2. QED
  BY <1>1 DEF OInv

LEMMA IdleInOrder == InOrder(Idle)'
BY DEF InOrder, Asks, Idle

\* A job moves on that was there.
LEMMA JobsStay ==
  ASSUME TInv, NEW r \in Runs, run[r].at = "applying" \/ run[r].at = "asking", OInv,
         NEW job, inbox' = InboxAfter(r, job)
  PROVE  \A n \in 1..MaxResults :
           inbox'[n].state # "none" => inbox[n].state # "none" \/ n \in DOMAIN reported
<1>1. CASE run[r].for = "event"
  <2>1. run[r].no \in DOMAIN reported
    BY <1>1 DEF OInv, InOrder, Asks
  <2>2. QED
    BY <1>1, <2>1 DEF InboxAfter, TInv, TypeOK
<1>2. CASE run[r].for # "event"
  BY <1>2 DEF InboxAfter
<1>3. QED
  BY <1>1, <1>2

\* The steps of everyone but the executions.
LEMMA OrderAround ==
  ASSUME TInv, OInv, Web \/ Expire \/ World \/ UNCHANGED vars
  PROVE  OInv'
<1>row. row \in Rows
  BY DEF TInv, TypeOK
<1>1. ASSUME NEW s \in Sessions, CreateSession(s) \/ RecordSession(s) \/ LoseSession(s)
      PROVE  OInv'
  <2>1. row'.resultAt = row.resultAt
    BY <1>row, <1>1 DEF CreateSession, RecordSession, LoseSession, Rows
  <2>2. QED
    BY <1>1, <2>1, OrderRests DEF CreateSession, RecordSession, LoseSession, outside
<1>2. ASSUME NEW n \in 1..MaxResults, Deliver(n) PROVE OInv'
  <2>1. \A m \in 1..MaxResults :
          inbox'[m].state # "none" => inbox[m].state # "none" \/ m \in DOMAIN reported
    BY <1>2 DEF Deliver, TInv, TypeOK
  <2>2. QED
    BY <1>2, <2>1, OrderRests DEF Deliver, outside
<1>3. CASE (\E o \in Verdicts : Decide(o)) \/ ListForReview \/ Review \/ SkipReview
  <2>1. row'.resultAt = row.resultAt
    BY <1>row, <1>3 DEF Decide, ListForReview, Review, SkipReview, RecordDecision, Rows
  <2>2. UNCHANGED <<heard, run, inbox, reported>>
    BY <1>3 DEF Decide, ListForReview, Review, SkipReview, outside
  <2>3. QED
    BY <2>1, <2>2, OrderRests
<1>4. CASE Expire
  <2>1. row'.resultAt = row.resultAt
    BY <1>row, <1>4 DEF Expire, Rows
  <2>2. QED
    BY <1>4, <2>1, OrderRests DEF Expire, outside
<1>5. ASSUME NEW s \in Sessions, NEW v \in Results, Report(s, v) PROVE OInv'
  <2>1. DOMAIN reported \subseteq DOMAIN reported'
    BY <1>5 DEF Report, TInv, TypeOK
  <2>2. QED
    BY <1>5, <2>1, OrderRests DEF Report, inside
<1>6. CASE (\E s \in Sessions : Forget(s)) \/ LoadList \/ DeployRuleset \/ HourPasses
  BY <1>6, OrderRests DEF Forget, LoadList, DeployRuleset, HourPasses, inside
<1>7. CASE UNCHANGED vars
  BY <1>7, OrderRests DEF vars
<1>8. QED
  BY <1>1, <1>2, <1>3, <1>4, <1>5, <1>6, <1>7 DEF Web, World

\* The vendor's answer about a session of which it has reported a result is a result.
LEMMA AnswerHeard ==
  ASSUME TInv, NEW n \in DOMAIN reported
  PROVE  Answer(reported[n].session) # 0
<1> DEFINE s == reported[n].session
           of == {m \in DOMAIN reported : reported[m].session = s}
<1>1. CASE s \notin created \ forgotten
  <2>1. None # 0
    <3>1. None \notin Nat
      BY CaseFileAssumption, Zenon
    <3>2. QED
      BY <3>1
  <2>2. Answer(s) = None
    BY <1>1 DEF Answer
  <2>3. QED
    BY <2>1, <2>2
<1>2. CASE s \in created \ forgotten
  <2>1. /\ of \cup {0} \in SUBSET Nat /\ Len(reported) \in Nat
        /\ \A m \in of \cup {0} : m <= Len(reported)
        /\ n \in of /\ n > 0
    BY DEF TInv, TypeOK
  <2> HIDE DEF of
  <2>2. LET m == CHOOSE i \in of \cup {0} : \A j \in of \cup {0} : j <= i
        IN m \in of \cup {0} /\ \A j \in of \cup {0} : j <= m
    BY <2>1, ChosenGreatest
  <2>3. \E m \in of \cup {0} : \A j \in of : j <= m
    BY <2>2
  <2>4. \A j \in of : j <= CHOOSE m \in of \cup {0} : \A i \in of : i <= m
    BY <2>3
  <2>5. (CHOOSE m \in of \cup {0} : \A i \in of : i <= m) # 0
    BY <2>1, <2>4
  <2>6. QED
    BY <1>2, <2>5 DEF Answer, of
<1>3. QED
  BY <1>1, <1>2

\* An execution that begins, or hears the vendor's answer.
LEMMA OrderAsking ==
  ASSUME TInv, OInv, NEW r \in Runs,
         (\E n \in 1..MaxResults : LoadEvent(r, n)) \/ LoadSweep(r) \/ Ask(r)
  PROVE  OInv'
<1>1. ASSUME NEW n \in 1..MaxResults, LoadEvent(r, n) PROVE OInv'
  <2> DEFINE e == [at |-> "asking", for |-> "event", no |-> n, seen |-> row,
                   answer |-> None, found |-> None]
  <2>1. n \in DOMAIN reported
    BY <1>1 DEF LoadEvent, OInv
  <2>2. InOrder(e)'
    BY <1>1, <2>1 DEF LoadEvent, InOrder, Asks, outside
  <2>3. \A m \in 1..MaxResults :
          inbox'[m].state # "none" => inbox[m].state # "none" \/ m \in DOMAIN reported
    BY <1>1, <2>1 DEF LoadEvent, TInv, TypeOK
  <2>4. QED
    BY <1>1, <2>2, <2>3, OrderStep DEF LoadEvent, Begin, outside
<1>2. CASE LoadSweep(r)
  <2> DEFINE e == [at |-> "asking", for |-> "sweep", no |-> 0, seen |-> row,
                   answer |-> None, found |-> None]
  <2>1. InOrder(e)'
    BY <1>2 DEF LoadSweep, InOrder, Asks, outside
  <2>2. QED
    BY <1>2, <2>1, OrderStep DEF LoadSweep, Begin, outside
<1>3. CASE Ask(r)
  <2> DEFINE s == IF run[r].for = "event" THEN reported[run[r].no].session
                  ELSE run[r].seen.session
             e == [run[r] EXCEPT !.at = "applying", !.answer = Answer(s)]
  <2>1. run[r] \in Executions /\ Asks(run[r]) /\ InOrder(run[r])
    BY <1>3 DEF Ask, Asks, OInv, TInv, TypeOK
  <2>2. run[r].for = "event" => Answer(s) # 0
    BY <2>1, AnswerHeard DEF InOrder
  <2>3. run' = [run EXCEPT ![r] = e]
    BY <1>3 DEF Ask, TInv, TypeOK
  <2> HIDE DEF s
  <2>4. e.at = "applying" /\ e.answer = Answer(s) /\ e.seen = run[r].seen
        /\ e.for = run[r].for /\ e.no = run[r].no
    BY <2>1 DEF Executions
  <2>5. PICK d : d = e
    OBVIOUS
  <2> HIDE DEF e
  <2>6. InOrder(d)'
    BY <1>3, <2>1, <2>2, <2>4, <2>5 DEF Ask, InOrder, Asks, outside
  <2>7. QED
    BY <1>3, <2>3, <2>5, <2>6, OrderStep DEF Ask, outside
<1>4. QED
  BY <1>1, <1>2, <1>3

\* An execution that ends with nothing applied, and screening.
LEMMA OrderEnds ==
  ASSUME TInv, OInv, NEW r \in Runs,
         \/ RefuseResult(r) \/ ParkEvent(r) \/ RecordNotFound(r) \/ FailAsking(r)
         \/ \E j \in DOMAIN screens : LoadScreening(r, j)
         \/ SkipScreening(r) \/ ParkScreening(r) \/ Search(r)
         \/ StoreScreening(r) \/ FailScreening(r)
  PROVE  OInv'
<1>row. row \in Rows /\ run[r] \in Executions
  BY DEF TInv, TypeOK
<1>1. CASE RefuseResult(r) \/ ParkEvent(r) \/ RecordNotFound(r) \/ FailAsking(r)
  <2>1. Finish(r) /\ UNCHANGED <<heard, reported>>
    BY <1>1 DEF RefuseResult, ParkEvent, RecordNotFound, FailAsking, outside
  <2>2. row'.resultAt = row.resultAt
    BY <1>row, <1>1 DEF RefuseResult, ParkEvent, RecordNotFound, FailAsking, Rows
  <2>3. inbox' = inbox \/ \E job : inbox' = InboxAfter(r, job)
    BY <1>1 DEF RefuseResult, ParkEvent, RecordNotFound, FailAsking
  <2>4. run[r].at = "applying" \/ run[r].at = "asking"
    BY <1>1 DEF RefuseResult, ParkEvent, RecordNotFound, FailAsking, Answered
  <2>5. \A n \in 1..MaxResults :
          inbox'[n].state # "none" => inbox[n].state # "none" \/ n \in DOMAIN reported
    BY <2>3, <2>4, JobsStay
  <2>6. QED
    BY <2>1, <2>2, <2>5, IdleInOrder, OrderStep DEF Finish
<1>2. ASSUME NEW j \in DOMAIN screens, LoadScreening(r, j) PROVE OInv'
  <2> DEFINE e == [at |-> "searching", for |-> "screening", no |-> j, seen |-> row,
                   answer |-> None, found |-> None]
  <2>1. InOrder(e)'
    BY DEF InOrder, Asks
  <2>2. QED
    BY <1>2, <2>1, OrderStep DEF LoadScreening, Begin, outside
<1>3. CASE Search(r)
  <2> DEFINE finding == Finding[<<run[r].seen.vendorStatus, list, ruleset>>]
             e == [run[r] EXCEPT !.at = "storing",
                                 !.found = [finding |-> finding, ruleset |-> ruleset,
                                            list |-> list]]
  <2>1. run' = [run EXCEPT ![r] = e]
    BY <1>3 DEF Search, TInv, TypeOK
  <2>2. PICK d : d = e
    OBVIOUS
  <2>3. d.at = "storing"
    BY <1>row, <2>2 DEF Executions
  <2> HIDE DEF e
  <2>4. InOrder(d)'
    BY <2>3 DEF InOrder, Asks
  <2>5. QED
    BY <1>3, <2>1, <2>2, <2>4, OrderStep DEF Search, outside
<1>4. CASE SkipScreening(r) \/ ParkScreening(r) \/ StoreScreening(r) \/ FailScreening(r)
  <2>1. Finish(r) /\ UNCHANGED <<heard, reported, inbox>>
    BY <1>4 DEF SkipScreening, ParkScreening, StoreScreening, FailScreening, outside
  <2>2. row'.resultAt = row.resultAt
    BY <1>row, <1>4 DEF SkipScreening, ParkScreening, StoreScreening, FailScreening, Rows
  <2>3. QED
    BY <2>1, <2>2, IdleInOrder, OrderStep DEF Finish
<1>5. QED
  BY <1>1, <1>2, <1>3, <1>4

\* What is applied is no older than what was, and is on record with its own time.
LEMMA AppliedIsNewer ==
  ASSUME Serial, TInv, OInv, NEW r \in Runs, ApplyResult(r)
  PROVE  heard' >= heard /\ OInv'
<1> DEFINE n == run[r].answer
<1>1. /\ run[r].at = "applying" /\ InOrder(run[r]) /\ run[r] \in Executions
      /\ n \in Nat /\ row \in Rows /\ heard \in Nat /\ heard = row.resultAt
  BY DEF ApplyResult, Answered, OInv, TInv, TypeOK, RunsFit, Fits
<1>2. n # 0
  <2>1. CASE run[r].for = "event"
    BY <1>1, <2>1 DEF InOrder, Asks
  <2>2. CASE run[r].for = "sweep"
    <3> SUFFICES ASSUME n = 0 PROVE FALSE
      OBVIOUS
    <3>1. StatusAt(n) = "Not Started" /\ TargetOf["Not Started"] = "submitted"
      BY DEF StatusAt, TargetOf
    <3>2. run[r].seen.status \in OnTheWay
      BY <1>1, <2>2 DEF InOrder, Asks
    <3>3. /\ run[r].seen.status # "submitted"
          /\ <<run[r].seen.status, "submitted">> \in Transitions
      BY <3>1 DEF ApplyResult, Changes, Applies
    <3>4. QED
      BY <3>2, <3>3 DEF OnTheWay, Transitions
  <2>3. QED
    BY <1>1, <2>1, <2>2 DEF InOrder, Asks
<1>3. TimeOf(r) = n
  BY <1>2 DEF TimeOf, Serial
<1>4. run[r].seen.resultAt = heard
  BY <1>1 DEF InOrder, Asks
<1>5. n >= heard
  BY <1>1, <1>2, <1>3, <1>4 DEF ApplyResult, Changes, Applies
<1>6. heard' = n
  BY DEF ApplyResult
<1>7. row'.resultAt = n
  <2>1. row'.resultAt = IF n > row.resultAt THEN n ELSE row.resultAt
    BY <1>1, <1>3 DEF ApplyResult, Rows
  <2>2. QED
    BY <1>1, <1>5, <2>1
<1>8. \A q \in Runs : run'[q] = Idle
  BY DEF Serial, ApplyResult, Finish, TInv, TypeOK
<1>9. \A m \in 1..MaxResults : inbox'[m].state # "none" => m \in DOMAIN reported'
  <2>1. \A m \in 1..MaxResults :
          inbox'[m].state # "none" => inbox[m].state # "none" \/ m \in DOMAIN reported
    BY <1>1, JobsStay DEF ApplyResult
  <2>2. QED
    BY <2>1 DEF ApplyResult, OInv, outside
<1>10. OInv'
  BY <1>6, <1>7, <1>8, <1>9, IdleInOrder DEF OInv
<1>11. QED
  BY <1>5, <1>6, <1>10

LEMMA OrderNext ==
  ASSUME Serial, TInv, OInv, [Next]_vars
  PROVE  OInv' /\ [heard' >= heard]_vars
<1>1. CASE Web \/ Expire \/ World \/ UNCHANGED vars
  <2>1. heard' = heard /\ heard \in Nat
    BY <1>1 DEF Web, World, CreateSession, RecordSession, LoseSession, Deliver, Decide,
                ListForReview, Review, SkipReview, Expire, Forget, Report, LoadList,
                DeployRuleset, HourPasses, inside, vars, TInv, TypeOK
  <2>2. QED
    BY <1>1, <2>1, OrderAround
<1>2. ASSUME NEW r \in Runs, Worker(r) PROVE OInv' /\ heard' >= heard
  <2>1. CASE ApplyResult(r)
    BY <2>1, AppliedIsNewer
  <2>2. CASE ~ApplyResult(r)
    <3>1. heard' = heard /\ heard \in Nat
      BY <1>2, <2>2
         DEF Worker, LoadEvent, LoadSweep, Ask, RefuseResult, ParkEvent, RecordNotFound,
             FailAsking, LoadScreening, SkipScreening, ParkScreening, Search,
             StoreScreening, FailScreening, TInv, TypeOK
    <3>2. OInv'
      BY <1>2, <2>2, OrderAsking, OrderEnds DEF Worker
    <3>3. QED
      BY <3>1, <3>2
  <2>3. QED
    BY <2>1, <2>2
<1>3. QED
  BY <1>1, <1>2 DEF Next

\* Without overlapping executions a result never replaces a newer one, in whatever order
\* webhooks come and whenever sweeps ask.
THEOREM SerialResultsInOrder ==
  ASSUME Serial
  PROVE  Spec => ResultNeverOlder
<1>1. TInv /\ OInv /\ [Next]_vars => OInv' /\ [heard' >= heard]_vars
  BY OrderNext
<1>2. QED
  BY <1>1, OInvInit, Typed, PTL DEF Spec, ResultNeverOlder
=============================================================================
