------------------------------ MODULE JobQueue ------------------------------
(***************************************************************************)
(* The jobs table and everything that changes a row of it: the claim,      *)
(* complete, fail and reclaim statements of worker/jobs.py, the two        *)
(* runtimes that issue them (the loop of worker/main.py and the bounded    *)
(* drain of api/drain.py and worker/batch.py), the self-rescheduling       *)
(* recurring jobs and the retention job that deletes finished rows.        *)
(*                                                                         *)
(* Every SQL statement outside an explicit transaction is one step, since  *)
(* the worker's connection is in autocommit mode; the transaction of       *)
(* run_job is one step at its commit.  What a handler does is left open:   *)
(* it may commit, raise either kind of error, or take its process with it. *)
(***************************************************************************)
EXTENDS Naturals, FiniteSets

CONSTANTS
  Jobs,         \* slots for rows; a deleted row's slot may hold a later row
  Kinds,        \* job types
  KindOf,       \* the job type of the rows of a slot
  Recurring,    \* types under the index jobs_one_queued_per_recurring_type
  Cleanup,      \* the type jobs.cleanup, or a value outside Kinds
  Loopers,      \* processes running worker/main.py
  Drains,       \* invocations of api/drain.py that may overlap
  MaxAttempts,  \* jobs.max_attempts
  DrainLimit,   \* jobs claimed by one drain at most
  FaultyKinds,  \* types whose handlers may raise or be killed
  Overrun,      \* rows whose runs may outlive STALE_SECONDS in a live worker
  NoJob         \* held by a worker that holds no job

Workers == Loopers \cup Drains
Leased == Jobs \ Overrun  \* rows whose runs end within their lease

ASSUME JobQueueAssumption ==
  /\ IsFiniteSet(Jobs)
  /\ NoJob \notin Jobs
  /\ KindOf \in [Jobs -> Kinds]
  /\ Recurring \subseteq Kinds
  /\ FaultyKinds \subseteq Kinds
  /\ Loopers \cap Drains = {}
  /\ MaxAttempts \in Nat \ {0}
  /\ DrainLimit \in Nat \ {0}
  /\ Overrun \subseteq Jobs

VARIABLES
  status,    \* jobs.status, "absent" where the slot holds no row
  attempts,  \* jobs.attempts
  turn,      \* rank of run_after among rows with run_after <= now(); 0 before
  stale,     \* running rows with locked_at older than STALE_SECONDS
  aged,      \* done rows with completed_at older than JOB_RETENTION_DAYS
  effects,   \* how often a transaction running the row's handler committed
  phase,     \* where each worker process is
  held,      \* the job each worker is running
  seen,      \* job.attempts of the worker's own copy, read by the claim
  served     \* jobs claimed so far by this drain

rows == <<status, attempts, turn, stale, aged, effects>>
procs == <<phase, held, seen, served>>
vars == <<status, attempts, turn, stale, aged, effects, phase, held, seen, served>>

Statuses == {"absent", "queued", "running", "done", "parked"}
Phases == {"off", "reaping", "ready", "running"}

TypeOK ==
  /\ status \in [Jobs -> Statuses]
  /\ attempts \in [Jobs -> Nat]
  /\ turn \in [Jobs -> Nat]
  /\ stale \subseteq Jobs
  /\ aged \subseteq Jobs
  /\ effects \in [Jobs -> Nat]
  /\ phase \in [Workers -> Phases]
  /\ held \in [Workers -> Jobs \cup {NoJob}]
  /\ seen \in [Workers -> Nat]
  /\ served \in [Workers -> 0..DrainLimit]

Init ==
  /\ status = [j \in Jobs |-> "absent"]
  /\ attempts = [j \in Jobs |-> 0]
  /\ turn = [j \in Jobs |-> 0]
  /\ stale = {}
  /\ aged = {}
  /\ effects = [j \in Jobs |-> 0]
  /\ phase = [w \in Workers |-> "off"]
  /\ held = [w \in Workers |-> NoJob]
  /\ seen = [w \in Workers |-> 0]
  /\ served = [w \in Workers |-> 0]

-----------------------------------------------------------------------------
(* Reading the table.                                                      *)

Holders(j) == {w \in Workers : held[w] = j}

\* No row here, and no worker still holds the row that was.
Vacant(k) == {j \in Jobs : KindOf[j] = k /\ status[j] = "absent" /\ Holders(j) = {}}
Fresh(k) == CHOOSE j \in Vacant(k) : TRUE

\* (Mutant: the unique index without its WHERE clause sees every row of the type.)
RowsOf(k) == {j \in Jobs : KindOf[j] = k /\ status[j] # "absent"}

QueuedOf(k) == {j \in Jobs : KindOf[j] = k /\ status[j] = "queued"}

\* The rows CLAIM_SQL may pick, and the one ORDER BY run_after, id LIMIT 1 picks
\* (rows inserted by one statement share run_after; either may come first).
Due == {j \in Jobs : status[j] = "queued" /\ turn[j] > 0}
AnyDue == Due  \* (mutant: no ORDER BY)
FirstDue == {j \in Due : \A i \in Due : turn[j] <= turn[i]}

\* Order of run_after once the rows `gone` leave the line and the rows `now`
\* join at its end; ranks are kept dense so that they stay bounded.
Line(gone, now) ==
  LET raw == [j \in Jobs |-> IF j \in now THEN Cardinality(Jobs) + 1
                             ELSE IF j \in gone THEN 0 ELSE turn[j]]
  IN [j \in Jobs |-> Cardinality({raw[i] : i \in Jobs} \cap 1..raw[j])]

\* The worker lets go of its job and is next found at phase p.
LetGo(w, p) ==
  /\ phase' = [phase EXCEPT ![w] = p]
  /\ held' = [held EXCEPT ![w] = NoJob]
  /\ seen' = [seen EXCEPT ![w] = 0]
  /\ served' = [served EXCEPT ![w] = IF p = "off" THEN 0 ELSE @]

\* Would the rows `back`, returned to 'queued', break the partial unique index?
IndexRefuses(back) ==
  \E k \in Recurring, i, j \in Jobs :
    /\ KindOf[i] = k /\ KindOf[j] = k /\ i # j
    /\ i \in back
    /\ j \in back \/ status[j] = "queued"

-----------------------------------------------------------------------------
(* Rows come into being.                                                   *)

\* enqueueJob and enqueue_job: run_after is the moment of the insert.
Enqueue(j) ==
  /\ KindOf[j] \notin Recurring
  /\ j \in Vacant(KindOf[j])
  /\ status' = [status EXCEPT ![j] = "queued"]
  /\ turn' = Line({}, {j})
  /\ UNCHANGED <<attempts, stale, aged, effects, phase, held, seen, served>>

\* A process starts: ensure_scheduled for every recurring type, where ON
\* CONFLICT DO NOTHING skips a type that has a queued row.  (The number of slots
\* bounds the table: a type whose slots are used up gets no row either.)
Start(w) ==
  LET missing == {k \in Recurring : QueuedOf(k) = {} /\ Vacant(k) # {}}
      new == {Fresh(k) : k \in missing}
  IN /\ phase[w] = "off"
     /\ status' = [j \in Jobs |-> IF j \in new THEN "queued" ELSE status[j]]
     /\ turn' = Line({}, new)
     /\ phase' = [phase EXCEPT ![w] = IF w \in Drains THEN "reaping" ELSE "ready"]
     /\ UNCHANGED <<attempts, stale, aged, effects, held, seen, served>>

-----------------------------------------------------------------------------
(* reclaim_stale_jobs: one UPDATE over every stale row.  If it breaks the  *)
(* index it changes nothing and raises; a drain then answers 500 and ends, *)
(* a loop logs the exception and goes on (no visible step).                *)

MayReap(w) == phase[w] = "reaping" \/ (w \in Loopers /\ phase[w] = "ready" /\ stale # {})
AllStale == stale  \* (mutant: RECLAIM_SQL without its CASE on attempts)
Requeued == {j \in stale : attempts[j] < MaxAttempts}
Exhausted == {j \in stale : attempts[j] >= MaxAttempts}

Reap(w) ==
  /\ MayReap(w)
  /\ ~IndexRefuses(Requeued)
  /\ status' = [j \in Jobs |-> IF j \in Requeued THEN "queued"
                               ELSE IF j \in Exhausted THEN "parked" ELSE status[j]]
  /\ turn' = Line(Exhausted, {})
  /\ stale' = {}
  /\ phase' = [phase EXCEPT ![w] = "ready"]
  /\ UNCHANGED <<attempts, aged, effects, held, seen, served>>

ReapRefused(w) ==
  /\ phase[w] = "reaping"
  /\ IndexRefuses(Requeued)
  /\ LetGo(w, "off")
  /\ UNCHANGED rows

-----------------------------------------------------------------------------
(* One job, from its claim to its end.                                     *)

\* (Mutant: claim_job_naively, whose UPDATE does not look at the status again.)
ClaimNaively(w) ==
  /\ phase[w] = "ready"
  /\ \E j \in {i \in Jobs : status[i] \in {"queued", "running"} /\ turn[i] > 0} :
       /\ status' = [status EXCEPT ![j] = "running"]
       /\ attempts' = [attempts EXCEPT ![j] = @ + 1]
       /\ held' = [held EXCEPT ![w] = j]
       /\ seen' = [seen EXCEPT ![w] = attempts[j] + 1]
  /\ phase' = [phase EXCEPT ![w] = "running"]
  /\ UNCHANGED <<turn, stale, aged, effects, served>>

\* A drain counts its claims up to its limit; a loop has none.
OneTooMany(w) == w \in Drains => served[w] <= DrainLimit  \* (mutant: while claimed <= limit)
MayClaim(w) == w \in Drains => served[w] < DrainLimit

Claim(w) ==
  /\ phase[w] = "ready" /\ MayClaim(w)
  /\ \E j \in FirstDue :
       /\ status' = [status EXCEPT ![j] = "running"]
       /\ attempts' = [attempts EXCEPT ![j] = @ + 1]
       /\ held' = [held EXCEPT ![w] = j]
       /\ seen' = [seen EXCEPT ![w] = attempts[j] + 1]
  /\ phase' = [phase EXCEPT ![w] = "running"]
  /\ served' = [served EXCEPT ![w] = IF w \in Drains THEN @ + 1 ELSE @]
  /\ UNCHANGED <<turn, stale, aged, effects>>

\* (Mutant: everything settled long ago is deleted, the dead letters too.)
DeletesSettled(k) ==
  IF k = Cleanup THEN {j \in Jobs : j \in aged \/ status[j] = "parked"} ELSE {}

\* Rows a handler of this type deletes: cleanup takes the old done rows only.
Deletes(k) == IF k = Cleanup THEN {j \in aged : status[j] = "done"} ELSE {}

\* Must a handler of this type insert the row of its own next run (_schedule_next,
\* ON CONFLICT DO NOTHING)?  The new row may take a slot the handler has emptied.
NeedsSuccessor(k) == k \in Recurring /\ QueuedOf(k) = {}
Emptied(k) == Vacant(k) \cup {j \in Deletes(k) : KindOf[j] = k /\ Holders(j) = {}}
Successors(k) == IF NeedsSuccessor(k) THEN {{j} : j \in Emptied(k)} ELSE {{}}

\* run_job's transaction commits: the handler's writes and complete_job together.
\* complete_job names the row by id alone.
Commit(w) ==
  LET j == held[w]
      gone == Deletes(KindOf[j])
      done == {j} \ ({i \in Jobs : status[i] = "absent"} \cup gone)
  IN /\ phase[w] = "running"
     /\ \E next \in Successors(KindOf[j]) :
          status' = [i \in Jobs |-> IF i \in next THEN "queued"
                                    ELSE IF i \in gone THEN "absent"
                                    ELSE IF i \in done THEN "done" ELSE status[i]]
     /\ attempts' = [i \in Jobs |-> IF i \in gone THEN 0 ELSE attempts[i]]
     /\ turn' = Line({j} \cup gone, {})
     /\ stale' = stale \ {j}
     /\ aged' = aged \ (gone \cup {j})
     /\ effects' = [i \in Jobs |-> IF i \in gone THEN 0
                                   ELSE IF i = j THEN effects[i] + 1 ELSE effects[i]]
     /\ LetGo(w, "ready")

\* fail_job after the rollback, in its own statement: the row is named by id, the
\* attempt count is the worker's copy.  Requeuing may break the unique index; the
\* exception then leaves run_job and the row stays as it was.
Park(w) ==
  LET j == held[w]
  IN /\ status[j] # "absent"
     /\ status' = [status EXCEPT ![j] = "parked"]
     /\ turn' = Line({j}, {})
     /\ stale' = stale \ {j}
     /\ LetGo(w, "ready")

Retry(w) ==
  LET j == held[w]
  IN /\ status[j] # "absent"
     /\ ~IndexRefuses({j})
     /\ status' = [status EXCEPT ![j] = "queued"]
     /\ turn' = Line({j}, {})
     /\ stale' = stale \ {j}
     /\ LetGo(w, "ready")

\* The update names a row retention has deleted: nothing changes.
FailGone(w) ==
  /\ status[held[w]] = "absent"
  /\ LetGo(w, "ready")
  /\ UNCHANGED <<status, turn, stale>>

RetryRefused(w) ==
  /\ status[held[w]] # "absent"
  /\ IndexRefuses({held[w]})
  /\ LetGo(w, IF w \in Drains THEN "off" ELSE "ready")
  /\ UNCHANGED <<status, turn, stale>>

FailJob(w) ==
  /\ phase[w] = "running"
  /\ KindOf[held[w]] \in FaultyKinds
  /\ \E permanent \in BOOLEAN :
       LET parks == permanent \/ seen[w] >= MaxAttempts
       IN \/ FailGone(w)
          \/ parks /\ Park(w)
          \/ ~parks /\ Retry(w)
          \/ ~parks /\ RetryRefused(w)
  /\ UNCHANGED <<attempts, aged, effects>>

\* (Mutant: the handler's writes are not in one transaction with complete_job.)
DieHalfDone(w) ==
  /\ phase[w] = "running"
  /\ effects' = [effects EXCEPT ![held[w]] = @ + 1]
  /\ LetGo(w, "off")
  /\ UNCHANGED <<status, attempts, turn, stale, aged>>

\* The process is killed, or its connection is lost so that fail_job raises too.
\* The row stays 'running'.  A loop that only lost its connection carries on.
Die(w) ==
  /\ phase[w] = "running"
  /\ KindOf[held[w]] \in FaultyKinds
  /\ \E p \in {"off"} \cup (IF w \in Loopers THEN {"ready"} ELSE {}) : LetGo(w, p)
  /\ UNCHANGED rows

\* A drain ends at its limit, when its budget is spent or with nothing to claim;
\* a loop ends on SIGTERM, between jobs.
Stop(w) ==
  /\ phase[w] = "ready"
  /\ w \in Drains => served[w] > 0 \/ Due = {}
  /\ LetGo(w, "off")
  /\ UNCHANGED rows

-----------------------------------------------------------------------------
(* Time passes for a row.                                                  *)

RunAfterPasses(j) ==
  /\ status[j] = "queued" /\ turn[j] = 0
  /\ turn' = Line({}, {j})
  /\ UNCHANGED <<status, attempts, stale, aged, effects, procs>>

LeaseExpires(j) ==
  /\ status[j] = "running" /\ j \notin stale
  /\ j \in Overrun \/ Holders(j) = {}
  /\ stale' = stale \cup {j}
  /\ UNCHANGED <<status, attempts, turn, aged, effects, procs>>

RetentionPasses(j) ==
  /\ status[j] = "done" /\ j \notin aged
  /\ aged' = aged \cup {j}
  /\ UNCHANGED <<status, attempts, turn, stale, effects, procs>>

-----------------------------------------------------------------------------
Next ==
  \/ \E j \in Jobs : \/ Enqueue(j) \/ RunAfterPasses(j)
                     \/ LeaseExpires(j) \/ RetentionPasses(j)
  \/ \E w \in Workers : \/ Start(w) \/ Reap(w) \/ ReapRefused(w) \/ Claim(w)
                        \/ Commit(w) \/ FailJob(w) \/ Die(w) \/ Stop(w)

Spec == Init /\ [][Next]_vars

(***************************************************************************)
(* Fairness.  The scheduler keeps invoking drains and the platform keeps   *)
(* restarting loops (Start); a process that is running takes its next      *)
(* statement (Reap, Claim, Stop); a claimed job ends one way or another,   *)
(* since every vendor call has a timeout and a function a time limit; and  *)
(* time passes.  A loop checks its reap timer before every claim and is    *)
(* not shut down for ever before it claims, hence strong fairness there.   *)
(***************************************************************************)
Ends(w) == Commit(w) \/ FailJob(w) \/ Die(w)

Fairness ==
  /\ \A w \in Workers : WF_vars(Start(w)) /\ WF_vars(Ends(w)) /\ WF_vars(Claim(w))
  /\ \A w \in Drains : WF_vars(Reap(w) \/ ReapRefused(w)) /\ WF_vars(Stop(w))
  /\ \A w \in Loopers : SF_vars(Reap(w)) /\ SF_vars(Claim(w))
  /\ \A j \in Jobs : /\ WF_vars(RunAfterPasses(j)) /\ WF_vars(LeaseExpires(j))
                     /\ WF_vars(RetentionPasses(j))

FairSpec == Spec /\ Fairness

-----------------------------------------------------------------------------
(* Properties.                                                             *)

\* No two workers run one job that keeps its lease, and while a worker runs it its
\* row says so with the attempt number the worker knows, whatever the jobs beside
\* it do.  (The reason for FOR UPDATE SKIP LOCKED in CLAIM_SQL and for STALE_SECONDS
\* exceeding the longest job.)
ExclusiveClaim ==
  \A w \in Workers :
    held[w] \in Leased =>
      /\ status[held[w]] = "running"
      /\ attempts[held[w]] = seen[w]
      /\ Holders(held[w]) = {w}

\* The effects of a job that keeps its lease are committed exactly when it is done,
\* and once, across crashes, retries and reclaims (run_job's single transaction).
ExactlyOnce ==
  \A j \in Leased : effects[j] = IF status[j] = "done" THEN 1 ELSE 0

\* Whatever kills or fails its runs, a job that keeps its lease is claimed at most
\* MaxAttempts times and nothing puts it back in the queue with no attempt left.
NoEndlessRetry ==
  \A j \in Leased :
    /\ attempts[j] <= MaxAttempts
    /\ status[j] = "queued" => attempts[j] < MaxAttempts

\* Even a job that outlives its lease, so that it is reclaimed and executed by
\* several workers at once and a late fail_job puts back a row that is not its own
\* any more, is claimed a bounded number of times: each attempt but the last can be
\* reclaimed once and failed once.
OverrunsEnd == \A j \in Jobs : attempts[j] <= 2 * MaxAttempts - 1

\* What the table promises whoever enqueues a job that keeps its lease: Delivery,
\* where a queued and a running row are both pending.
outcome == [j \in Leased |-> CASE status[j] = "absent" -> "none"
                               [] status[j] \in {"queued", "running"} -> "pending"
                               [] OTHER -> status[j]]
landed == [j \in Leased |-> effects[j]]
Promise == INSTANCE Delivery WITH Jobs <- Leased, outcome <- outcome, effects <- landed
DeliveryPromise == Promise!Spec

\* Every job of a type that does not recur is done or parked in the end, for any
\* number of later arrivals (ORDER BY run_after) and any faults in its runs.
EveryJobSettles ==
  \A j \in Leased :
    KindOf[j] \notin Recurring =>
      (status[j] \in {"queued", "running"} ~> status[j] \in {"done", "parked"})

\* A recurring job that does not fail is run again and again: neither its own
\* successor nor a racing ensure_scheduled ever loses or blocks the chain.
RecurringKeepsRunning ==
  \A k \in Recurring : []<>(\E w \in Workers : held[w] # NoJob /\ KindOf[held[w]] = k)

\* jobs.py, reclaim_stale_jobs: "Rescue jobs whose worker died mid-flight."
AbandonedJobRescued ==
  \A j \in Jobs :
    (status[j] = "running" /\ Holders(j) = {}) ~> status[j] # "running"
=============================================================================
