--------------------------- MODULE JobQueueProofs ---------------------------
(***************************************************************************)
(* What holds of JobQueue for any set of rows, any workers and any limits. *)
(***************************************************************************)
EXTENDS JobQueue, FiniteSetTheorems, TLAPS

\* Ranks are numbers: a rank counts members of an interval.
LEMMA LineType ==
  ASSUME turn \in [Jobs -> Nat], NEW gone, NEW now
  PROVE  Line(gone, now) \in [Jobs -> Nat]
<1> DEFINE raw == [j \in Jobs |-> IF j \in now THEN Cardinality(Jobs) + 1
                                  ELSE IF j \in gone THEN 0 ELSE turn[j]]
           seenBefore(j) == {raw[i] : i \in Jobs} \cap 1..raw[j]
<1>1. Cardinality(Jobs) \in Nat
  BY JobQueueAssumption, FS_CardinalityType
<1>2. raw \in [Jobs -> Nat]
  BY <1>1
<1> HIDE DEF raw
<1>3. ASSUME NEW j \in Jobs
      PROVE  Cardinality(seenBefore(j)) \in Nat
  <2>1. IsFiniteSet(1..raw[j])
    BY <1>2, FS_Interval
  <2>2. IsFiniteSet(seenBefore(j))
    BY <2>1, FS_Subset
  <2>3. QED
    BY <2>2, FS_CardinalityType
<1>4. Line(gone, now) = [j \in Jobs |-> Cardinality(seenBefore(j))]
  BY DEF Line, raw
<1>5. QED
  BY <1>3, <1>4

\* A worker that holds a job that keeps its lease holds a row of the table.
LEMMA LeasedRows == Leased \subseteq Jobs /\ NoJob \notin Leased
BY JobQueueAssumption DEF Leased

\* A vacant slot is there to be chosen.
LEMMA FreshSlot ==
  ASSUME NEW k, Vacant(k) # {}
  PROVE  Fresh(k) \in Vacant(k)
BY DEF Fresh

-----------------------------------------------------------------------------
(* Typing.                                                                 *)

LEMMA TypeInit == Init => TypeOK
BY JobQueueAssumption DEF Init, TypeOK, Statuses, Phases

LEMMA TypeNext == TypeOK /\ [Next]_vars => TypeOK'
<1> SUFFICES ASSUME TypeOK, [Next]_vars
             PROVE  TypeOK'
  OBVIOUS
<1> USE DEF TypeOK, Statuses, Phases
<1>line. ASSUME NEW gone, NEW now
         PROVE  Line(gone, now) \in [Jobs -> Nat]
  BY LineType
<1>letGo. ASSUME NEW w \in Workers, NEW p \in Phases, LetGo(w, p)
          PROVE  /\ phase' \in [Workers -> Phases]
                 /\ held' \in [Workers -> Jobs \cup {NoJob}]
                 /\ seen' \in [Workers -> Nat]
                 /\ served' \in [Workers -> 0..DrainLimit]
  BY <1>letGo, JobQueueAssumption DEF LetGo
<1>1. ASSUME NEW j \in Jobs, Enqueue(j)
      PROVE  TypeOK'
  BY <1>1, <1>line DEF Enqueue
<1>2. ASSUME NEW j \in Jobs, RunAfterPasses(j)
      PROVE  TypeOK'
  BY <1>2, <1>line DEF RunAfterPasses, procs
<1>3. ASSUME NEW j \in Jobs, LeaseExpires(j)
      PROVE  TypeOK'
  BY <1>3 DEF LeaseExpires, procs
<1>4. ASSUME NEW j \in Jobs, RetentionPasses(j)
      PROVE  TypeOK'
  BY <1>4 DEF RetentionPasses, procs
<1>5. ASSUME NEW w \in Workers, Start(w)
      PROVE  TypeOK'
  <2>1. turn' \in [Jobs -> Nat]
    BY <1>5, <1>line DEF Start
  <2>2. QED
    BY <1>5, <2>1 DEF Start
<1>6. ASSUME NEW w \in Workers, Reap(w)
      PROVE  TypeOK'
  BY <1>6, <1>line DEF Reap, Exhausted
<1>7. ASSUME NEW w \in Workers, ReapRefused(w)
      PROVE  TypeOK'
  BY <1>7, <1>letGo DEF ReapRefused, rows
<1>8. ASSUME NEW w \in Workers, Claim(w)
      PROVE  TypeOK'
  <2>1. served' \in [Workers -> 0..DrainLimit]
    BY <1>8, JobQueueAssumption DEF Claim, MayClaim
  <2>2. QED
    BY <1>8, <2>1 DEF Claim, FirstDue, Due
<1>9. ASSUME NEW w \in Workers, Commit(w)
      PROVE  TypeOK'
  <2>1. turn' \in [Jobs -> Nat]
    BY <1>9, <1>line DEF Commit
  <2>2. LetGo(w, "ready")
    BY <1>9 DEF Commit
  <2>3. status' \in [Jobs -> Statuses]
    BY <1>9 DEF Commit
  <2>4. effects' \in [Jobs -> Nat] /\ attempts' \in [Jobs -> Nat]
    BY <1>9 DEF Commit
  <2>5. stale' \subseteq Jobs /\ aged' \subseteq Jobs
    BY <1>9 DEF Commit
  <2>6. QED
    BY <2>1, <2>2, <2>3, <2>4, <2>5, <1>letGo
<1>10. ASSUME NEW w \in Workers, FailJob(w)
       PROVE  TypeOK'
  <2>1. /\ status' \in [Jobs -> Statuses]
        /\ turn' \in [Jobs -> Nat]
        /\ stale' \subseteq Jobs
        /\ \E p \in Phases : LetGo(w, p)
    <3>1. CASE FailGone(w)
      BY <3>1 DEF FailGone
    <3>2. CASE Park(w)
      BY <3>2, <1>line DEF Park
    <3>3. CASE Retry(w)
      BY <3>3, <1>line DEF Retry
    <3>4. CASE RetryRefused(w)
      BY <3>4 DEF RetryRefused
    <3>5. QED
      BY <1>10, <3>1, <3>2, <3>3, <3>4 DEF FailJob
  <2>2. QED
    BY <1>10, <2>1, <1>letGo DEF FailJob
<1>11. ASSUME NEW w \in Workers, Die(w)
       PROVE  TypeOK'
  BY <1>11, <1>letGo DEF Die, rows
<1>12. ASSUME NEW w \in Workers, Stop(w)
       PROVE  TypeOK'
  BY <1>12, <1>letGo DEF Stop, rows
<1>13. CASE UNCHANGED vars
  BY <1>13 DEF vars
<1>14. QED
  BY <1>1, <1>2, <1>3, <1>4, <1>5, <1>6, <1>7, <1>8, <1>9, <1>10, <1>11, <1>12, <1>13
     DEF Next

\* Every variable keeps its type, whatever handlers do and however long they take.
THEOREM TypeCorrect == Spec => []TypeOK
<1>1. Init => TypeOK
  BY TypeInit
<1>2. TypeOK /\ [Next]_vars => TypeOK'
  BY TypeNext
<1>3. QED
  BY <1>1, <1>2, PTL DEF Spec

-----------------------------------------------------------------------------
(* The inductive invariant.  ExclusiveClaim, ExactlyOnce and NoEndlessRetry *)
(* need three facts more: a worker holds a job exactly while it runs one,  *)
(* a stale row of a job that keeps its lease has lost its worker, and a    *)
(* slot that is given to a new row starts with no attempts.  Jobs that     *)
(* outlive their leases move no row but their own and the ones retention   *)
(* deletes, so the rest of the table keeps the invariant beside them.      *)

HoldsWhileRunning == \A w \in Workers : phase[w] = "running" <=> held[w] # NoJob

OwnsRow ==
  \A w \in Workers :
    held[w] \in Leased => status[held[w]] = "running" /\ attempts[held[w]] = seen[w]

NoSharing ==
  \A v, w \in Workers : held[v] = held[w] /\ held[v] \in Leased => v = w

StaleIsOrphaned ==
  \A j \in stale \cap Leased : status[j] = "running" /\ \A w \in Workers : held[w] # j

SlotsStartFresh == \A j \in Leased : status[j] = "absent" => attempts[j] = 0

IInv ==
  /\ TypeOK
  /\ HoldsWhileRunning
  /\ OwnsRow
  /\ NoSharing
  /\ StaleIsOrphaned
  /\ SlotsStartFresh
  /\ ExactlyOnce
  /\ NoEndlessRetry

LEMMA IInvInit == Init => IInv
BY TypeInit, JobQueueAssumption, LeasedRows
   DEF Init, IInv, HoldsWhileRunning, OwnsRow, NoSharing, StaleIsOrphaned, SlotsStartFresh,
       ExactlyOnce, NoEndlessRetry

LEMMA IInvGives == IInv => ExclusiveClaim
BY DEF IInv, TypeOK, OwnsRow, NoSharing, ExclusiveClaim, Holders

\* Inserting rows, reclaiming stale ones and the passing of time: steps that move
\* rows no worker holds.
LEMMA UnheldRowsMove ==
  ASSUME IInv, TypeOK',
         \/ \E j \in Jobs : \/ Enqueue(j) \/ RunAfterPasses(j)
                            \/ LeaseExpires(j) \/ RetentionPasses(j)
         \/ \E w \in Workers : Start(w) \/ Reap(w)
  PROVE  IInv'
<1> USE DEF IInv, HoldsWhileRunning, OwnsRow, NoSharing, StaleIsOrphaned, SlotsStartFresh,
            ExactlyOnce, NoEndlessRetry
<1>leased. Leased \subseteq Jobs /\ NoJob \notin Leased
  BY LeasedRows
<1>1. ASSUME NEW j \in Jobs, Enqueue(j)
      PROVE  IInv'
  <2>1. /\ status[j] = "absent" /\ \A w \in Workers : held[w] # j
        /\ status' = [status EXCEPT ![j] = "queued"]
        /\ UNCHANGED <<attempts, stale, aged, effects, phase, held, seen, served>>
    BY <1>1 DEF Enqueue, Vacant, Holders
  <2>2. HoldsWhileRunning' /\ OwnsRow' /\ NoSharing' /\ StaleIsOrphaned'
    BY <1>leased, <2>1 DEF TypeOK
  <2>3. SlotsStartFresh' /\ ExactlyOnce' /\ NoEndlessRetry'
    BY <1>leased, <2>1, JobQueueAssumption DEF TypeOK
  <2>4. QED
    BY <2>2, <2>3
<1>2. ASSUME NEW j \in Jobs, RunAfterPasses(j)
      PROVE  IInv'
  BY <1>2, <1>leased DEF RunAfterPasses, procs, TypeOK
<1>3. ASSUME NEW j \in Jobs, LeaseExpires(j)
      PROVE  IInv'
  BY <1>3, <1>leased DEF LeaseExpires, Leased, procs, Holders, TypeOK
<1>4. ASSUME NEW j \in Jobs, RetentionPasses(j)
      PROVE  IInv'
  BY <1>4, <1>leased DEF RetentionPasses, procs, TypeOK
<1>5. ASSUME NEW w \in Workers, Start(w)
      PROVE  IInv'
  <2> DEFINE missing == {k \in Recurring : QueuedOf(k) = {} /\ Vacant(k) # {}}
             new == {Fresh(k) : k \in missing}
  <2>1. \A j \in new : j \in Jobs /\ status[j] = "absent" /\ \A v \in Workers : held[v] # j
    BY FreshSlot DEF Vacant, Holders
  <2>2. /\ status' = [j \in Jobs |-> IF j \in new THEN "queued" ELSE status[j]]
        /\ phase[w] = "off"
        /\ phase' = [phase EXCEPT ![w] = IF w \in Drains THEN "reaping" ELSE "ready"]
        /\ UNCHANGED <<attempts, stale, aged, effects, held, seen, served>>
    BY <1>5 DEF Start
  <2> HIDE DEF new
  <2>3. HoldsWhileRunning'
    BY <2>2 DEF TypeOK
  <2>4. OwnsRow' /\ NoSharing' /\ StaleIsOrphaned'
    BY <1>leased, <2>1, <2>2 DEF TypeOK
  <2>5. SlotsStartFresh' /\ ExactlyOnce' /\ NoEndlessRetry'
    BY <1>leased, <2>1, <2>2, JobQueueAssumption DEF TypeOK
  <2>6. QED
    BY <2>3, <2>4, <2>5
<1>6. ASSUME NEW w \in Workers, Reap(w)
      PROVE  IInv'
  <2>1. HoldsWhileRunning'
    BY <1>6 DEF Reap, MayReap, TypeOK
  <2>2. OwnsRow' /\ NoSharing' /\ StaleIsOrphaned'
    BY <1>6, <1>leased DEF Reap, Requeued, Exhausted, TypeOK
  <2>3. SlotsStartFresh' /\ ExactlyOnce' /\ NoEndlessRetry'
    BY <1>6, <1>leased, JobQueueAssumption DEF Reap, Requeued, Exhausted, TypeOK
  <2>4. QED
    BY <2>1, <2>2, <2>3
<1>7. QED
  BY <1>1, <1>2, <1>3, <1>4, <1>5, <1>6

\* What it means that a worker lets go of its job, under the invariant: only that
\* worker's entries change.
LEMMA LettingGo ==
  ASSUME IInv, NEW w \in Workers, NEW p \in Phases \ {"running"}, LetGo(w, p)
  PROVE  /\ HoldsWhileRunning' /\ NoSharing'
         /\ held'[w] = NoJob
         /\ \A v \in Workers \ {w} : held'[v] = held[v] /\ seen'[v] = seen[v]
<1> USE DEF IInv, TypeOK, LetGo, Phases
<1>1. /\ held' = [held EXCEPT ![w] = NoJob]
      /\ phase' = [phase EXCEPT ![w] = p]
      /\ seen' = [seen EXCEPT ![w] = 0]
  OBVIOUS
<1>2. HoldsWhileRunning'
  BY <1>1 DEF HoldsWhileRunning
<1>3. NoSharing'
  BY <1>1, LeasedRows DEF NoSharing
<1>4. QED
  BY <1>1, <1>2, <1>3

\* A running worker holds a row; if that row's runs keep their lease, it is running
\* with the attempt number the worker knows, it is not stale, and no other worker
\* holds it.
LEMMA Holding ==
  ASSUME IInv, NEW w \in Workers, phase[w] = "running"
  PROVE  /\ held[w] \in Jobs
         /\ held[w] \in Leased =>
              /\ status[held[w]] = "running"
              /\ attempts[held[w]] = seen[w]
              /\ effects[held[w]] = 0
              /\ held[w] \notin stale
              /\ \A v \in Workers \ {w} : held[v] # held[w]
<1>1. held[w] # NoJob /\ held[w] \in Jobs
  BY DEF IInv, TypeOK, HoldsWhileRunning
<1>2. SUFFICES ASSUME held[w] \in Leased
               PROVE  /\ status[held[w]] = "running"
                      /\ attempts[held[w]] = seen[w]
                      /\ effects[held[w]] = 0
                      /\ held[w] \notin stale
                      /\ \A v \in Workers \ {w} : held[v] # held[w]
  BY <1>1
<1>3. status[held[w]] = "running" /\ attempts[held[w]] = seen[w]
  BY <1>2 DEF IInv, OwnsRow
<1>4. held[w] \notin stale
  BY <1>2 DEF IInv, StaleIsOrphaned
<1>5. \A v \in Workers \ {w} : held[v] # held[w]
  BY <1>2 DEF IInv, NoSharing
<1>6. effects[held[w]] = 0
  BY <1>2, <1>3 DEF IInv, ExactlyOnce
<1>7. QED
  BY <1>3, <1>4, <1>5, <1>6

\* A claim takes a queued row, which no worker holds.
LEMMA ClaimStep ==
  ASSUME IInv, TypeOK', NEW w \in Workers, Claim(w)
  PROVE  IInv'
<1> USE DEF IInv, HoldsWhileRunning, OwnsRow, NoSharing, StaleIsOrphaned, SlotsStartFresh,
            ExactlyOnce, NoEndlessRetry
<1>leased. Leased \subseteq Jobs /\ NoJob \notin Leased
  BY LeasedRows
<1>1. PICK j \in FirstDue :
        /\ status' = [status EXCEPT ![j] = "running"]
        /\ attempts' = [attempts EXCEPT ![j] = @ + 1]
        /\ held' = [held EXCEPT ![w] = j]
        /\ seen' = [seen EXCEPT ![w] = attempts[j] + 1]
  BY DEF Claim
<1>2. j \in Jobs /\ j # NoJob /\ status[j] = "queued"
  BY JobQueueAssumption DEF FirstDue, Due
<1>3. /\ phase' = [phase EXCEPT ![w] = "running"]
      /\ UNCHANGED <<stale, aged, effects>>
  BY DEF Claim
<1>4. j \in Leased => (\A v \in Workers : held[v] # j) /\ j \notin stale
  BY <1>2
<1>5. HoldsWhileRunning'
  BY <1>1, <1>2, <1>3 DEF TypeOK
<1>6. OwnsRow' /\ NoSharing'
  BY <1>1, <1>2, <1>4, <1>leased DEF TypeOK
<1>7. StaleIsOrphaned'
  BY <1>1, <1>3, <1>4, <1>leased DEF TypeOK
<1>8. SlotsStartFresh' /\ ExactlyOnce' /\ NoEndlessRetry'
  BY <1>1, <1>2, <1>3, <1>leased, JobQueueAssumption DEF TypeOK
<1>9. QED
  BY <1>5, <1>6, <1>7, <1>8

\* A transaction commits: the row was the worker's own if its runs keep their lease,
\* so its effects had not been committed; a deleted row is done, so nobody holds it.
LEMMA CommitStep ==
  ASSUME IInv, TypeOK', NEW w \in Workers, Commit(w)
  PROVE  IInv'
<1> DEFINE j == held[w]
           gone == Deletes(KindOf[j])
<1>leased. Leased \subseteq Jobs /\ NoJob \notin Leased
  BY LeasedRows
<1>1. /\ phase[w] = "running"
      /\ LetGo(w, "ready")
      /\ attempts' = [i \in Jobs |-> IF i \in gone THEN 0 ELSE attempts[i]]
      /\ effects' = [i \in Jobs |-> IF i \in gone THEN 0
                                     ELSE IF i = j THEN effects[i] + 1 ELSE effects[i]]
      /\ stale' = stale \ {j}
  BY DEF Commit
<1>2. j \in Leased => /\ status[j] = "running" /\ effects[j] = 0 /\ j \notin stale
                       /\ \A v \in Workers \ {w} : held[v] # j
  BY <1>1, Holding
<1>3. \A i \in gone : status[i] = "done"
  BY DEF Deletes
<1>4. PICK next \in Successors(KindOf[j]) :
        status' = [i \in Jobs |-> IF i \in next THEN "queued"
                                  ELSE IF i \in gone THEN "absent"
                                  ELSE IF i \in {j} \ ({h \in Jobs : status[h] = "absent"} \cup gone)
                                       THEN "done" ELSE status[i]]
  BY DEF Commit
<1>5. ASSUME NEW i \in next
      PROVE  /\ i \in Jobs
             /\ status[i] = "absent" \/ i \in gone
             /\ \A v \in Workers : held[v] # i
  <2>1. i \in Emptied(KindOf[j])
    BY DEF Successors
  <2>2. CASE i \in Vacant(KindOf[j])
    BY <2>2 DEF Vacant, Holders
  <2>3. CASE i \in Deletes(KindOf[j]) /\ Holders(i) = {}
    BY <2>3 DEF Deletes, Holders, IInv, TypeOK
  <2>4. QED
    BY <2>1, <2>2, <2>3 DEF Emptied
<1> HIDE DEF gone, j
<1>6. /\ j \in Leased => status'[j] = "done"
      /\ \A i \in Leased : i # j => \/ i \in next /\ status'[i] = "queued"
                                    \/ i \notin next /\ i \in gone /\ status'[i] = "absent"
                                    \/ i \notin next /\ i \notin gone /\ status'[i] = status[i]
  BY <1>2, <1>3, <1>4, <1>5, <1>leased DEF j
<1>7. /\ HoldsWhileRunning' /\ NoSharing'
      /\ held'[w] = NoJob
      /\ \A v \in Workers \ {w} : held'[v] = held[v] /\ seen'[v] = seen[v]
  BY <1>1, LettingGo DEF Phases
<1>8. OwnsRow'
  <2>1. SUFFICES ASSUME NEW v \in Workers, held'[v] \in Leased
                 PROVE  status'[held'[v]] = "running" /\ attempts'[held'[v]] = seen'[v]
    BY DEF OwnsRow
  <2>2. v # w /\ held'[v] = held[v] /\ seen'[v] = seen[v]
    BY <1>7, <1>leased, <2>1
  <2>3. held[v] \in Leased /\ status[held[v]] = "running" /\ attempts[held[v]] = seen[v]
    BY <2>1, <2>2 DEF IInv, TypeOK, OwnsRow
  <2>4. held[v] # j /\ held[v] \notin gone /\ held[v] \notin next
    BY <1>2, <1>3, <1>5, <2>2, <2>3 DEF j
  <2>5. QED
    BY <1>1, <1>6, <1>leased, <2>2, <2>3, <2>4
<1>9. StaleIsOrphaned'
  <2>1. SUFFICES ASSUME NEW i \in stale' \cap Leased
                 PROVE  status'[i] = "running" /\ \A v \in Workers : held'[v] # i
    BY DEF StaleIsOrphaned
  <2>2. /\ i \in Leased /\ i \in stale /\ i # j /\ status[i] = "running"
        /\ \A v \in Workers : held[v] # i
    BY <1>1, <2>1 DEF IInv, TypeOK, StaleIsOrphaned
  <2>3. i \notin gone /\ i \notin next /\ i # NoJob
    BY <1>3, <1>5, <1>leased, <2>2
  <2>4. QED
    BY <1>6, <1>7, <2>2, <2>3
<1>10. SlotsStartFresh' /\ NoEndlessRetry'
  <2>1. ASSUME NEW i \in Leased
        PROVE  /\ status'[i] = "absent" => attempts'[i] = 0
               /\ attempts'[i] <= MaxAttempts
               /\ status'[i] = "queued" => attempts'[i] < MaxAttempts
    <3>1. attempts'[i] = IF i \in gone THEN 0 ELSE attempts[i]
      BY <1>1, <1>leased
    <3>2. /\ status[i] = "absent" => attempts[i] = 0
          /\ attempts[i] <= MaxAttempts
          /\ status[i] = "queued" => attempts[i] < MaxAttempts
          /\ attempts[i] \in Nat
      BY <1>leased DEF IInv, TypeOK, SlotsStartFresh, NoEndlessRetry
    <3>3. MaxAttempts \in Nat /\ MaxAttempts > 0
      BY JobQueueAssumption
    <3>4. QED
      BY <1>5, <1>6, <3>1, <3>2, <3>3
  <2>2. QED
    BY <2>1 DEF SlotsStartFresh, NoEndlessRetry
<1>11. ExactlyOnce'
  <2>1. ASSUME NEW i \in Leased
        PROVE  effects'[i] = IF status'[i] = "done" THEN 1 ELSE 0
    <3>1. effects'[i] = IF i \in gone THEN 0 ELSE IF i = j THEN effects[i] + 1 ELSE effects[i]
      BY <1>1, <1>leased
    <3>2. effects[i] = IF status[i] = "done" THEN 1 ELSE 0
      BY DEF IInv, ExactlyOnce
    <3>3. QED
      BY <1>2, <1>3, <1>5, <1>6, <3>1, <3>2
  <2>2. QED
    BY <2>1 DEF ExactlyOnce
<1>12. QED
  BY <1>7, <1>8, <1>9, <1>10, <1>11 DEF IInv

\* A failure puts the row back, parks it, or leaves it as it is.  Putting back a row
\* whose runs keep their lease leaves an attempt: the worker's own count is the row's.
LEMMA FailStep ==
  ASSUME IInv, TypeOK', NEW w \in Workers, FailJob(w)
  PROVE  IInv'
<1> DEFINE j == held[w]
<1>leased. Leased \subseteq Jobs /\ NoJob \notin Leased
  BY LeasedRows
<1>1. /\ phase[w] = "running"
      /\ UNCHANGED <<attempts, aged, effects>>
  BY DEF FailJob
<1>2. /\ j \in Jobs
      /\ j \in Leased => /\ status[j] = "running" /\ attempts[j] = seen[w]
                         /\ effects[j] = 0 /\ j \notin stale
                         /\ \A v \in Workers \ {w} : held[v] # j
  BY <1>1, Holding
<1>3. \E s \in Statuses, p \in {"ready", "off"} :
        /\ status' = [status EXCEPT ![j] = s]
        /\ j \in Leased => s \in {"parked", "queued", "running"}
        /\ s = "queued" /\ j \in Leased => seen[w] < MaxAttempts
        /\ stale' \in {stale, stale \ {j}}
        /\ LetGo(w, p)
  <2>type. status \in [Jobs -> Statuses] /\ seen[w] \in Nat
    BY DEF IInv, TypeOK
  <2>1. CASE Park(w)
    BY <1>2, <2>1 DEF Park, Statuses
  <2>2. CASE Retry(w) /\ ~(seen[w] >= MaxAttempts)
    <3>1. seen[w] < MaxAttempts
      BY <2>2, <2>type, JobQueueAssumption
    <3>2. QED
      BY <1>2, <2>2, <3>1 DEF Retry, Statuses
  <2>3. CASE FailGone(w) \/ RetryRefused(w)
    <3>1. status' = [status EXCEPT ![j] = status[j]] /\ stale' = stale
      BY <2>type, <1>2, <2>3 DEF FailGone, RetryRefused
    <3>2. \E p \in {"ready", "off"} : LetGo(w, p)
      BY <2>3 DEF FailGone, RetryRefused
    <3>3. status[j] \in Statuses
      BY <1>2, <2>type
    <3>4. QED
      BY <1>2, <3>1, <3>2, <3>3
  <2>4. QED
    BY <2>1, <2>2, <2>3 DEF FailJob
<1>4. PICK s \in Statuses, p \in {"ready", "off"} :
        /\ status' = [status EXCEPT ![j] = s]
        /\ j \in Leased => s \in {"parked", "queued", "running"}
        /\ s = "queued" /\ j \in Leased => seen[w] < MaxAttempts
        /\ stale' \in {stale, stale \ {j}}
        /\ LetGo(w, p)
  BY <1>3
<1>5. /\ HoldsWhileRunning' /\ NoSharing'
      /\ held'[w] = NoJob
      /\ \A v \in Workers \ {w} : held'[v] = held[v] /\ seen'[v] = seen[v]
  BY <1>4, LettingGo DEF Phases
<1> HIDE DEF j
<1>6. OwnsRow'
  <2>1. SUFFICES ASSUME NEW v \in Workers, held'[v] \in Leased
                 PROVE  status'[held'[v]] = "running" /\ attempts'[held'[v]] = seen'[v]
    BY DEF OwnsRow
  <2>2. v # w /\ held'[v] = held[v] /\ seen'[v] = seen[v]
    BY <1>5, <1>leased, <2>1
  <2>3. held[v] \in Leased /\ status[held[v]] = "running" /\ attempts[held[v]] = seen[v]
    BY <2>1, <2>2 DEF IInv, OwnsRow
  <2>4. held[v] # j
    BY <1>2, <2>2, <2>3
  <2>5. QED
    BY <1>1, <1>4, <1>leased, <2>2, <2>3, <2>4 DEF IInv, TypeOK
<1>7. StaleIsOrphaned'
  <2>1. ASSUME NEW i \in stale' \cap Leased
        PROVE  status'[i] = "running" /\ \A v \in Workers : held'[v] # i
    <3>1. i \in Jobs /\ i # NoJob /\ i # j /\ i \in stale
      BY <1>2, <1>4, <1>leased
    <3>2. status[i] = "running" /\ \A v \in Workers : held[v] # i
      BY <3>1 DEF IInv, StaleIsOrphaned
    <3>3. QED
      BY <1>4, <1>5, <3>1, <3>2 DEF IInv, TypeOK
  <2>2. QED
    BY <2>1 DEF StaleIsOrphaned
<1>8. SlotsStartFresh' /\ ExactlyOnce' /\ NoEndlessRetry'
  BY <1>1, <1>2, <1>4, <1>leased DEF IInv, TypeOK, SlotsStartFresh, ExactlyOnce, NoEndlessRetry
<1>9. QED
  BY <1>5, <1>6, <1>7, <1>8 DEF IInv

\* A worker that dies, stops or is refused its reclaim leaves the rows alone.
LEMMA LeavingStep ==
  ASSUME IInv, TypeOK', NEW w \in Workers, Die(w) \/ Stop(w) \/ ReapRefused(w)
  PROVE  IInv'
<1>1. UNCHANGED rows
  BY DEF Die, Stop, ReapRefused
<1>2. PICK p \in {"off", "ready"} : LetGo(w, p)
  BY DEF Die, Stop, ReapRefused
<1>3. /\ HoldsWhileRunning' /\ NoSharing'
      /\ held'[w] = NoJob
      /\ \A v \in Workers \ {w} : held'[v] = held[v] /\ seen'[v] = seen[v]
  BY <1>2, LettingGo DEF Phases
<1>4. OwnsRow' /\ SlotsStartFresh' /\ ExactlyOnce' /\ NoEndlessRetry'
  BY <1>1, <1>3, LeasedRows
     DEF IInv, rows, OwnsRow, SlotsStartFresh, ExactlyOnce, NoEndlessRetry
<1>5. StaleIsOrphaned'
  <2>1. \A i \in stale \cap Leased : i # NoJob
    BY LeasedRows
  <2>2. QED
    BY <1>1, <1>3, <2>1 DEF IInv, rows, StaleIsOrphaned
<1>6. QED
  BY <1>3, <1>4, <1>5 DEF IInv

LEMMA IInvNext == ASSUME IInv, [Next]_vars PROVE IInv'
<1>1. TypeOK'
  BY TypeNext DEF IInv
<1>2. CASE UNCHANGED vars
  BY <1>1, <1>2 DEF vars, IInv, HoldsWhileRunning, OwnsRow, NoSharing, StaleIsOrphaned,
                    SlotsStartFresh, ExactlyOnce, NoEndlessRetry
<1>3. CASE \/ \E j \in Jobs : \/ Enqueue(j) \/ RunAfterPasses(j)
                             \/ LeaseExpires(j) \/ RetentionPasses(j)
           \/ \E w \in Workers : Start(w) \/ Reap(w)
  BY <1>1, <1>3, UnheldRowsMove
<1>4. CASE \E w \in Workers : \/ Claim(w) \/ Commit(w) \/ FailJob(w)
                             \/ Die(w) \/ Stop(w) \/ ReapRefused(w)
  BY <1>1, <1>4, ClaimStep, CommitStep, FailStep, LeavingStep
<1>5. QED
  BY <1>2, <1>3, <1>4 DEF Next

\* The invariant holds for every table, every set of workers and every limit, and
\* whatever jobs outlive STALE_SECONDS in a live worker.
LEMMA Invariance == Spec => []IInv
<1>1. Init => IInv
  BY IInvInit
<1>2. IInv /\ [Next]_vars => IInv'
  BY IInvNext
<1>3. QED
  BY <1>1, <1>2, PTL DEF Spec

\* No two workers ever run one job, and a worker's copy of its job is current:
\* FOR UPDATE SKIP LOCKED and the STALE_SECONDS margin do what they are for.
THEOREM ClaimIsExclusive == Spec => []ExclusiveClaim
BY Invariance, IInvGives, PTL

\* A job's effects are committed exactly when it is done, and only once, however
\* often its runs fail, are killed and are repeated.
THEOREM EffectsExactlyOnce == Spec => []ExactlyOnce
<1>1. IInv => ExactlyOnce
  BY DEF IInv
<1>2. QED
  BY <1>1, Invariance, PTL

\* A job that keeps killing its worker is claimed at most max_attempts times.
THEOREM RetriesAreBounded == Spec => []NoEndlessRetry
<1>1. IInv => NoEndlessRetry
  BY DEF IInv
<1>2. QED
  BY <1>1, Invariance, PTL

-----------------------------------------------------------------------------
(* JobQueue implements Delivery for the jobs that keep their lease.  By    *)
(* ExactlyOnce the effects of a row follow from its status, so what is     *)
(* left to show is how a status may move.                                  *)

Moves(a, b) ==
  /\ a = "parked" => b = "parked"
  /\ a = "absent" => b \in {"absent", "queued", "running"}
  /\ a \in {"queued", "running"} => b # "absent"
  /\ a = "done" => b # "parked"

LEMMA StatusMoves ==
  ASSUME IInv, Next
  PROVE  \A i \in Leased : Moves(status[i], status'[i])
<1> USE DEF Moves
<1>type. status \in [Jobs -> Statuses] /\ attempts \in [Jobs -> Nat]
  BY DEF IInv, TypeOK
<1>leased. Leased \subseteq Jobs
  BY LeasedRows
<1>1. ASSUME NEW j \in Jobs, Enqueue(j)
      PROVE  \A i \in Leased : Moves(status[i], status'[i])
  BY <1>1, <1>type, <1>leased DEF Enqueue, Vacant
<1>2. ASSUME NEW j \in Jobs, RunAfterPasses(j) \/ LeaseExpires(j) \/ RetentionPasses(j)
      PROVE  \A i \in Leased : Moves(status[i], status'[i])
  BY <1>2 DEF RunAfterPasses, LeaseExpires, RetentionPasses
<1>3. ASSUME NEW w \in Workers, Start(w)
      PROVE  \A i \in Leased : Moves(status[i], status'[i])
  <2> DEFINE new == {Fresh(k) : k \in {k \in Recurring : QueuedOf(k) = {} /\ Vacant(k) # {}}}
  <2>1. \A j \in new : status[j] = "absent"
    BY FreshSlot DEF Vacant
  <2>2. status' = [j \in Jobs |-> IF j \in new THEN "queued" ELSE status[j]]
    BY <1>3 DEF Start
  <2> HIDE DEF new
  <2>3. QED
    BY <1>leased, <2>1, <2>2
<1>4. ASSUME NEW w \in Workers, Reap(w)
      PROVE  \A i \in Leased : Moves(status[i], status'[i])
  <2>1. \A i \in stale \cap Leased : status[i] = "running"
    BY DEF IInv, StaleIsOrphaned
  <2>2. QED
    BY <1>4, <1>leased, <2>1 DEF Reap, Requeued, Exhausted
<1>5. ASSUME NEW w \in Workers, Claim(w)
      PROVE  \A i \in Leased : Moves(status[i], status'[i])
  BY <1>5, <1>type, <1>leased DEF Claim, FirstDue, Due
<1>6. ASSUME NEW w \in Workers, Commit(w)
      PROVE  \A i \in Leased : Moves(status[i], status'[i])
  <2> DEFINE k == KindOf[held[w]]
             gone == Deletes(k)
             done == {held[w]} \ ({i \in Jobs : status[i] = "absent"} \cup gone)
  <2>1. PICK next \in Successors(k) :
          status' = [i \in Jobs |-> IF i \in next THEN "queued"
                                    ELSE IF i \in gone THEN "absent"
                                    ELSE IF i \in done THEN "done" ELSE status[i]]
    BY <1>6 DEF Commit
  <2>2. \A i \in gone : status[i] = "done"
    BY DEF Deletes
  <2>3. \A i \in next : status[i] \in {"absent", "done"}
    BY <2>2 DEF Successors, Emptied, Vacant
  <2>4. \A i \in done \cap Leased : status[i] = "running"
    BY <1>6, Holding DEF Commit
  <2> HIDE DEF gone, done
  <2>5. QED
    BY <1>leased, <2>1, <2>2, <2>3, <2>4
<1>7. ASSUME NEW w \in Workers, FailJob(w)
      PROVE  \A i \in Leased : Moves(status[i], status'[i])
  <2>1. held[w] \in Jobs /\ (held[w] \in Leased => status[held[w]] = "running")
    BY <1>7, Holding DEF FailJob
  <2>2. \/ status' = status
        \/ \E s \in {"parked", "queued"} : status' = [status EXCEPT ![held[w]] = s]
    BY <1>7 DEF FailJob, FailGone, Park, Retry, RetryRefused
  <2>3. QED
    BY <1>type, <1>leased, <2>1, <2>2
<1>8. ASSUME NEW w \in Workers, Die(w) \/ Stop(w) \/ ReapRefused(w)
      PROVE  \A i \in Leased : Moves(status[i], status'[i])
  BY <1>8 DEF Die, Stop, ReapRefused, rows
<1>9. QED
  BY <1>1, <1>2, <1>3, <1>4, <1>5, <1>6, <1>7, <1>8 DEF Next

LEMMA StepDelivers ==
  ASSUME IInv, IInv', [Next]_vars
  PROVE  [Promise!Next]_<<outcome, landed>>
<1>1. CASE UNCHANGED vars
  BY <1>1 DEF vars, outcome, landed
<1>2. CASE Next
  <2>1. outcome' \in [Leased -> Promise!Outcomes] /\ landed' \in [Leased -> Nat]
    BY LeasedRows DEF outcome, landed, Promise!Outcomes, IInv, TypeOK, Statuses
  <2>2. ASSUME NEW i \in Leased
        PROVE  \/ Promise!Rest(i) \/ Promise!Accept(i) \/ Promise!Execute(i)
               \/ Promise!GiveUp(i) \/ Promise!Discard(i) \/ Promise!Replace(i)
    <3>1. /\ landed[i] = IF status[i] = "done" THEN 1 ELSE 0
          /\ landed'[i] = IF status'[i] = "done" THEN 1 ELSE 0
      BY DEF IInv, ExactlyOnce, landed
    <3>2. status[i] \in Statuses /\ status'[i] \in Statuses
      BY LeasedRows DEF IInv, TypeOK
    <3>3. Moves(status[i], status'[i])
      BY <1>2, StatusMoves
    <3>4. /\ outcome[i] = CASE status[i] = "absent" -> "none"
                           [] status[i] \in {"queued", "running"} -> "pending"
                           [] OTHER -> status[i]
          /\ outcome'[i] = CASE status'[i] = "absent" -> "none"
                            [] status'[i] \in {"queued", "running"} -> "pending"
                            [] OTHER -> status'[i]
      BY DEF outcome
    <3>5. QED
      BY <3>1, <3>2, <3>3, <3>4
         DEF Moves, Statuses, Promise!Rest, Promise!Accept, Promise!Execute, Promise!GiveUp,
             Promise!Discard, Promise!Replace, Promise!Goes
  <2>3. QED
    BY <2>1, <2>2 DEF Promise!Next
<1>3. QED
  BY <1>1, <1>2

\* The queue keeps the promise of Delivery: executed at most once, never both
\* executed and parked, settled for good, and only executed jobs are forgotten.
THEOREM QueueDelivers == Spec => DeliveryPromise
<1>1. Init => Promise!Init
  BY LeasedRows DEF Init, Promise!Init, outcome, landed
<1>2. IInv /\ IInv' /\ [Next]_vars => [Promise!Next]_<<outcome, landed>>
  BY StepDelivers
<1>3. QED
  BY <1>1, <1>2, Invariance, PTL DEF Spec, DeliveryPromise, Promise!Spec

-----------------------------------------------------------------------------
(* Jobs that outlive their leases.  Such a row may be reclaimed, executed  *)
(* by several workers and put back by one that lost it.  It is reclaimed   *)
(* while it has attempts left; beyond them only a worker whose own attempt *)
(* was early puts it back, and loses its hold by that.  At the moment the  *)
(* attempts are used up there are MaxAttempts - 1 of these at most, since  *)
(* no two workers of a row have the same attempt (AttemptsDiffer); from    *)
(* then on each claim costs one (RetriesLeft).  A slot is not given to a   *)
(* new row while a worker holds the old one.                               *)

\* The attempts of those workers of a row that put it back when they fail.
Early(j) == {seen[w] : w \in Holders(j)} \cap 1..(MaxAttempts - 1)

FreshSlots == \A j \in Jobs : status[j] = "absent" => attempts[j] = 0
StaleIsRunning == \A j \in stale : status[j] = "running"
AttemptsDiffer ==
  \A j \in Jobs :
    status[j] # "absent" =>
      \A w \in Holders(j) : /\ seen[w] \in 1..attempts[j]
                            /\ \A v \in Holders(j) : seen[v] = seen[w] => v = w
RetriesLeft ==
  \A j \in Jobs :
    attempts[j] >= MaxAttempts =>
      attempts[j] + Cardinality(Early(j)) + (IF status[j] = "queued" THEN 1 ELSE 0)
        <= 2 * MaxAttempts - 1

RInv == FreshSlots /\ StaleIsRunning /\ AttemptsDiffer /\ RetriesLeft

LEMMA RInvInit == Init => RInv
BY JobQueueAssumption
   DEF Init, RInv, FreshSlots, StaleIsRunning, AttemptsDiffer, RetriesLeft, Holders

\* There are never more early attempts than MaxAttempts - 1.
LEMMA FewEarly ==
  ASSUME NEW S
  PROVE  /\ IsFiniteSet(S \cap 1..(MaxAttempts - 1))
         /\ Cardinality(S \cap 1..(MaxAttempts - 1)) \in 0..(MaxAttempts - 1)
<1>1. MaxAttempts - 1 \in Nat
  BY JobQueueAssumption
<1>2. IsFiniteSet(1..(MaxAttempts - 1)) /\ Cardinality(1..(MaxAttempts - 1)) = MaxAttempts - 1
  BY <1>1, FS_Interval
<1>3. /\ IsFiniteSet(S \cap 1..(MaxAttempts - 1))
      /\ Cardinality(S \cap 1..(MaxAttempts - 1)) <= MaxAttempts - 1
  BY <1>2, FS_Subset
<1>4. QED
  BY <1>1, <1>3, FS_CardinalityType

\* Steps in which nobody claims: rows come and go, workers let go of theirs.  A row that
\* is put back for another attempt has one left, or costs an early worker its hold.
LEMMA NobodyClaims ==
  ASSUME TypeOK, TypeOK', RInv, FreshSlots', StaleIsRunning',
         \A w \in Workers : held'[w] \in Jobs => held'[w] = held[w] /\ seen'[w] = seen[w],
         \A j \in Jobs :
           status'[j] # "absent" =>
             \/ status[j] # "absent" /\ attempts'[j] = attempts[j]
             \/ Holders(j) = {},
         \A j \in Jobs :
           attempts'[j] >= MaxAttempts =>
             /\ attempts'[j] = attempts[j] /\ status[j] # "absent"
             /\ status'[j] = "queued" =>
                  \/ status[j] = "queued"
                  \/ \E w \in Holders(j) : seen[w] < MaxAttempts /\ held'[w] # j
  PROVE  RInv'
<1>1. ASSUME NEW j \in Jobs PROVE Holders(j)' \subseteq Holders(j)
  BY DEF Holders
<1>2. AttemptsDiffer'
  <2>1. SUFFICES ASSUME NEW j \in Jobs, status'[j] # "absent", NEW w \in Holders(j)'
                 PROVE  /\ seen'[w] \in 1..attempts'[j]
                        /\ \A v \in Holders(j)' : seen'[v] = seen'[w] => v = w
    BY DEF AttemptsDiffer
  <2>2. status[j] # "absent" /\ attempts'[j] = attempts[j]
    BY <1>1, <2>1
  <2>3. \A v \in Holders(j)' : v \in Holders(j) /\ seen'[v] = seen[v]
    BY <1>1 DEF Holders
  <2>4. QED
    BY <2>1, <2>2, <2>3 DEF RInv, AttemptsDiffer
<1>3. RetriesLeft'
  <2>1. SUFFICES ASSUME NEW j \in Jobs, attempts'[j] >= MaxAttempts
                 PROVE  attempts'[j] + Cardinality(Early(j)')
                          + (IF status'[j] = "queued" THEN 1 ELSE 0) <= 2 * MaxAttempts - 1
    BY DEF RetriesLeft
  <2> DEFINE was == Early(j)
             is == Early(j)'
  <2>2. /\ attempts'[j] = attempts[j] /\ status[j] # "absent" /\ attempts[j] \in Nat
        /\ attempts[j] + Cardinality(was) + (IF status[j] = "queued" THEN 1 ELSE 0)
             <= 2 * MaxAttempts - 1
    BY <2>1 DEF RInv, RetriesLeft, TypeOK
  <2>3. /\ IsFiniteSet(was) /\ Cardinality(was) \in Nat
        /\ IsFiniteSet(is) /\ Cardinality(is) \in Nat /\ MaxAttempts \in Nat
    <3>1. IsFiniteSet(was) /\ Cardinality(was) \in 0..(MaxAttempts - 1)
      BY FewEarly DEF Early
    <3>2. IsFiniteSet(is) /\ Cardinality(is) \in 0..(MaxAttempts - 1)
      BY FewEarly DEF Early
    <3>3. QED
      BY <3>1, <3>2, JobQueueAssumption
  <2>4. \A x \in is : \E v \in Workers :
          held[v] = j /\ held'[v] = j /\ seen[v] = x /\ x \in was
    BY DEF Early, Holders
  <2>5. CASE status'[j] = "queued" /\ status[j] # "queued"
    <3>1. PICK w \in Holders(j) : seen[w] < MaxAttempts /\ held'[w] # j
      BY <2>1, <2>5
    <3>2. seen[w] \in was
      BY <2>2, <2>3, <3>1 DEF RInv, AttemptsDiffer, Early, TypeOK
    <3>3. seen[w] \notin is
      BY <2>2, <2>4, <3>1 DEF RInv, AttemptsDiffer, Holders
    <3> HIDE DEF was, is
    <3>4. is \subseteq was \ {seen[w]}
      BY <2>4, <3>3
    <3>5. IsFiniteSet(was \ {seen[w]}) /\ Cardinality(was \ {seen[w]}) = Cardinality(was) - 1
      BY <2>3, <3>2, FS_RemoveElement
    <3>6. Cardinality(is) <= Cardinality(was) - 1
      BY <3>4, <3>5, FS_Subset
    <3>7. QED
      BY <2>2, <2>3, <2>5, <3>6 DEF is
  <2>6. CASE ~(status'[j] = "queued" /\ status[j] # "queued")
    <3> HIDE DEF was, is
    <3>1. Cardinality(is) <= Cardinality(was)
      BY <2>3, <2>4, FS_Subset
    <3>2. QED
      BY <2>2, <2>3, <2>6, <3>1 DEF is
  <2>7. QED
    BY <2>5, <2>6
<1>4. QED
  BY <1>2, <1>3 DEF RInv
\* A claim takes a row that is queued; the worker's attempt is later than all before it,
\* and the one that uses up the last attempt finds no more than the earlier ones out.
LEMMA ClaimSpends ==
  ASSUME IInv, TypeOK', RInv, NEW w \in Workers, Claim(w)
  PROVE  RInv'
<1>1. PICK j \in FirstDue :
        /\ status' = [status EXCEPT ![j] = "running"]
        /\ attempts' = [attempts EXCEPT ![j] = @ + 1]
        /\ held' = [held EXCEPT ![w] = j]
        /\ seen' = [seen EXCEPT ![w] = attempts[j] + 1]
  BY DEF Claim
<1>2. /\ j \in Jobs /\ status[j] = "queued" /\ held[w] = NoJob /\ NoJob \notin Jobs
      /\ stale' = stale /\ TypeOK
  BY JobQueueAssumption DEF Claim, FirstDue, Due, IInv, HoldsWhileRunning
<1>3. /\ status'[j] = "running" /\ attempts'[j] = attempts[j] + 1
      /\ \A i \in Jobs \ {j} : status'[i] = status[i] /\ attempts'[i] = attempts[i]
      /\ held'[w] = j /\ seen'[w] = attempts[j] + 1
      /\ \A v \in Workers \ {w} : held'[v] = held[v] /\ seen'[v] = seen[v]
  BY <1>1, <1>2 DEF TypeOK
<1>4. FreshSlots' /\ StaleIsRunning'
  BY <1>2, <1>3 DEF RInv, FreshSlots, StaleIsRunning, TypeOK
<1>5. /\ Holders(j)' = Holders(j) \cup {w} /\ w \notin Holders(j)
      /\ \A i \in Jobs \ {j} : Holders(i)' = Holders(i) /\ w \notin Holders(i)
  BY <1>2, <1>3 DEF Holders
<1>6. \A v \in Holders(j) : seen[v] \in 1..attempts[j]
  BY <1>2 DEF RInv, AttemptsDiffer
<1>7. AttemptsDiffer'
  <2>1. SUFFICES ASSUME NEW i \in Jobs, status'[i] # "absent", NEW u \in Holders(i)'
                 PROVE  /\ seen'[u] \in 1..attempts'[i]
                        /\ \A v \in Holders(i)' : seen'[v] = seen'[u] => v = u
    BY DEF AttemptsDiffer
  <2>type. attempts[i] \in Nat
    BY <1>2 DEF TypeOK
  <2>2. CASE i # j
    <3>1. /\ u \in Holders(i) /\ status[i] # "absent" /\ attempts'[i] = attempts[i]
          /\ \A v \in Holders(i)' : v \in Holders(i) /\ seen'[v] = seen[v]
      BY <1>3, <1>5, <2>1, <2>2 DEF Holders
    <3>2. QED
      BY <2>1, <3>1 DEF RInv, AttemptsDiffer
  <2>3. CASE i = j
    <3>1. \A v \in Holders(j) : v \in Workers \ {w} /\ seen'[v] = seen[v]
      BY <1>3, <1>5 DEF Holders
    <3>2. \A v \in Holders(j), x \in Holders(j) : seen[v] = seen[x] => v = x
      BY <1>2 DEF RInv, AttemptsDiffer
    <3>3. \A v \in Holders(j) : seen'[v] \in 1..attempts[j] /\ seen'[v] # seen'[w]
      BY <1>3, <1>6, <2>type, <2>3, <3>1
    <3>4. \A v \in Holders(j)' : seen'[v] \in 1..attempts'[j]
      BY <1>3, <1>5, <2>type, <2>3, <3>3
    <3>5. QED
      BY <1>5, <2>1, <2>3, <3>1, <3>2, <3>3, <3>4
  <2>4. QED
    BY <2>2, <2>3
<1>8. RetriesLeft'
  <2>1. SUFFICES ASSUME NEW i \in Jobs, attempts'[i] >= MaxAttempts
                 PROVE  attempts'[i] + Cardinality(Early(i)')
                          + (IF status'[i] = "queued" THEN 1 ELSE 0) <= 2 * MaxAttempts - 1
    BY DEF RetriesLeft
  <2>2. MaxAttempts \in Nat /\ attempts[i] \in Nat
    BY <1>2, JobQueueAssumption DEF TypeOK
  <2>3. CASE i # j
    <3>1. Early(i)' = Early(i)
      BY <1>3, <1>5, <2>3 DEF Early, Holders
    <3>2. QED
      BY <1>3, <2>1, <2>3, <3>1 DEF RInv, RetriesLeft
  <2>4. CASE i = j /\ attempts[j] >= MaxAttempts
    <3>1. {seen[v] : v \in Holders(j)}' = {seen[v] : v \in Holders(j)} \cup {attempts[j] + 1}
      BY <1>3, <1>5 DEF Holders
    <3>2. attempts[j] + 1 \notin 1..(MaxAttempts - 1)
      BY <2>2, <2>4
    <3>3. Early(j)' = Early(j)
      BY <3>1, <3>2 DEF Early
    <3>4. attempts[j] + Cardinality(Early(j)) + 1 <= 2 * MaxAttempts - 1
      BY <1>2, <2>4 DEF RInv, RetriesLeft
    <3>5. Cardinality(Early(j)) \in 0..(MaxAttempts - 1)
      BY FewEarly DEF Early
    <3>6. QED
      BY <1>3, <2>2, <2>4, <3>3, <3>4, <3>5
  <2>5. CASE i = j /\ ~(attempts[j] >= MaxAttempts)
    <3>1. Cardinality(Early(j)') \in 0..(MaxAttempts - 1)
      BY FewEarly DEF Early
    <3>2. QED
      BY <1>3, <2>1, <2>2, <2>5, <3>1
  <2>6. QED
    BY <2>3, <2>4, <2>5
<1>9. QED
  BY <1>4, <1>7, <1>8 DEF RInv

\* Rows inserted or reclaimed, and time.
LEMMA MovesSpendNothing ==
  ASSUME IInv, TypeOK', RInv,
         \/ \E j \in Jobs : \/ Enqueue(j) \/ RunAfterPasses(j)
                            \/ LeaseExpires(j) \/ RetentionPasses(j)
         \/ \E w \in Workers : Start(w) \/ Reap(w)
  PROVE  RInv'
<1>type. TypeOK /\ MaxAttempts \in Nat \ {0}
  BY JobQueueAssumption DEF IInv
<1>1. ASSUME NEW j \in Jobs, Enqueue(j) PROVE RInv'
  <2>1. /\ status[j] = "absent" /\ Holders(j) = {} /\ attempts[j] = 0
        /\ status' = [status EXCEPT ![j] = "queued"]
        /\ UNCHANGED <<attempts, stale, held, seen>>
    BY <1>1 DEF Enqueue, Vacant, RInv, FreshSlots
  <2>2. FreshSlots' /\ StaleIsRunning'
    BY <1>type, <2>1 DEF RInv, FreshSlots, StaleIsRunning, TypeOK
  <2>3. \A i \in Jobs :
          /\ i # j => status'[i] = status[i]
          /\ attempts'[i] = attempts[i]
          /\ attempts[i] >= MaxAttempts => i # j /\ status[i] # "absent"
    BY <1>type, <2>1 DEF RInv, FreshSlots, TypeOK
  <2>4. QED
    BY <1>type, <2>1, <2>2, <2>3, NobodyClaims
<1>2. ASSUME NEW j \in Jobs, RunAfterPasses(j) \/ RetentionPasses(j) PROVE RInv'
  <2>1. UNCHANGED <<status, attempts, stale, held, seen>>
    BY <1>2 DEF RunAfterPasses, RetentionPasses, procs
  <2>2. QED
    BY <2>1 DEF RInv, FreshSlots, StaleIsRunning, AttemptsDiffer, RetriesLeft, Early, Holders
<1>3. ASSUME NEW j \in Jobs, LeaseExpires(j) PROVE RInv'
  <2>1. /\ UNCHANGED <<status, attempts, held, seen>>
        /\ stale' = stale \cup {j} /\ status[j] = "running"
    BY <1>3 DEF LeaseExpires, procs
  <2>2. QED
    BY <2>1 DEF RInv, FreshSlots, StaleIsRunning, AttemptsDiffer, RetriesLeft, Early, Holders
<1>4. ASSUME NEW w \in Workers, Start(w) PROVE RInv'
  <2> DEFINE new == {Fresh(k) : k \in {k \in Recurring : QueuedOf(k) = {} /\ Vacant(k) # {}}}
  <2>1. \A j \in new : j \in Jobs /\ status[j] = "absent" /\ Holders(j) = {}
    BY FreshSlot DEF Vacant
  <2>2. /\ status' = [j \in Jobs |-> IF j \in new THEN "queued" ELSE status[j]]
        /\ UNCHANGED <<attempts, stale, held, seen>>
    BY <1>4 DEF Start
  <2> HIDE DEF new
  <2>3. FreshSlots' /\ StaleIsRunning'
    BY <1>type, <2>1, <2>2 DEF RInv, FreshSlots, StaleIsRunning, TypeOK
  <2>4. \A j \in new : attempts'[j] = 0
    BY <2>1, <2>2 DEF RInv, FreshSlots
  <2>5. \A j \in Jobs : attempts'[j] >= MaxAttempts => j \notin new /\ status[j] # "absent"
    BY <1>type, <2>2, <2>4 DEF RInv, FreshSlots
  <2>6. QED
    BY <1>type, <2>1, <2>2, <2>3, <2>5, NobodyClaims DEF TypeOK
<1>5. ASSUME NEW w \in Workers, Reap(w) PROVE RInv'
  <2>1. /\ status' = [j \in Jobs |-> IF j \in Requeued THEN "queued"
                                      ELSE IF j \in Exhausted THEN "parked" ELSE status[j]]
        /\ stale' = {} /\ UNCHANGED <<attempts, held, seen>>
    BY <1>5 DEF Reap
  <2>2. \A j \in Jobs :
          /\ j \in Requeued => attempts[j] < MaxAttempts /\ status[j] = "running"
          /\ j \in Exhausted => status[j] = "running"
    BY DEF Requeued, Exhausted, RInv, StaleIsRunning
  <2>3. FreshSlots' /\ StaleIsRunning'
    BY <2>1, <2>2 DEF RInv, FreshSlots, StaleIsRunning
  <2>4. \A j \in Jobs : attempts'[j] >= MaxAttempts => j \notin Requeued /\ status[j] # "absent"
    BY <1>type, <2>1, <2>2 DEF RInv, FreshSlots, TypeOK
  <2>5. QED
    BY <1>type, <2>1, <2>2, <2>3, <2>4, NobodyClaims DEF TypeOK
<1>6. QED
  BY <1>1, <1>2, <1>3, <1>4, <1>5

\* A worker that lets go touches no other worker's copy.
LEMMA LetGoHeld ==
  ASSUME TypeOK, NEW w \in Workers, NEW p, LetGo(w, p)
  PROVE  /\ held'[w] \notin Jobs
         /\ \A v \in Workers : held'[v] \in Jobs => held'[v] = held[v] /\ seen'[v] = seen[v]
BY JobQueueAssumption DEF TypeOK, LetGo

\* A run that ends, one way or another.
LEMMA EndsSpendNothing ==
  ASSUME IInv, TypeOK', RInv, NEW w \in Workers,
         Commit(w) \/ FailJob(w) \/ Die(w) \/ Stop(w) \/ ReapRefused(w)
  PROVE  RInv'
<1>type. TypeOK /\ MaxAttempts \in Nat \ {0}
  BY JobQueueAssumption DEF IInv
<1>1. CASE Commit(w)
  <2> DEFINE j == held[w]
             gone == Deletes(KindOf[j])
  <2>1. /\ phase[w] = "running" /\ LetGo(w, "ready")
        /\ attempts' = [i \in Jobs |-> IF i \in gone THEN 0 ELSE attempts[i]]
        /\ stale' = stale \ {j}
    BY <1>1 DEF Commit
  <2>2. PICK next \in Successors(KindOf[j]) :
          status' = [i \in Jobs |-> IF i \in next THEN "queued"
                                    ELSE IF i \in gone THEN "absent"
                                    ELSE IF i \in {j} \ ({h \in Jobs : status[h] = "absent"} \cup gone)
                                         THEN "done" ELSE status[i]]
    BY <1>1 DEF Commit
  <2>3. \A i \in gone : status[i] = "done"
    BY DEF Deletes
  <2>4. \A i \in next : Holders(i) = {} /\ (status[i] = "absent" \/ i \in gone)
    BY DEF Successors, Emptied, Vacant
  <2>5. /\ held'[w] \notin Jobs
        /\ \A v \in Workers : held'[v] \in Jobs => held'[v] = held[v] /\ seen'[v] = seen[v]
    BY <1>type, <2>1, LetGoHeld
  <2> HIDE DEF j, gone
  <2>6. \A i \in Jobs : attempts'[i] = IF i \in gone THEN 0 ELSE attempts[i]
    BY <2>1
  <2>7. \A i \in Jobs :
          \/ i \in next /\ status'[i] = "queued"
          \/ i \notin next /\ i \in gone /\ status'[i] = "absent"
          \/ i = j /\ i \notin next /\ i \notin gone /\ status'[i] = "done" /\ status[i] # "absent"
          \/ i \notin next /\ i \notin gone /\ status'[i] = status[i] /\ (i = j => status[i] = "absent")
    BY <2>2
  <2>8. FreshSlots'
    BY <2>6, <2>7 DEF RInv, FreshSlots
  <2>9. StaleIsRunning'
    BY <1>type, <2>1, <2>3, <2>4, <2>7 DEF RInv, StaleIsRunning, TypeOK
  <2>10. \A i \in Jobs : attempts'[i] >= MaxAttempts =>
           /\ i \notin gone /\ i \notin next /\ attempts'[i] = attempts[i] /\ status[i] # "absent"
           /\ status'[i] \in {"done", status[i]}
    <3>1. SUFFICES ASSUME NEW i \in Jobs, attempts'[i] >= MaxAttempts
                   PROVE  /\ i \notin gone /\ i \notin next /\ attempts'[i] = attempts[i]
                          /\ status[i] # "absent" /\ status'[i] \in {"done", status[i]}
      OBVIOUS
    <3>2. i \notin gone /\ attempts'[i] = attempts[i]
      BY <1>type, <2>6, <3>1
    <3>3. status[i] # "absent"
      BY <1>type, <3>1, <3>2 DEF RInv, FreshSlots
    <3>4. QED
      BY <2>4, <2>7, <3>2, <3>3
  <2>11. \A i \in Jobs : status'[i] # "absent" =>
           \/ status[i] # "absent" /\ attempts'[i] = attempts[i]
           \/ Holders(i) = {}
    BY <2>4, <2>6, <2>7
  <2>12. QED
    BY <1>type, <2>5, <2>8, <2>9, <2>10, <2>11, NobodyClaims
<1>2. CASE FailJob(w)
  <2> DEFINE j == held[w]
  <2>1. j \in Jobs /\ UNCHANGED attempts
    BY <1>2, Holding DEF FailJob
  <2>2. \/ FailGone(w)
        \/ Park(w)
        \/ Retry(w) /\ ~(seen[w] >= MaxAttempts)
        \/ RetryRefused(w)
    BY <1>2 DEF FailJob
  <2>3. /\ held'[w] \notin Jobs
        /\ \A v \in Workers : held'[v] \in Jobs => held'[v] = held[v] /\ seen'[v] = seen[v]
    BY <1>type, <2>2, LetGoHeld DEF FailGone, Park, Retry, RetryRefused
  <2>4. \/ UNCHANGED <<status, stale>>
        \/ /\ status[j] # "absent" /\ stale' = stale \ {j}
           /\ status' = [status EXCEPT ![j] = "parked"]
        \/ /\ status[j] # "absent" /\ stale' = stale \ {j} /\ ~(seen[w] >= MaxAttempts)
           /\ status' = [status EXCEPT ![j] = "queued"]
    BY <2>2 DEF FailGone, Park, Retry, RetryRefused
  <2>5. w \in Holders(j) /\ seen[w] \in Nat
    BY <1>type DEF Holders, TypeOK
  <2> HIDE DEF j
  <2>6. FreshSlots' /\ StaleIsRunning'
    BY <1>type, <2>1, <2>4 DEF RInv, FreshSlots, StaleIsRunning, TypeOK
  <2>7. \A i \in Jobs : attempts[i] >= MaxAttempts => status[i] # "absent"
    BY <1>type DEF RInv, FreshSlots
  <2>8. \A i \in Jobs : status'[i] # "absent" => status[i] # "absent"
    BY <1>type, <2>4 DEF TypeOK
  <2>9. \A i \in Jobs : status'[i] = "queued" =>
          \/ status[i] = "queued"
          \/ \E v \in Holders(i) : seen[v] < MaxAttempts /\ held'[v] # i
    BY <1>type, <2>1, <2>3, <2>4, <2>5 DEF TypeOK
  <2>10. QED
    BY <1>type, <2>1, <2>3, <2>6, <2>7, <2>8, <2>9, NobodyClaims
<1>3. CASE Die(w) \/ Stop(w) \/ ReapRefused(w)
  <2>1. UNCHANGED <<status, attempts, stale>> /\ \E p : LetGo(w, p)
    BY <1>3 DEF Die, Stop, ReapRefused, rows
  <2>2. \A v \in Workers : held'[v] \in Jobs => held'[v] = held[v] /\ seen'[v] = seen[v]
    BY <1>type, <2>1, LetGoHeld
  <2>3. FreshSlots' /\ StaleIsRunning'
    BY <2>1 DEF RInv, FreshSlots, StaleIsRunning
  <2>4. \A i \in Jobs : attempts[i] >= MaxAttempts => status[i] # "absent"
    BY <1>type DEF RInv, FreshSlots
  <2>5. QED
    BY <1>type, <2>1, <2>2, <2>3, <2>4, NobodyClaims
<1>4. QED
  BY <1>1, <1>2, <1>3

LEMMA RInvNext == ASSUME IInv, IInv', RInv, [Next]_vars PROVE RInv'
<1>1. TypeOK'
  BY DEF IInv
<1>2. CASE UNCHANGED vars
  BY <1>2 DEF vars, RInv, FreshSlots, StaleIsRunning, AttemptsDiffer, RetriesLeft, Early, Holders
<1>3. CASE \/ \E j \in Jobs : \/ Enqueue(j) \/ RunAfterPasses(j)
                             \/ LeaseExpires(j) \/ RetentionPasses(j)
           \/ \E w \in Workers : Start(w) \/ Reap(w)
  BY <1>1, <1>3, MovesSpendNothing
<1>4. CASE \E w \in Workers : \/ Claim(w) \/ Commit(w) \/ FailJob(w)
                             \/ Die(w) \/ Stop(w) \/ ReapRefused(w)
  BY <1>1, <1>4, ClaimSpends, EndsSpendNothing
<1>5. QED
  BY <1>2, <1>3, <1>4 DEF Next

\* Even a job that outlives its lease at every run is claimed fewer than 2 * max_attempts
\* times: reclaims end with the attempts, and each of the earlier attempts puts the row
\* back once at most.
THEOREM OverrunsAreBounded == Spec => []OverrunsEnd
<1>1. RInv /\ TypeOK => OverrunsEnd
  <2>1. SUFFICES ASSUME RInv, TypeOK, NEW j \in Jobs
                 PROVE  attempts[j] <= 2 * MaxAttempts - 1
    BY DEF OverrunsEnd
  <2>2. attempts[j] \in Nat /\ MaxAttempts \in Nat \ {0}
    BY <2>1, JobQueueAssumption DEF TypeOK
  <2>3. CASE attempts[j] >= MaxAttempts
    <3>1. attempts[j] + Cardinality(Early(j)) + (IF status[j] = "queued" THEN 1 ELSE 0)
            <= 2 * MaxAttempts - 1
      BY <2>1, <2>3 DEF RInv, RetriesLeft
    <3>2. Cardinality(Early(j)) \in 0..(MaxAttempts - 1)
      BY FewEarly DEF Early
    <3>3. QED
      BY <2>2, <3>1, <3>2
  <2>4. QED
    BY <2>2, <2>3
<1>2. IInv => TypeOK
  BY DEF IInv
<1>3. IInv /\ IInv' /\ RInv /\ [Next]_vars => RInv'
  BY RInvNext
<1>4. QED
  BY <1>1, <1>2, <1>3, RInvInit, Invariance, PTL DEF Spec
=============================================================================
