------------------------------ MODULE Sweeper ------------------------------
(***************************************************************************)
(* The sweep over many applications: whom it asks about, in which order,   *)
(* and what becomes of the rest when one answer is bad.                    *)
(*                                                                         *)
(* A sweep is one transaction.  It selects a batch, asks the vendor about  *)
(* one after the other, over HTTP, and writes; what it wrote is there at   *)
(* its commit and not before.  The row locks it takes on the way are left  *)
(* out: webhooks may move any application until then.  CaseFile has what   *)
(* this leaves out of one application: its results, the times they carry,  *)
(* two sweeps at once.                                                     *)
(***************************************************************************)
EXTENDS Naturals, Sequences, SequencesExt, FiniteSetsExt, Selection

CONSTANTS
  Files,      \* applications, numbered in the order of their creation
  Vendor,     \* what the vendor says of each session, at the beginning
  BatchSize,  \* SWEEP_BATCH_SIZE (25)
  CloseAfter  \* SESSION_NOT_FOUND_CLOSE_AFTER (3)

\* Not finished; in review; finished; a status the worker does not know; no record of
\* it; and two ways of not answering.
Answers == {"waits", "reviews", "concluded", "unknown", "lost", "unreachable", "hangs"}

ASSUME SweeperAssumption ==
  /\ IsFiniteSet(Files) /\ Files \subseteq Nat \ {0}
  /\ Vendor \in [Files -> Answers]
  /\ BatchSize \in Nat \ {0} /\ CloseAfter \in Nat \ {0}

VARIABLES
  file,    \* the status of each application
  vendor,  \* what the vendor says when it is asked about its session
  due,     \* those untouched for SWEEP_STUCK_MINUTES, by updated_at
  asked,   \* sets of those disowned by the vendor, by last_asked
  answers, \* not-found answers on record, counted up to CloseAfter
  hourOld, \* where the first of these is an hour old
  monthOld,\* how many applications were created ABANDONED_EXPIRY_DAYS ago
  sweep    \* the sweep under way: to be asked about, and the answers that matter

sweeperVars == <<file, vendor, due, asked, answers, hourOld, monthOld, sweep>>

InFlight == {"submitted", "checking"}
Waiting == {a \in Files : file[a] \in InFlight}
NoSweep == [at |-> "idle", todo |-> <<>>, told |-> <<>>]

FileStatuses == InFlight \cup {"started", "screening", "verification_unavailable", "expired"}
SweeperTypeOK ==
  /\ file \in [Files -> FileStatuses]
  /\ vendor \in [Files -> Answers]
  /\ due \in Seq(Waiting) /\ IsInjective(due)
  /\ asked \in Seq((SUBSET Waiting) \ {{}})
  /\ answers \in [Files -> 0..CloseAfter]
  /\ hourOld \subseteq Files
  /\ monthOld \in 0..Cardinality(Files)
  /\ sweep \in [at : {"idle", "asking"}, todo : Seq([id : Files, status : InFlight]),
                told : Seq([id : Files, says : {"lost", "reviews", "concluded"}])]
  /\ Len(sweep.todo) + Len(sweep.told) <= BatchSize

SweeperInit ==
  /\ file = [a \in Files |-> "started"]
  /\ vendor = Vendor
  /\ due = <<>> /\ asked = <<>>
  /\ answers = [a \in Files |-> 0] /\ hourOld = {}
  /\ monthOld = 0
  /\ sweep = NoSweep

-----------------------------------------------------------------------------
(* Around the sweep.                                                       *)

\* The rows after a write; one that was touched is not due for a while.
Write(new, touched) ==
  /\ file' = new
  /\ due' = Kept(due, {i \in DOMAIN due : due[i] \notin touched})

OnlyWaiting(sets) ==
  LET left == [i \in DOMAIN sets |-> sets[i] \cap {a \in Files : file'[a] \in InFlight}]
  IN Kept(left, {i \in DOMAIN left : left[i] # {}})

\* startVerificationSession.
RecordsSession(a) ==
  /\ file[a] = "started"
  /\ Write([file EXCEPT ![a] = "submitted"], {a})
  /\ UNCHANGED <<vendor, asked, answers, hourOld, monthOld, sweep>>

\* The vendor, external, gets on with a session, or loses it.
Progress ==
  {<<"waits", "reviews">>, <<"waits", "concluded">>, <<"reviews", "concluded">>,
   <<"waits", "hangs">>, <<"hangs", "waits">>}
  \cup {<<kind, "lost">> : kind \in {"waits", "reviews", "concluded"}}
VendorMoves(a, kind) ==
  /\ file[a] \in InFlight
  /\ <<vendor[a], kind>> \in Progress
  /\ vendor' = [vendor EXCEPT ![a] = kind]
  /\ UNCHANGED <<file, due, asked, answers, hourOld, monthOld, sweep>>

Target == [reviews |-> "checking", concluded |-> "screening"]
Later == {<<"submitted", "checking">>, <<"submitted", "screening">>, <<"checking", "screening">>}

\* A webhook's job applies what the vendor says.
WebhookApplies(a) ==
  /\ vendor[a] \in DOMAIN Target /\ <<file[a], Target[vendor[a]]>> \in Later
  /\ Write([file EXCEPT ![a] = Target[vendor[a]]], {a})
  /\ asked' = OnlyWaiting(asked)
  /\ UNCHANGED <<vendor, answers, hourOld, monthOld, sweep>>

\* SWEEP_STUCK_MINUTES after its last update.
FallsDue(a) ==
  /\ a \in Waiting \ Range(due)
  /\ due' = Append(due, a)
  /\ UNCHANGED <<file, vendor, asked, answers, hourOld, monthOld, sweep>>

HourGoesBy ==
  /\ hourOld' = {a \in Files : answers[a] > 0}
  /\ hourOld' # hourOld
  /\ UNCHANGED <<file, vendor, due, asked, answers, monthOld, sweep>>

MonthGoesBy ==
  /\ monthOld < Cardinality(Files)
  /\ monthOld' = monthOld + 1
  /\ UNCHANGED <<file, vendor, due, asked, answers, hourOld, sweep>>

-----------------------------------------------------------------------------
(* The sweep.                                                              *)

\* _stuck_applications: never disowned first, then by the last such answer; of the
\* answers of one sweep, which carry one time, by updated_at.
LastAsked(a) == IF \E k \in DOMAIN asked : a \in asked[k]
                  THEN CHOOSE k \in DOMAIN asked : a \in asked[k] ELSE 0
Sooner(i, j) == \/ LastAsked(due[i]) < LastAsked(due[j])
                \/ LastAsked(due[i]) = LastAsked(due[j]) /\ i < j
Line == [n \in DOMAIN due |->
           due[CHOOSE i \in DOMAIN due : Cardinality({j \in DOMAIN due : Sooner(j, i)}) = n - 1]]
FirstOf(s) == SubSeq(s, 1, IF Len(s) < BatchSize THEN Len(s) ELSE BatchSize)

SweepStarts ==
  /\ sweep.at = "idle"
  /\ sweep' = [NoSweep EXCEPT !.at = "asking",
                              !.todo = [i \in DOMAIN FirstOf(Line) |->
                                         [id |-> FirstOf(Line)[i],
                                          status |-> file[FirstOf(Line)[i]]]]]
  /\ UNCHANGED <<file, vendor, due, asked, answers, hourOld, monthOld>>

\* A VendorError is logged and the next one asked about; a read that times out is none.
\* (Mutant: any failure raises.)
AnyFailure(kind) == kind \in {"hangs", "unreachable"}
Raises(kind) == kind = "hangs"

\* What matters is a lost session and a result that evaluate_vendor_result applies.
Matters(item) ==
  \/ vendor[item.id] = "lost"
  \/ vendor[item.id] \in DOMAIN Target /\ <<item.status, Target[vendor[item.id]]>> \in Later

SweepAsks ==
  /\ sweep.at = "asking" /\ sweep.todo # <<>>
  /\ LET item == Head(sweep.todo)
     IN /\ ~Raises(vendor[item.id])
        /\ sweep' = [sweep EXCEPT
             !.todo = Tail(@),
             !.told = IF Matters(item) THEN Append(@, [id |-> item.id, says |-> vendor[item.id]])
                      ELSE @]
  /\ UNCHANGED <<file, vendor, due, asked, answers, hourOld, monthOld>>

\* The exception leaves sweep_stuck, and the transaction of run_job with it.
SweepRaises ==
  /\ sweep.at = "asking" /\ sweep.todo # <<>>
  /\ Raises(vendor[Head(sweep.todo).id])
  /\ sweep' = NoSweep
  /\ UNCHANGED <<file, vendor, due, asked, answers, hourOld, monthOld>>

Asked == sweep.at = "asking" /\ sweep.todo = <<>>
Told(what) == {item.id : item \in {i \in Range(sweep.told) : i.says \in what}}
Applied == Told(DOMAIN Target)
NewStatus(a) == Target[(CHOOSE i \in Range(sweep.told) : i.id = a).says]

\* expire_abandoned, the oldest first.
Abandoned ==
  LET old == {a \in Files : a <= monthOld /\ file[a] = "started"}
  IN {a \in old : Cardinality({b \in old : b < a}) < BatchSize}

\* The answers are counted and the statuses read again under the rows' locks, and the
\* trigger lets the results through.
SweepCommits ==
  LET disowned == Told({"lost"})
      closing == {a \in disowned \cap Waiting \cap hourOld : answers'[a] = CloseAfter}
      expiring == Abandoned
  IN /\ Asked
     /\ \A a \in Applied :
          file[a] = NewStatus(a) \/ <<file[a], NewStatus(a)>> \in Later
     /\ answers' = [a \in Files |-> IF a \in disowned /\ answers[a] < CloseAfter
                                      THEN answers[a] + 1 ELSE answers[a]]
     /\ Write([a \in Files |-> IF a \in closing THEN "verification_unavailable"
                               ELSE IF a \in Applied THEN NewStatus(a)
                               ELSE IF a \in expiring THEN "expired" ELSE file[a]],
              closing \cup Applied)
     /\ asked' = OnlyWaiting(Append([i \in DOMAIN asked |-> asked[i] \ disowned], disowned))
     /\ sweep' = NoSweep
     /\ UNCHANGED <<vendor, hourOld, monthOld>>

\* A webhook was faster and the trigger raises, or the process dies, at this or an
\* earlier moment: nothing of the sweep is left.
SweepIsLost ==
  /\ Asked
  /\ sweep' = NoSweep
  /\ UNCHANGED <<file, vendor, due, asked, answers, hourOld, monthOld>>

-----------------------------------------------------------------------------
SweeperNext ==
  \/ \E a \in Files :
       \/ RecordsSession(a) \/ WebhookApplies(a) \/ FallsDue(a)
       \/ \E kind \in Answers : VendorMoves(a, kind)
  \/ HourGoesBy \/ MonthGoesBy
  \/ SweepStarts \/ SweepAsks \/ SweepRaises \/ SweepCommits \/ SweepIsLost

(***************************************************************************)
(* Fairness.  The sweep recurs (JobQueue) and its calls end, as they have  *)
(* a timeout; not every sweep dies at its end; time passes.  Nothing is    *)
(* assumed of applicants, webhooks and the vendor.                         *)
(***************************************************************************)
SweeperFairness ==
  /\ WF_sweeperVars(SweepStarts)
  /\ WF_sweeperVars(SweepAsks \/ SweepRaises \/ SweepCommits \/ SweepIsLost)
  /\ SF_sweeperVars(SweepCommits)
  /\ \A a \in Files : WF_sweeperVars(FallsDue(a))
  /\ WF_sweeperVars(HourGoesBy) /\ WF_sweeperVars(MonthGoesBy)

SweeperSpec == SweeperInit /\ [][SweeperNext]_sweeperVars /\ SweeperFairness

-----------------------------------------------------------------------------
(* Properties.                                                             *)

\* Nothing comes of asking about these, and no row says that they were asked about.
Silent == {a \in Waiting : \/ vendor[a] \in {"waits", "unknown", "unreachable", "hangs"}
                           \/ vendor[a] = "reviews" /\ file[a] = "checking"}
CrowdedOut(a) ==
  a \in Waiting /\ Cardinality(Silent \ ({a} \cup UNION Range(asked))) >= BatchSize
OneHangs == \E a \in Waiting : vendor[a] = "hangs"

\* An application that nobody will finish is closed in the end - the vendor has lost its
\* session, or the applicant never began - whatever the vendor does with the others,
\* unless as many as a sweep asks about stay silent, or one makes every sweep fail.
Forsaken(a) ==
  \/ file[a] \in InFlight /\ vendor[a] = "lost"
  \/ file[a] = "started" /\ a <= monthOld
ForsakenAreClosed == \A a \in Files : Forsaken(a) ~> ~Forsaken(a) \/ CrowdedOut(a) \/ OneHangs

\* sweeper.py: "Every qualifying application is therefore examined eventually, which is
\* what makes the escalation reachable for all of them".
EveryApplicationExamined ==
  \A a \in Files :
    a \in Range(due) ~> a \notin Waiting \/ \E i \in DOMAIN sweep.todo : sweep.todo[i].id = a
=============================================================================
