------------------------------- MODULE Intake -------------------------------
(***************************************************************************)
(* How applications, verification sessions and the vendor's results get    *)
(* into the database: the requests of one instance of the web service.     *)
(*                                                                         *)
(* A request is a process.  It takes a connection of the pool for every    *)
(* transaction and gives it back at the end of it; it calls the simulated  *)
(* vendor, and the simulated vendor the webhook route, over HTTP, so one   *)
(* request waits for another that draws on the same pool.  A transaction   *)
(* is one step at its commit, except the webhook's: its INSERT holds the   *)
(* key of the event until it commits or rolls back, and a second delivery  *)
(* of that event waits.  Nothing of a request survives its instance.       *)
(***************************************************************************)
EXTENDS Naturals, Integers, Sequences, FiniteSets

CONSTANTS
  Requests,    \* requests that may be under way at once
  MaxApps,     \* bound: applications, one row each
  MaxSessions, \* bound: sessions the vendor creates
  MaxEvents,   \* bound: messages the vendor (or the replay script) writes
  MaxResults,  \* bound: results the vendor gives
  MaxSize,     \* connections of the pool these requests have between them
  Dates,       \* dates of birth that may be typed, <<year, month, day>>
  Batches,     \* the dates of the applicants of one seed tick
  Today,
  Messages,    \* how a copy of a message may arrive
  None

Apps == 1..MaxApps
Sessions == 1..MaxSessions
Events == 1..MaxEvents

ASSUME IntakeAssumption ==
  /\ IsFiniteSet(Requests)
  /\ {MaxApps, MaxSessions, MaxEvents, MaxResults} \subseteq Nat
  /\ MaxSize \in Nat \ {0}
  /\ None \notin Nat \cup Requests \cup {"ok", "refused", "failed"}
  /\ Dates \subseteq Nat \X Nat \X Nat /\ Today \in Nat \X Nat \X Nat
  /\ Batches \subseteq Seq(Dates)
  /\ Messages \subseteq [signature : {"valid", "wrong", "missing"},
                         dated : BOOLEAN, age : Int,
                         body : {"event", "no event_id", "not JSON"}]

VARIABLES
  mode,      \* DIDIT_MODE
  size,      \* the connections the rest of the service leaves to these requests
  apps,      \* applications
  trail,     \* audit_events of each application, in order
  sessions,  \* the vendor's sessions: whose
  results,   \* the vendor's results, in order: of which session
  sent,      \* messages: on which result (0: on none), None while unwritten
  stored,    \* vendor_events
  jobs,      \* vendor.process_webhook jobs enqueued for each of them
  req,       \* the requests
  lent,      \* requests that have a connection of the pool
  acked,     \* history: messages answered 200
  sound      \* history: messages of which a sound copy has arrived

tables == <<apps, trail, stored, jobs>>
vendor == <<sessions, results, sent>>
vars == <<mode, size, apps, trail, sessions, results, sent, stored, jobs,
          req, lent, acked, sound>>

AppStatuses == {"absent", "started", "submitted", "beyond"}
Kinds == {"none", "apply", "verify", "session", "complete", "webhook", "tick"}
Steps == {"idle", "creating", "opening", "called", "registering", "recording",
          "concluding", "notifying", "storing", "enqueueing", "stored",
          "nudging", "next", "reviewing", "logging"}

Fresh == [signature |-> "valid", dated |-> TRUE, age |-> 0, body |-> "event"]
Idle == [kind |-> "none", at |-> "idle", by |-> None, todo |-> <<>>, app |-> None,
         session |-> None, event |-> None, no |-> 0, age |-> 0, drop |-> FALSE,
         got |-> None]

RequestType ==
  [kind : Kinds, at : Steps, by : Requests \cup {None}, todo : Seq(Dates),
   app : Apps \cup {None}, session : Sessions \cup {None},
   event : Events \cup {None}, no : Nat, age : Int, drop : BOOLEAN,
   got : {None, "ok", "refused", "failed"}]
EntryType == [action : {"created", "session"}, seeded : BOOLEAN,
              session : Sessions \cup {None}, moved : BOOLEAN]

TypeOK ==
  /\ mode \in {"simulator", "live"} /\ size \in 1..MaxSize
  /\ apps \in [Apps -> [status : AppStatuses, born : Dates \cup {None},
                        session : Sessions \cup {None}, seeded : BOOLEAN]]
  /\ trail \in [Apps -> Seq(EntryType)]
  /\ sessions \in [Sessions -> Apps \cup {None}]
  /\ results \in Seq(Sessions)
  /\ sent \in [Events -> Nat \cup {None}]
  /\ stored \subseteq Events /\ jobs \in [Events -> Nat]
  /\ req \in [Requests -> RequestType]
  /\ lent \subseteq Requests /\ Cardinality(lent) <= size
  /\ acked \subseteq Events /\ sound \subseteq Events

Init ==
  /\ mode \in {"simulator", "live"} /\ size \in 1..MaxSize
  /\ apps = [a \in Apps |-> [status |-> "absent", born |-> None, session |-> None,
                             seeded |-> FALSE]]
  /\ trail = [a \in Apps |-> <<>>]
  /\ sessions = [s \in Sessions |-> None] /\ results = <<>>
  /\ sent = [e \in Events |-> None]
  /\ stored = {} /\ jobs = [e \in Events |-> 0]
  /\ req = [r \in Requests |-> Idle]
  /\ lent = {} /\ acked = {} /\ sound = {}

-----------------------------------------------------------------------------
(* The applicant's form: validateApplicant.                                *)

Leap(y) == y % 4 = 0 /\ (y % 100 # 0 \/ y % 400 = 0)
DaysIn(y, m) == IF m = 2 THEN (IF Leap(y) THEN 29 ELSE 28)
                ELSE IF m \in {4, 6, 9, 11} THEN 30 ELSE 31

\* new Date(text) takes any day up to the 31st and carries what is too much over
\* into the next month; Postgres's date type refuses it.
IsDate(d) == d[2] \in 1..12 /\ d[3] \in 1..31
IsReal(d) == IsDate(d) /\ d[3] <= DaysIn(d[1], d[2])
Parsed(d) == IF IsReal(d) THEN d ELSE <<d[1], d[2] + 1, d[3] - DaysIn(d[1], d[2])>>

\* (Mutant: the day of the month is not looked at.)
ageInMonths(d, today) == today[1] - d[1] - (IF today[2] < d[2] THEN 1 ELSE 0)
ageOn(d, today) ==
  today[1] - d[1] -
    (IF today[2] < d[2] \/ (today[2] = d[2] /\ today[3] < d[3]) THEN 1 ELSE 0)

validateApplicant(d) == IsDate(d) /\ ageOn(Parsed(d), Today) \in 18..120

-----------------------------------------------------------------------------
(* Requests, and the pool of connections: withTransaction.                 *)

Free == {r \in Requests : req[r].at = "idle"}

\* A request arrives: a browser's form disables its button while one is pending.
Arrives(r, request) == r \in Free /\ req' = [req EXCEPT ![r] = request]

Proceeds(r, step) == req' = [req EXCEPT ![r].at = step]

\* The request is answered; a request that waits for the answer gets it.
\* (Mutant: a handler that throws answers nothing.)
EndsWell(r, answer) ==
  req' = [q \in Requests |->
            IF q = r THEN Idle
            ELSE IF q = req[r].by /\ answer # "failed"
                   THEN [req[q] EXCEPT !.got = answer, !.session = req[r].session]
            ELSE req[q]]
Ends(r, answer) ==
  req' = [q \in Requests |->
            IF q = r THEN Idle
            ELSE IF q = req[r].by
                   THEN [req[q] EXCEPT !.got = answer, !.session = req[r].session]
            ELSE req[q]]

\* What a thrown error does: the seed tick swallows what happens to an applicant
\* after the row is in; everything else ends the request.
Throws(r) ==
  IF req[r].kind = "tick" /\ req[r].at \in {"opening", "called", "recording",
                                            "concluding", "notifying"}
    THEN req' = [req EXCEPT ![r].at = "next", ![r].got = None]
    ELSE Ends(r, "failed")

\* The steps that run in a transaction, or in a statement of their own.
\* (Mutant: the transaction that records the session is begun before the vendor's call.)
BegunEarly ==
  {"creating", "registering", "opening", "recording", "concluding", "storing", "reviewing",
   "logging"}
Begun ==
  {"creating", "registering", "recording", "concluding", "storing", "reviewing", "logging"}

Unlimited == TRUE  \* (mutant: the pool has no limit)
InPool == Cardinality(lent) < size

Connect(r) ==
  /\ req[r].at \in Begun /\ r \notin lent
  /\ InPool
  /\ lent' = lent \cup {r}
  /\ UNCHANGED <<mode, size, tables, vendor, req, acked, sound>>

\* connectionTimeoutMillis.
ConnectTimesOut(r) ==
  /\ req[r].at \in Begun /\ r \notin lent
  /\ ~InPool
  /\ Throws(r)
  /\ UNCHANGED <<mode, size, tables, vendor, lent, acked, sound>>

Release(r) == r \in lent /\ lent' = lent \ {r}

\* Any statement may fail: everything is rolled back and the connection released.
RollBack(r) ==
  /\ Release(r)
  /\ Throws(r)
  /\ UNCHANGED <<mode, size, tables, vendor, acked, sound>>

-----------------------------------------------------------------------------
(* Applications: createApplication, insertApplication.                     *)

\* A form that does not validate is sent back and changes nothing.
createApplication(r, born) ==
  /\ validateApplicant(born)
  /\ Arrives(r, [Idle EXCEPT !.kind = "apply", !.at = "creating", !.todo = <<born>>])
  /\ UNCHANGED <<mode, size, tables, vendor, lent, acked, sound>>

Entry(action, seeded, session, moved) ==
  [action |-> action, seeded |-> seeded, session |-> session, moved |-> moved]

\* The row and its first audit event, in one transaction; Postgres refuses a day
\* that is not in the calendar (RollBack).
insertApplication(r, a) ==
  LET born == Head(req[r].todo)
      seeded == req[r].kind = "tick"
  IN /\ req[r].at = "creating" /\ Release(r)
     /\ apps[a].status = "absent" /\ IsReal(born)
     /\ apps' = [apps EXCEPT ![a] = [status |-> "started", born |-> born,
                                     session |-> None, seeded |-> seeded]]
     /\ trail' = [trail EXCEPT ![a] = Append(@, Entry("created", seeded, None, FALSE))]
     /\ IF seeded
          THEN req' = [req EXCEPT ![r].at = "opening", ![r].app = a,
                                  ![r].todo = Tail(@)]
          ELSE Ends(r, "ok")
     /\ UNCHANGED <<mode, size, stored, jobs, vendor, acked, sound>>

-----------------------------------------------------------------------------
(* Verification sessions: startVerificationSession.                        *)

\* The page offers the form for an application in any status.
VerifyPage(a) == apps[a].status # "absent"

StartVerification(r, a) ==
  /\ VerifyPage(a)
  /\ Arrives(r, [Idle EXCEPT !.kind = "verify", !.at = "opening", !.app = a])
  /\ UNCHANGED <<mode, size, tables, vendor, lent, acked, sound>>

Unopened == {s \in Sessions : /\ sessions[s] = None
                              /\ \A t \in Sessions : t < s => sessions[t] # None}

\* createVerificationSession: the simulator's session endpoint,
CallSimulator(r, q) ==
  /\ req[r].at = "opening" /\ mode = "simulator"
  /\ q \in Free
  /\ req' = [req EXCEPT ![r].at = "called", ![r].got = None,
                        ![q] = [Idle EXCEPT !.kind = "session", !.at = "registering",
                                            !.app = req[r].app, !.by = r]]
  /\ UNCHANGED <<mode, size, tables, vendor, lent, acked, sound>>

\* or the vendor's own, which creates the session whether or not we live to know.
CallVendor(r, s) ==
  /\ req[r].at = "opening" /\ mode = "live"
  /\ s \in Unopened
  /\ sessions' = [sessions EXCEPT ![s] = req[r].app]
  /\ req' = [req EXCEPT ![r].at = "recording", ![r].session = s]
  /\ UNCHANGED <<mode, size, tables, results, sent, lent, acked, sound>>

\* A call that gets no answer.
CallFails(r) ==
  /\ req[r].at \in {"opening", "notifying"}
  /\ Throws(r)
  /\ UNCHANGED <<mode, size, tables, vendor, lent, acked, sound>>

\* POST /api/mock-vendor/v3/session.
RegisterSession(r, s) ==
  /\ req[r].at = "registering" /\ Release(r)
  /\ s \in Unopened
  /\ sessions' = [sessions EXCEPT ![s] = req[r].app]
  /\ req' = [q \in Requests |->
               IF q = r THEN Idle
               ELSE IF q = req[r].by THEN [req[q] EXCEPT !.got = "ok", !.session = s]
               ELSE req[q]]
  /\ UNCHANGED <<mode, size, tables, results, sent, acked, sound>>

\* Session creation is over: any answer but 201 throws.
SessionAnswered(r) ==
  /\ req[r].at = "called" /\ req[r].event = None /\ req[r].got # None
  /\ req[r].kind \in {"verify", "tick"}
  /\ IF req[r].got = "ok" THEN req' = [req EXCEPT ![r].at = "recording", ![r].got = None]
                          ELSE Throws(r)
  /\ UNCHANGED <<mode, size, tables, vendor, lent, acked, sound>>

\* seededMarker looks at the application's creation event.
\* (Mutant: at who makes the request.)
ActsForSeeder(r) == req[r].kind = "tick"
seededMarker(r) ==
  \E i \in DOMAIN trail[req[r].app] :
    trail[req[r].app][i].action = "created" /\ trail[req[r].app][i].seeded

\* The session is recorded with its audit event; the status moves only out of
\* 'started', and the event says whether it did.
RecordSession(r) ==
  LET a == req[r].app
      moves == apps[a].status = "started"
  IN /\ req[r].at = "recording" /\ Release(r)
     /\ apps' = [apps EXCEPT ![a].session = req[r].session,
                             ![a].status = IF moves THEN "submitted" ELSE @]
     /\ trail' = [trail EXCEPT ![a] =
                    Append(@, Entry("session", seededMarker(r), req[r].session, moves))]
     /\ IF req[r].kind = "tick" THEN Proceeds(r, "concluding") ELSE Ends(r, "ok")
     /\ UNCHANGED <<mode, size, stored, jobs, vendor, acked, sound>>

-----------------------------------------------------------------------------
(* The webhook route: a message at the door.                               *)

MaxSkew == 300

\* (Mutant: a message from the future is not too old.)
TooOld(age) == age > MaxSkew
OutOfDate(age) == age > MaxSkew \/ age < -MaxSkew

verifyWebhookSignature(message) ==
  /\ message.signature # "missing"
  /\ message.dated
  /\ ~OutOfDate(message.age)
  /\ message.signature = "valid"

\* 401 before the body is read, 400 before anything is stored: neither changes anything.
Accepted(message) == verifyWebhookSignature(message) /\ message.body = "event"

\* The request of an accepted copy of message e.
Delivery(e) == [Idle EXCEPT !.kind = "webhook", !.at = "storing", !.event = e]

Sound(message) == message = [Fresh EXCEPT !.age = message.age]
                  /\ message.age \in (-MaxSkew)..MaxSkew
Hears(e, message) == sound' = IF Sound(message) THEN sound \cup {e} ELSE sound

-----------------------------------------------------------------------------
(* Results and webhooks: completeSession, and the live vendor.             *)

\* The simulator's page: not there in live mode, nor for a token of no session.
OffersOutcome(s) == mode = "simulator" /\ sessions[s] # None

completeVerification(r, s, age, drop) ==
  /\ Arrives(r, [Idle EXCEPT !.kind = "complete", !.at = "concluding", !.session = s,
                             !.age = age, !.drop = drop])
  /\ UNCHANGED <<mode, size, tables, vendor, lent, acked, sound>>

\* The page's form: an outcome, and whether its webhook is to be lost.
OutcomePicker(r, s) ==
  OffersOutcome(s) /\ \E drop \in BOOLEAN : completeVerification(r, s, 0, drop)

\* demo-flow.ts may date the result back, and with it the message (--at).
complete(r, s) ==
  /\ mode = "simulator" /\ sessions[s] # None
  /\ completeVerification(r, s, MaxSkew + 1, FALSE)

\* Identifiers are taken in order.
Unsent == {e \in Events : sent[e] = None /\ \A d \in Events : d < e => sent[d] # None}

\* The message on a result has an event_id of its own.
Envelope(e, no) == e \in Unsent /\ sent' = [sent EXCEPT ![e] = no]

\* The result is on record with the vendor before the webhook is sent; a session that
\* is not the simulator's throws (RollBack).
\* (Mutant: the webhook comes first.)
ConcludeLater(r) ==
  /\ req[r].at = "concluding" /\ Release(r)
  /\ IF req[r].drop THEN Ends(r, "ok")
       ELSE req' = [req EXCEPT ![r].at = "notifying", ![r].no = Len(results) + 1]
  /\ UNCHANGED <<mode, size, tables, vendor, acked, sound>>
Conclude(r) ==
  /\ req[r].at = "concluding" /\ Release(r)
  /\ mode = "simulator" /\ Len(results) < MaxResults
  /\ results' = Append(results, req[r].session)
  /\ IF req[r].drop THEN Ends(r, "ok")
       ELSE req' = [req EXCEPT ![r].at = "notifying", ![r].no = Len(results) + 1]
  /\ UNCHANGED <<mode, size, tables, sessions, sent, acked, sound>>

\* A new event_id, signed, posted to this instance.
Notify(r, q, e) ==
  LET copy == [Fresh EXCEPT !.age = req[r].age]
      waits == [req[r] EXCEPT !.at = "called", !.event = e,
                              !.got = IF Accepted(copy) THEN None ELSE "refused"]
  IN /\ req[r].at = "notifying" /\ q \in Free
     /\ Envelope(e, req[r].no)
     /\ req' = IF Accepted(copy)
                 THEN [req EXCEPT ![r] = waits, ![q] = [Delivery(e) EXCEPT !.by = r]]
                 ELSE [req EXCEPT ![r] = waits]
     /\ Hears(e, copy)
     /\ UNCHANGED <<mode, size, tables, sessions, results, lent, acked>>

\* Delivered, whatever the webhook answered; only the page shows an error then.
WebhookAnswered(r) ==
  /\ req[r].at = "called" /\ req[r].event # None /\ req[r].got # None
  /\ IF req[r].kind = "tick"
       THEN req' = [req EXCEPT ![r].at = "next", ![r].got = None, ![r].event = None]
       ELSE Ends(r, IF req[r].got = "ok" THEN "ok" ELSE "failed")
  /\ UNCHANGED <<mode, size, tables, vendor, lent, acked, sound>>

\* The live vendor has a result and writes a message,
VendorConcludes(s, e) ==
  /\ mode = "live" /\ sessions[s] # None
  /\ Len(results) < MaxResults
  /\ results' = Append(results, s)
  /\ Envelope(e, Len(results) + 1)
  /\ UNCHANGED <<mode, size, tables, sessions, req, lent, acked, sound>>

\* which it delivers, and again when it hears no 200 in time (twice more, but how often
\* is of no consequence here), or never.
VendorDelivers(r, e, message) ==
  /\ mode = "live" /\ sent[e] \notin {None, 0}
  /\ message.signature = "valid" /\ message.body = "event"
  /\ Accepted(message) /\ Hears(e, message)
  /\ Arrives(r, Delivery(e))
  /\ UNCHANGED <<mode, size, tables, vendor, lent, acked>>

\* replay-webhook.ts: a message about a session nobody opened, sent as often as one
\* likes, backdated, tampered with, signed with another secret or not at all.
Replay(r, e, message) ==
  /\ sent[e] = 0 \/ e \in Unsent
  /\ sent' = [sent EXCEPT ![e] = 0]
  /\ Accepted(message) /\ Hears(e, message)
  /\ Arrives(r, Delivery(e))
  /\ UNCHANGED <<mode, size, tables, sessions, results, lent, acked>>

-----------------------------------------------------------------------------
(* The webhook route: an accepted message.                                 *)

\* Another transaction has inserted the event and has not committed.
Claimed(e) == \E q \in Requests : req[q].at = "enqueueing" /\ req[q].event = e

\* (Mutant: a copy that is being stored counts as stored.)
Underway(e) == e \in stored \/ Claimed(e)
Conflicts(e) == e \in stored

\* insert ... on conflict do nothing: waits for the transaction that has the key.
InsertEvent(r) ==
  /\ req[r].at = "storing" /\ r \in lent
  /\ ~Conflicts(req[r].event) /\ ~Claimed(req[r].event)
  /\ Proceeds(r, "enqueueing")
  /\ UNCHANGED <<mode, size, tables, vendor, lent, acked, sound>>

\* The duplicate is answered 200 as well.
IgnoreDuplicate(r) ==
  /\ req[r].at = "storing" /\ Release(r)
  /\ Conflicts(req[r].event)
  /\ acked' = acked \cup {req[r].event}
  /\ Ends(r, "ok")
  /\ UNCHANGED <<mode, size, tables, vendor, sound>>

\* enqueueJob, in the same transaction, and the commit.
CommitEvent(r) ==
  /\ req[r].at = "enqueueing" /\ Release(r)
  /\ stored' = stored \cup {req[r].event}
  /\ jobs' = [jobs EXCEPT ![req[r].event] = @ + 1]
  /\ Proceeds(r, "stored")
  /\ UNCHANGED <<mode, size, apps, trail, vendor, acked, sound>>

\* 200, and who waits for it has it; the invocation lives on for the doorbell.
AnswerEvent(r) ==
  /\ req[r].at = "stored"
  /\ acked' = acked \cup {req[r].event}
  /\ req' = [q \in Requests |->
               IF q = r THEN [Idle EXCEPT !.kind = "webhook", !.at = "nudging"]
               ELSE IF q = req[r].by THEN [req[q] EXCEPT !.got = "ok"]
               ELSE req[q]]
  /\ UNCHANGED <<mode, size, tables, vendor, lent, sound>>

\* The drain is called, refuses, fails or hangs for eight seconds: it is all one here,
\* the job is in the table.  JobQueue has the drain.
nudgeWorker(r) ==
  /\ req[r].at = "nudging"
  /\ Ends(r, "ok")
  /\ UNCHANGED <<mode, size, tables, vendor, lent, acked, sound>>

-----------------------------------------------------------------------------
(* The seed tick.                                                          *)

Tick(r, batch) ==
  /\ Arrives(r, [Idle EXCEPT !.kind = "tick", !.at = "next", !.todo = batch])
  /\ UNCHANGED <<mode, size, tables, vendor, lent, acked, sound>>

\* The next applicant; one that does not validate is counted and passed over.
NextApplicant(r) ==
  LET left == req[r].todo
  IN /\ req[r].at = "next"
     /\ req' = [req EXCEPT ![r].session = None,
                  ![r].at = IF left = <<>> THEN "reviewing"
                            ELSE IF validateApplicant(Head(left)) THEN "creating" ELSE "next",
                  ![r].todo = IF left # <<>> /\ ~validateApplicant(Head(left))
                                THEN Tail(@) ELSE @]
     /\ UNCHANGED <<mode, size, tables, vendor, lent, acked, sound>>

\* runSyntheticReviewer: its list and its decisions, as CaseFile and Desk have them.
RunReviewer(r) ==
  /\ req[r].at = "reviewing" /\ Release(r)
  /\ Proceeds(r, "logging")
  /\ UNCHANGED <<mode, size, tables, vendor, acked, sound>>

\* The tick's own audit row is about no application and is not followed here; a tick
\* that threw before this step has none.
LogTick(r) ==
  /\ req[r].at = "logging" /\ Release(r)
  /\ Ends(r, "ok")
  /\ UNCHANGED <<mode, size, tables, vendor, acked, sound>>

-----------------------------------------------------------------------------
\* The instance dies: requests, connections and open transactions go with it.
Restart ==
  /\ req' = [r \in Requests |-> Idle]
  /\ lent' = {}
  /\ UNCHANGED <<mode, size, tables, vendor, acked, sound>>

\* The worker moves an application on when the vendor has told it of a session, and
\* the sweep closes one that was only started, as CaseFile has it.
MovesOn(a) ==
  /\ apps[a].status \in {"started", "submitted"}
  /\ apps[a].status = "started" => apps[a].session = None
  /\ apps' = [apps EXCEPT ![a].status = "beyond"]
  /\ UNCHANGED <<mode, size, trail, stored, jobs, vendor, req, lent, acked, sound>>

Arrival(r) ==
  \/ \E d \in Dates : createApplication(r, d)
  \/ \E a \in Apps : StartVerification(r, a)
  \/ \E s \in Sessions : OutcomePicker(r, s) \/ complete(r, s)
  \/ \E e \in Events, m \in Messages : VendorDelivers(r, e, m) \/ Replay(r, e, m)
  \/ \E b \in Batches : Tick(r, b)

Step(r) ==
  \/ Connect(r) \/ ConnectTimesOut(r) \/ RollBack(r)
  \/ \E a \in Apps : insertApplication(r, a)
  \/ \E q \in Requests : CallSimulator(r, q)
  \/ \E s \in Sessions : CallVendor(r, s)
  \/ CallFails(r)
  \/ \E s \in Sessions : RegisterSession(r, s)
  \/ SessionAnswered(r) \/ RecordSession(r) \/ Conclude(r)
  \/ \E q \in Requests, e \in Events : Notify(r, q, e)
  \/ WebhookAnswered(r)
  \/ InsertEvent(r) \/ IgnoreDuplicate(r) \/ CommitEvent(r) \/ AnswerEvent(r)
  \/ nudgeWorker(r)
  \/ NextApplicant(r) \/ RunReviewer(r) \/ LogTick(r)

Next ==
  \/ \E r \in Requests : Arrival(r) \/ Step(r)
  \/ \E s \in Sessions, e \in Events : VendorConcludes(s, e)
  \/ \E a \in Apps : MovesOn(a)
  \/ Restart

Spec == Init /\ [][Next]_vars

-----------------------------------------------------------------------------
(* Properties.                                                             *)

\* 200 means "durably taken responsibility": whoever heard it may stop resending,
\* since the message is stored with its one job, whatever aborts, dies or arrives
\* twice at once (route.ts, 20-33).
TakenOnce ==
  /\ acked \subseteq stored
  /\ \A e \in Events : jobs[e] = IF e \in stored THEN 1 ELSE 0

\* A message is stored only once a copy has come that is whole, signed with the
\* shared secret, and no more than five minutes off in either direction.
OnlySoundIsStored == stored \subseteq sound

\* A connection is lent only to a request that needs nothing but the database to
\* give it back: none waits for the vendor, for another request of this instance
\* (which may need that connection) or for the drain, and none keeps one when it
\* is over.  So the pool cannot be exhausted by requests that wait for it.
LentOnlyToTransactions ==
  \A r \in lent :
    req[r].at \notin {"idle", "opening", "called", "notifying", "stored", "nudging", "next"}

\* When a message is stored, and its job may be claimed, the result it announces is
\* what the vendor answers: the worker never trusts the message and asks.
NewsIsOnRecord ==
  \A e \in stored : sent[e] <= Len(results)

\* What the statistics page counts: events of a seeded application without the mark.
unmarkedSeededEvents ==
  UNION {{<<a, i>> : i \in {j \in DOMAIN trail[a] : ~trail[a][j].seeded}} :
         a \in {b \in Apps : \E i \in DOMAIN trail[b] :
                              trail[b][i].action = "created" /\ trail[b][i].seeded}}

\* The audit trail of an application tells all that happened to it here: it begins
\* with its creation, carries the seeder's mark on every event or on none, ends with
\* the session the application points to, which is the vendor's session for it, and
\* reports the move to 'submitted' at most once, and always when it is the last.
TrailTellsAll ==
  /\ unmarkedSeededEvents = {}
  /\ \A a \in Apps :
      LET t == trail[a]
          moves == {i \in DOMAIN t : t[i].moved}
      IN IF apps[a].status = "absent" THEN t = <<>>
         ELSE /\ t # <<>>
              /\ \A i \in DOMAIN t : /\ (t[i].action = "created") <=> i = 1
                                     /\ t[i].seeded = apps[a].seeded
              /\ apps[a].session = t[Len(t)].session
              /\ apps[a].session # None => sessions[apps[a].session] = a
              /\ Cardinality(moves) <= 1
              /\ apps[a].status = "submitted" => moves = {2}

\* Whoever has an application was born on a day of the calendar, eighteen years ago
\* or more by that calendar, leap days and month ends included, and not over 120.
AdultsOnly ==
  \A a \in Apps :
    apps[a].status # "absent" =>
      LET d == apps[a].born
          Reached(n) == \/ d[1] + n < Today[1]
                        \/ d[1] + n = Today[1] /\ d[2] < Today[2]
                        \/ d[1] + n = Today[1] /\ d[2] = Today[2] /\ d[3] <= Today[3]
      IN IsReal(d) /\ Reached(18) /\ ~Reached(121)

\* A request that waits for another route of the instance has its answer, or a request
\* that will give it; and that one waits for nobody.  So every call returns, whatever
\* throws, and no circle of waiting requests can form.
EveryCallIsAnswered ==
  \A r \in Requests :
    req[r].at = "called" /\ req[r].got = None =>
      \E q \in Requests :
        req[q].by = r /\ req[q].at \notin {"idle", "opening", "called", "nudging"}
=============================================================================
