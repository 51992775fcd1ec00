---------------------------- MODULE IntakeProofs ----------------------------
(***************************************************************************)
(* What holds of the requests of an instance and of the tables they fill,  *)
(* for any number of requests, connections, sessions and messages.         *)
(*                                                                         *)
(* The inductive invariant says what a request knows at each of its steps  *)
(* (Shape), who waits for whom (Linked), and how the tables hang together  *)
(* (Registered, OnceOnly).  The lemmas that follow prove it one part after *)
(* the other.                                                              *)
(***************************************************************************)
EXTENDS Intake, FiniteSetTheorems, SequenceTheorems, TLAPS

Answering == {"registering", "storing", "enqueueing", "stored"}
Delivering == {"storing", "enqueueing", "stored"}
OnFile == {a \in Apps : apps[a].status # "absent"}

\* What a request e knows where it is.
Shape(e) ==
  /\ e.at = "idle" => e = Idle
  /\ e.by # None => e.at \in Answering /\ e.kind \in {"session", "webhook"}
  /\ e.at = "creating" => e.todo # <<>> /\ validateApplicant(Head(e.todo))
  /\ e.at \in {"creating", "next", "opening", "recording", "concluding", "notifying"} =>
       e.event = None
  /\ e.at \in {"opening", "recording", "registering"} => e.app \in OnFile
  /\ e.at = "called" /\ e.event = None => e.app \in OnFile
  /\ e.at = "recording" \/ (e.at = "called" /\ e.event = None /\ e.got = "ok") =>
       e.session \in Sessions /\ sessions[e.session] = e.app
  /\ e.at = "concluding" => e.session \in Sessions
  /\ e.at = "notifying" => e.no <= Len(results)
  /\ e.at \in Delivering => e.event \in sound /\ sent[e.event] # None
  /\ e.at = "stored" => e.event \in stored

Shapes == \A r \in Requests : Shape(req[r])

\* A request answers one that waits, for this and for no other's answer.
Waits(w) == req[w].at = "called" /\ req[w].got = None
Linked ==
  \A q \in Requests :
    req[q].by # None =>
      /\ Waits(req[q].by)
      /\ req[q].at = "registering" => /\ req[req[q].by].event = None
                                      /\ req[req[q].by].app = req[q].app
      /\ req[q].at # "registering" => req[req[q].by].event # None
      /\ \A p \in Requests : req[p].by = req[q].by => p = q
Heard == \A w \in Requests : Waits(w) => \E q \in Requests : req[q].by = w

\* A connection is lent to a request that is in a transaction.
Lent == \A r \in lent : req[r].at \in Begun \cup {"enqueueing"}

\* One transaction at a time stores a message, and none that is stored.
OnceOnly ==
  \A r \in Requests :
    req[r].at = "enqueueing" =>
      /\ req[r].event \notin stored
      /\ \A q \in Requests : req[q].at = "enqueueing" /\ req[q].event = req[r].event => q = r

\* A message that was written is on a result that was given, or on none.
Written ==
  /\ \A e \in Events : sent[e] # None => sent[e] <= Len(results)
  /\ \A e \in stored : sent[e] # None

\* The rows of an application: its trail begins with its creation, goes on with its
\* sessions, and only the first of these may have moved it.
Row(a) ==
  LET t == trail[a]
  IN IF apps[a].status = "absent" THEN t = <<>>
     ELSE /\ t # <<>>
          /\ \A i \in DOMAIN t : /\ (t[i].action = "created") <=> i = 1
                                 /\ t[i].seeded = apps[a].seeded
                                 /\ t[i].moved => i = 2
          /\ apps[a].session = t[Len(t)].session
          /\ apps[a].session # None => sessions[apps[a].session] = a
          /\ apps[a].status = "started" => Len(t) = 1
          /\ apps[a].status = "submitted" => 2 \in DOMAIN t /\ t[2].moved
          /\ IsReal(apps[a].born) /\ validateApplicant(apps[a].born)
          /\ apps[a].born \in Dates
Registered == \A a \in Apps : Row(a)

IInv == /\ TypeOK /\ Shapes /\ Linked /\ Heard /\ Lent
        /\ TakenOnce /\ OnlySoundIsStored /\ OnceOnly /\ Written /\ Registered

-----------------------------------------------------------------------------
(* Types.                                                                  *)

LEMMA Constants ==
  /\ None \notin Nat /\ None \notin Requests
  /\ None # "ok" /\ None # "refused" /\ None # "failed"
  /\ None \notin Apps /\ None \notin Sessions /\ None \notin Events
  /\ Apps \subseteq Nat /\ Sessions \subseteq Nat /\ Events \subseteq Nat
<1>1. None \notin Nat /\ {MaxApps, MaxSessions, MaxEvents} \subseteq Nat
  BY IntakeAssumption
<1>2. None \notin Requests /\ None # "ok" /\ None # "refused" /\ None # "failed"
  BY IntakeAssumption
<1>3. Apps \subseteq Nat /\ Sessions \subseteq Nat /\ Events \subseteq Nat
  BY <1>1 DEF Apps, Sessions, Events
<1>4. QED
  BY <1>1, <1>2, <1>3

LEMMA IdleType == Idle \in RequestType
BY DEF Idle, RequestType, Kinds, Steps

LEMMA NewRequests ==
  /\ \A d \in Dates :
       [Idle EXCEPT !.kind = "apply", !.at = "creating", !.todo = <<d>>] \in RequestType
  /\ \A a \in Apps : [Idle EXCEPT !.kind = "verify", !.at = "opening", !.app = a] \in RequestType
  /\ \A s \in Sessions, age \in Int, drop \in BOOLEAN :
       [Idle EXCEPT !.kind = "complete", !.at = "concluding", !.session = s,
                    !.age = age, !.drop = drop] \in RequestType
  /\ \A e \in Events : Delivery(e) \in RequestType
  /\ \A e \in Events, r \in Requests : [Delivery(e) EXCEPT !.by = r] \in RequestType
  /\ \A b \in Batches : [Idle EXCEPT !.kind = "tick", !.at = "next", !.todo = b] \in RequestType
  /\ \A a \in Apps \cup {None}, r \in Requests :
       [Idle EXCEPT !.kind = "session", !.at = "registering", !.app = a, !.by = r] \in RequestType
  /\ [Idle EXCEPT !.kind = "webhook", !.at = "nudging"] \in RequestType
<1> USE DEF RequestType, Kinds, Steps
<1>1. \A d \in Dates :
        [Idle EXCEPT !.kind = "apply", !.at = "creating", !.todo = <<d>>] \in RequestType
  <2>1. \A d \in Dates : <<d>> \in Seq(Dates)
    OBVIOUS
  <2>2. QED
    BY <2>1, IdleType
<1>2. \A a \in Apps : [Idle EXCEPT !.kind = "verify", !.at = "opening", !.app = a] \in RequestType
  BY IdleType
<1>3. \A s \in Sessions, age \in Int, drop \in BOOLEAN :
        [Idle EXCEPT !.kind = "complete", !.at = "concluding", !.session = s,
                     !.age = age, !.drop = drop] \in RequestType
  BY IdleType
<1>4. \A e \in Events : Delivery(e) \in RequestType
  BY IdleType DEF Delivery
<1>5. \A e \in Events, r \in Requests : [Delivery(e) EXCEPT !.by = r] \in RequestType
  BY <1>4
<1>6. \A b \in Batches : [Idle EXCEPT !.kind = "tick", !.at = "next", !.todo = b] \in RequestType
  BY IdleType, IntakeAssumption
<1>7. \A a \in Apps \cup {None}, r \in Requests :
        [Idle EXCEPT !.kind = "session", !.at = "registering", !.app = a, !.by = r] \in RequestType
  BY IdleType
<1>8. [Idle EXCEPT !.kind = "webhook", !.at = "nudging"] \in RequestType
  BY IdleType
<1>9. QED
  BY <1>1, <1>2, <1>3, <1>4, <1>5, <1>6, <1>7, <1>8

\* A request whose answer comes.
LEMMA AnsweredType ==
  ASSUME NEW e \in RequestType, NEW answer \in {"ok", "refused", "failed"},
         NEW s \in Sessions \cup {None}
  PROVE  [e EXCEPT !.got = answer, !.session = s] \in RequestType
BY DEF RequestType

LEMMA EndsType ==
  ASSUME req \in [Requests -> RequestType], NEW r \in Requests,
         NEW answer \in {"ok", "refused", "failed"}, Ends(r, answer)
  PROVE  req' \in [Requests -> RequestType]
<1>1. req[r].session \in Sessions \cup {None}
  BY DEF RequestType
<1>2. \A q \in Requests :
        [req[q] EXCEPT !.got = answer, !.session = req[r].session] \in RequestType
  BY <1>1, AnsweredType
<1>3. QED
  BY <1>2, IdleType DEF Ends

LEMMA ThrowsType ==
  ASSUME req \in [Requests -> RequestType], NEW r \in Requests, Throws(r)
  PROVE  req' \in [Requests -> RequestType]
<1>1. CASE Ends(r, "failed")
  BY <1>1, EndsType
<1>2. CASE req' = [req EXCEPT ![r].at = "next", ![r].got = None]
  <2>1. [req[r] EXCEPT !.at = "next", !.got = None] \in RequestType
    BY DEF RequestType, Steps
  <2>2. QED
    BY <1>2, <2>1
<1>3. QED
  BY <1>1, <1>2 DEF Throws

LEMMA LentType ==
  ASSUME TypeOK, NEW r \in Requests
  PROVE  /\ IsFiniteSet(lent) /\ Cardinality(lent) \in Nat /\ size \in Nat
         /\ lent \cup {r} \subseteq Requests /\ lent \ {r} \subseteq Requests
         /\ Cardinality(lent \ {r}) <= size
         /\ InPool => Cardinality(lent \cup {r}) <= size
<1>1. IsFiniteSet(lent) /\ lent \subseteq Requests /\ Cardinality(lent) <= size
  BY IntakeAssumption, FS_Subset DEF TypeOK
<1>2. Cardinality(lent) \in Nat /\ size \in Nat
  <2>1. MaxSize \in Nat /\ size \in 1..MaxSize
    BY IntakeAssumption DEF TypeOK
  <2>2. Cardinality(lent) \in Nat
    BY <1>1, FS_CardinalityType
  <2>3. QED
    BY <2>1, <2>2
<1>3. Cardinality(lent \ {r}) <= size
  BY <1>1, <1>2, FS_RemoveElement
<1>4. InPool => Cardinality(lent \cup {r}) <= size
  BY <1>1, <1>2, FS_AddElement DEF InPool
<1>5. QED
  BY <1>1, <1>2, <1>3, <1>4

\* A step that changes no more than the requests and the connections lent.
LEMMA OnlyRequests ==
  ASSUME TypeOK, UNCHANGED <<mode, size, tables, vendor>>, req' \in [Requests -> RequestType],
         lent' \subseteq Requests, Cardinality(lent') <= size,
         acked' \subseteq Events, sound' \subseteq Events
  PROVE  TypeOK'
BY DEF TypeOK, tables, vendor

LEMMA TypeArrival ==
  ASSUME TypeOK, NEW r \in Requests, Arrival(r)
  PROVE  TypeOK'
<1>0. req \in [Requests -> RequestType] /\ lent \subseteq Requests /\ Cardinality(lent) <= size
      /\ acked \subseteq Events /\ sound \subseteq Events
  BY DEF TypeOK
<1>1. ASSUME NEW d \in Dates, createApplication(r, d) PROVE TypeOK'
  BY <1>0, <1>1, NewRequests, OnlyRequests DEF createApplication, Arrives
<1>2. ASSUME NEW a \in Apps, StartVerification(r, a) PROVE TypeOK'
  BY <1>0, <1>2, NewRequests, OnlyRequests DEF StartVerification, Arrives
<1>3. ASSUME NEW s \in Sessions, OutcomePicker(r, s) \/ complete(r, s) PROVE TypeOK'
  <2>1. PICK age \in Int, drop \in BOOLEAN : completeVerification(r, s, age, drop)
    <3>1. CASE OutcomePicker(r, s)
      BY <3>1 DEF OutcomePicker
    <3>2. CASE complete(r, s)
      <4>1. MaxSkew + 1 \in Int
        BY DEF MaxSkew
      <4>2. QED
        BY <3>2, <4>1 DEF complete
    <3>3. QED
      BY <1>3, <3>1, <3>2
  <2>2. QED
    BY <1>0, <2>1, NewRequests, OnlyRequests DEF completeVerification, Arrives
<1>4. ASSUME NEW e \in Events, NEW m \in Messages, VendorDelivers(r, e, m) PROVE TypeOK'
  BY <1>0, <1>4, NewRequests, OnlyRequests DEF VendorDelivers, Arrives, Hears
<1>5. ASSUME NEW e \in Events, NEW m \in Messages, Replay(r, e, m) PROVE TypeOK'
  <2>1. req' \in [Requests -> RequestType] /\ sound' \subseteq Events
    BY <1>0, <1>5, NewRequests DEF Replay, Arrives, Hears
  <2>2. sent' \in [Events -> Nat \cup {None}]
    BY <1>5 DEF Replay, TypeOK
  <2>3. UNCHANGED <<mode, size, tables, sessions, results, lent, acked>>
    BY <1>5 DEF Replay
  <2>4. QED
    BY <2>1, <2>2, <2>3 DEF TypeOK, tables
<1>6. ASSUME NEW b \in Batches, Tick(r, b) PROVE TypeOK'
  BY <1>0, <1>6, NewRequests, OnlyRequests DEF Tick, Arrives
<1>7. QED
  BY <1>1, <1>2, <1>3, <1>4, <1>5, <1>6 DEF Arrival

\* The ways a request is written over.
LEMMA RewrittenType ==
  ASSUME NEW e \in RequestType
  PROVE  /\ \A step \in Steps : [e EXCEPT !.at = step] \in RequestType
         /\ \A step \in Steps : [e EXCEPT !.at = step, !.got = None] \in RequestType
         /\ \A step \in Steps :
              [e EXCEPT !.at = step, !.got = None, !.event = None] \in RequestType
         /\ \A step \in Steps, s \in Sessions :
              [e EXCEPT !.at = step, !.session = s] \in RequestType
         /\ \A step \in Steps, n \in Nat : [e EXCEPT !.at = step, !.no = n] \in RequestType
         /\ \A step \in Steps, a \in Apps, t \in Seq(Dates) :
              [e EXCEPT !.at = step, !.app = a, !.todo = t] \in RequestType
         /\ \A step \in Steps, m \in Events, got \in {None, "refused"} :
              [e EXCEPT !.at = step, !.event = m, !.got = got] \in RequestType
         /\ \A step \in Steps, t \in Seq(Dates) :
              [e EXCEPT !.session = None, !.at = step, !.todo = t] \in RequestType
         /\ \A s \in Sessions : [e EXCEPT !.got = "ok", !.session = s] \in RequestType
         /\ [e EXCEPT !.got = "ok"] \in RequestType
<1> USE DEF RequestType
<1>1. \A step \in Steps : [e EXCEPT !.at = step] \in RequestType
  OBVIOUS
<1>2. \A step \in Steps : [e EXCEPT !.at = step, !.got = None] \in RequestType
  OBVIOUS
<1>3. \A step \in Steps : [e EXCEPT !.at = step, !.got = None, !.event = None] \in RequestType
  OBVIOUS
<1>4. \A step \in Steps, s \in Sessions : [e EXCEPT !.at = step, !.session = s] \in RequestType
  OBVIOUS
<1>5. \A step \in Steps, n \in Nat : [e EXCEPT !.at = step, !.no = n] \in RequestType
  OBVIOUS
<1>6. \A step \in Steps, a \in Apps, t \in Seq(Dates) :
        [e EXCEPT !.at = step, !.app = a, !.todo = t] \in RequestType
  OBVIOUS
<1>7. \A step \in Steps, m \in Events, got \in {None, "refused"} :
        [e EXCEPT !.at = step, !.event = m, !.got = got] \in RequestType
  OBVIOUS
<1>8. \A step \in Steps, t \in Seq(Dates) :
        [e EXCEPT !.session = None, !.at = step, !.todo = t] \in RequestType
  OBVIOUS
<1>9. \A s \in Sessions : [e EXCEPT !.got = "ok", !.session = s] \in RequestType
  OBVIOUS
<1>10. [e EXCEPT !.got = "ok"] \in RequestType
  OBVIOUS
<1>11. QED
  BY <1>1, <1>2, <1>3, <1>4, <1>5, <1>6, <1>7, <1>8, <1>9, <1>10

\* The pool, and the requests' own steps that touch no table.
LEMMA TypeRequest ==
  ASSUME TypeOK, Shapes, NEW r \in Requests,
         \/ Connect(r) \/ ConnectTimesOut(r) \/ RollBack(r) \/ CallFails(r)
         \/ \E q \in Requests : CallSimulator(r, q)
         \/ SessionAnswered(r) \/ WebhookAnswered(r)
         \/ InsertEvent(r) \/ IgnoreDuplicate(r) \/ AnswerEvent(r) \/ nudgeWorker(r)
         \/ NextApplicant(r) \/ RunReviewer(r) \/ LogTick(r)
  PROVE  TypeOK'
<1>0. /\ req \in [Requests -> RequestType] /\ req[r] \in RequestType
      /\ lent \subseteq Requests /\ Cardinality(lent) <= size
      /\ acked \subseteq Events /\ sound \subseteq Events
  BY DEF TypeOK
<1>1. CASE Connect(r)
  BY <1>0, <1>1, LentType, OnlyRequests DEF Connect
<1>2. CASE ConnectTimesOut(r) \/ CallFails(r)
  BY <1>0, <1>2, ThrowsType, OnlyRequests DEF ConnectTimesOut, CallFails
<1>3. CASE RollBack(r)
  BY <1>0, <1>3, ThrowsType, LentType, OnlyRequests DEF RollBack, Release
<1>4. ASSUME NEW q \in Requests, CallSimulator(r, q) PROVE TypeOK'
  <2>1. /\ [req[r] EXCEPT !.at = "called", !.got = None] \in RequestType
        /\ [Idle EXCEPT !.kind = "session", !.at = "registering", !.app = req[r].app,
                        !.by = r] \in RequestType
    <3>1. req[r].app \in Apps \cup {None}
      BY <1>0 DEF RequestType
    <3>2. [req[r] EXCEPT !.at = "called", !.got = None] \in RequestType
      BY <1>0, RewrittenType DEF Steps
    <3>3. QED
      BY <3>1, <3>2, NewRequests
  <2>2. req' \in [Requests -> RequestType]
    BY <1>0, <1>4, <2>1 DEF CallSimulator
  <2>3. QED
    BY <1>0, <1>4, <2>2, OnlyRequests DEF CallSimulator
<1>5. CASE SessionAnswered(r)
  <2>1. [req[r] EXCEPT !.at = "recording", !.got = None] \in RequestType
    BY <1>0, RewrittenType DEF Steps
  <2>2. req' \in [Requests -> RequestType]
    BY <1>0, <1>5, <2>1, ThrowsType DEF SessionAnswered
  <2>3. QED
    BY <1>0, <1>5, <2>2, OnlyRequests DEF SessionAnswered
<1>6. CASE WebhookAnswered(r)
  <2>1. [req[r] EXCEPT !.at = "next", !.got = None, !.event = None] \in RequestType
    BY <1>0, RewrittenType DEF Steps
  <2>2. req' \in [Requests -> RequestType]
    BY <1>0, <1>6, <2>1, EndsType DEF WebhookAnswered
  <2>3. QED
    BY <1>0, <1>6, <2>2, OnlyRequests DEF WebhookAnswered
<1>7. CASE InsertEvent(r)
  <2>1. [req[r] EXCEPT !.at = "enqueueing"] \in RequestType
    BY <1>0, RewrittenType DEF Steps
  <2>2. QED
    BY <1>0, <1>7, <2>1, OnlyRequests DEF InsertEvent, Proceeds
<1>8. CASE IgnoreDuplicate(r)
  <2>1. req[r].event \in Events
    BY <1>8 DEF IgnoreDuplicate, Conflicts, TypeOK
  <2>2. acked' \subseteq Events
    BY <1>0, <1>8, <2>1 DEF IgnoreDuplicate
  <2>3. req' \in [Requests -> RequestType]
    BY <1>0, <1>8, EndsType DEF IgnoreDuplicate
  <2>4. QED
    BY <1>0, <1>8, <2>2, <2>3, LentType, OnlyRequests DEF IgnoreDuplicate, Release
<1>9. CASE AnswerEvent(r)
  <2>1. acked' \subseteq Events
    BY <1>0, <1>9 DEF AnswerEvent, TypeOK, Shapes, Shape
  <2>2. \A q \in Requests : [req[q] EXCEPT !.got = "ok"] \in RequestType
    BY <1>0, RewrittenType
  <2>3. [Idle EXCEPT !.kind = "webhook", !.at = "nudging"] \in RequestType
    BY NewRequests
  <2>4. req' \in [Requests -> RequestType]
    BY <1>0, <1>9, <2>2, <2>3 DEF AnswerEvent
  <2>5. QED
    BY <1>0, <1>9, <2>1, <2>4, OnlyRequests DEF AnswerEvent
<1>10. CASE nudgeWorker(r)
  BY <1>0, <1>10, EndsType, OnlyRequests DEF nudgeWorker
<1>11. CASE NextApplicant(r)
  <2> DEFINE step == IF req[r].todo = <<>> THEN "reviewing"
                     ELSE IF validateApplicant(Head(req[r].todo)) THEN "creating" ELSE "next"
             left == IF req[r].todo # <<>> /\ ~validateApplicant(Head(req[r].todo))
                       THEN Tail(req[r].todo) ELSE req[r].todo
  <2>1. step \in Steps
    BY DEF Steps
  <2>2. left \in Seq(Dates)
    <3>1. req[r].todo \in Seq(Dates)
      BY <1>0 DEF RequestType
    <3>2. QED
      BY <3>1, HeadTailProperties
  <2>3. [req[r] EXCEPT !.session = None, !.at = step, !.todo = left] \in RequestType
    <3> HIDE DEF step, left
    <3>1. QED
      BY <1>0, <2>1, <2>2, RewrittenType
  <2>4. req' = [req EXCEPT ![r] = [req[r] EXCEPT !.session = None, !.at = step, !.todo = left]]
    BY <1>0, <1>11 DEF NextApplicant
  <2> HIDE DEF step, left
  <2>5. req' \in [Requests -> RequestType]
    BY <1>0, <2>3, <2>4
  <2>6. QED
    BY <1>0, <1>11, <2>5, OnlyRequests DEF NextApplicant
<1>12. CASE RunReviewer(r)
  <2>1. [req[r] EXCEPT !.at = "logging"] \in RequestType
    BY <1>0, RewrittenType DEF Steps
  <2>2. QED
    BY <1>0, <1>12, <2>1, LentType, OnlyRequests DEF RunReviewer, Proceeds, Release
<1>13. CASE LogTick(r)
  BY <1>0, <1>13, EndsType, LentType, OnlyRequests DEF LogTick, Release
<1>14. QED
  BY <1>1, <1>2, <1>3, <1>4, <1>5, <1>6, <1>7, <1>8, <1>9, <1>10, <1>11, <1>12, <1>13

\* The steps that write.
LEMMA TypeWrites ==
  ASSUME TypeOK, Shapes, NEW r \in Requests,
         \/ \E a \in Apps : insertApplication(r, a)
         \/ \E s \in Sessions : CallVendor(r, s) \/ RegisterSession(r, s)
         \/ RecordSession(r) \/ Conclude(r) \/ CommitEvent(r)
         \/ \E q \in Requests, e \in Events : Notify(r, q, e)
  PROVE  TypeOK'
<1>0. /\ req \in [Requests -> RequestType] /\ req[r] \in RequestType
      /\ lent \subseteq Requests /\ Cardinality(lent) <= size
      /\ acked \subseteq Events /\ sound \subseteq Events
  BY DEF TypeOK
<1>1. ASSUME NEW a \in Apps, insertApplication(r, a) PROVE TypeOK'
  <2>1. req[r].todo \in Seq(Dates) /\ req[r].todo # <<>>
    BY <1>0, <1>1 DEF insertApplication, Shapes, Shape, RequestType
  <2>2. Head(req[r].todo) \in Dates /\ Tail(req[r].todo) \in Seq(Dates)
    BY <2>1, HeadTailProperties
  <2>3. /\ apps' \in [Apps -> [status : AppStatuses, born : Dates \cup {None},
                               session : Sessions \cup {None}, seeded : BOOLEAN]]
        /\ trail' \in [Apps -> Seq(EntryType)]
    <3>1. [status |-> "started", born |-> Head(req[r].todo), session |-> None,
           seeded |-> req[r].kind = "tick"]
            \in [status : AppStatuses, born : Dates \cup {None},
                 session : Sessions \cup {None}, seeded : BOOLEAN]
      BY <2>2 DEF AppStatuses
    <3>2. Entry("created", req[r].kind = "tick", None, FALSE) \in EntryType
      BY DEF Entry, EntryType
    <3>3. apps \in [Apps -> [status : AppStatuses, born : Dates \cup {None},
                             session : Sessions \cup {None}, seeded : BOOLEAN]]
          /\ trail \in [Apps -> Seq(EntryType)]
      BY DEF TypeOK
    <3>4. Append(trail[a], Entry("created", req[r].kind = "tick", None, FALSE)) \in Seq(EntryType)
      BY <3>2, <3>3, AppendProperties
    <3>5. QED
      BY <1>1, <3>1, <3>3, <3>4 DEF insertApplication
  <2>4. req' \in [Requests -> RequestType]
    <3>1. CASE req[r].kind = "tick"
      <4>1. [req[r] EXCEPT !.at = "opening", !.app = a, !.todo = Tail(req[r].todo)] \in RequestType
        BY <1>0, <2>2, RewrittenType DEF Steps
      <4>2. req' = [req EXCEPT ![r].at = "opening", ![r].app = a, ![r].todo = Tail(@)]
        BY <1>1, <3>1 DEF insertApplication
      <4>3. QED
        BY <1>0, <4>1, <4>2
    <3>2. CASE req[r].kind # "tick"
      BY <1>0, <1>1, <3>2, EndsType DEF insertApplication
    <3>3. QED
      BY <3>1, <3>2
  <2>5. /\ UNCHANGED <<mode, size, stored, jobs, vendor, acked, sound>>
        /\ lent' = lent \ {r}
    BY <1>1 DEF insertApplication, Release
  <2>6. QED
    BY <2>3, <2>4, <2>5, LentType DEF TypeOK, vendor
<1>2. ASSUME NEW s \in Sessions, CallVendor(r, s) PROVE TypeOK'
  <2>1. [req[r] EXCEPT !.at = "recording", !.session = s] \in RequestType
    BY <1>0, RewrittenType DEF Steps
  <2>2. req' \in [Requests -> RequestType]
    BY <1>0, <1>2, <2>1 DEF CallVendor
  <2>3. sessions' \in [Sessions -> Apps \cup {None}]
    BY <1>0, <1>2 DEF CallVendor, TypeOK, RequestType
  <2>4. UNCHANGED <<mode, size, tables, results, sent, lent, acked, sound>>
    BY <1>2 DEF CallVendor
  <2>5. QED
    BY <2>2, <2>3, <2>4 DEF TypeOK, tables
<1>3. ASSUME NEW s \in Sessions, RegisterSession(r, s) PROVE TypeOK'
  <2>1. \A q \in Requests : [req[q] EXCEPT !.got = "ok", !.session = s] \in RequestType
    BY <1>0, RewrittenType
  <2>2. req' \in [Requests -> RequestType]
    BY <1>3, <1>0, <2>1, IdleType DEF RegisterSession
  <2>3. sessions' \in [Sessions -> Apps \cup {None}]
    BY <1>0, <1>3 DEF RegisterSession, TypeOK, RequestType
  <2>4. UNCHANGED <<mode, size, tables, results, sent, acked, sound>> /\ lent' = lent \ {r}
    BY <1>3 DEF RegisterSession, Release
  <2>5. QED
    BY <2>2, <2>3, <2>4, LentType DEF TypeOK, tables
<1>4. CASE RecordSession(r)
  <2> DEFINE a == req[r].app
             moves == apps[a].status = "started"
  <2>1. a \in Apps /\ req[r].session \in Sessions
    BY <1>4 DEF RecordSession, Shapes, Shape, OnFile
  <2>2. apps' \in [Apps -> [status : AppStatuses, born : Dates \cup {None},
                           session : Sessions \cup {None}, seeded : BOOLEAN]]
    <3>1. apps' = [apps EXCEPT ![a].session = req[r].session,
                               ![a].status = IF moves THEN "submitted" ELSE @]
      BY <1>4 DEF RecordSession
    <3>2. apps \in [Apps -> [status : AppStatuses, born : Dates \cup {None},
                             session : Sessions \cup {None}, seeded : BOOLEAN]]
      BY DEF TypeOK
    <3> DEFINE row == [apps[a] EXCEPT !.session = req[r].session,
                                      !.status = IF moves THEN "submitted" ELSE @]
    <3>3. row \in [status : AppStatuses, born : Dates \cup {None},
                   session : Sessions \cup {None}, seeded : BOOLEAN]
      BY <2>1, <3>2 DEF AppStatuses
    <3>4. apps' = [apps EXCEPT ![a] = row]
      BY <2>1, <3>1, <3>2
    <3> HIDE DEF row
    <3>5. QED
      BY <2>1, <3>2, <3>3, <3>4
  <2>3. trail' \in [Apps -> Seq(EntryType)]
    <3>1. seededMarker(r) \in BOOLEAN /\ moves \in BOOLEAN
      BY DEF seededMarker
    <3>2. Entry("session", seededMarker(r), req[r].session, moves) \in EntryType
      BY <2>1, <3>1 DEF Entry, EntryType
    <3>3. trail' = [trail EXCEPT ![a] =
                      Append(@, Entry("session", seededMarker(r), req[r].session, moves))]
      BY <1>4 DEF RecordSession
    <3>4. trail \in [Apps -> Seq(EntryType)]
      BY DEF TypeOK
    <3>5. Append(trail[a], Entry("session", seededMarker(r), req[r].session, moves)) \in Seq(EntryType)
      BY <2>1, <3>2, <3>4, AppendProperties
    <3> HIDE DEF a, moves
    <3>6. QED
      BY <3>3, <3>4, <3>5
  <2>4. req' \in [Requests -> RequestType]
    <3>1. [req[r] EXCEPT !.at = "concluding"] \in RequestType
      BY <1>0, RewrittenType DEF Steps
    <3>2. CASE Proceeds(r, "concluding")
      BY <1>0, <3>1, <3>2 DEF Proceeds
    <3>3. CASE Ends(r, "ok")
      BY <1>0, <3>3, EndsType
    <3>4. QED
      BY <1>4, <3>2, <3>3 DEF RecordSession
  <2>5. /\ UNCHANGED <<mode, size, stored, jobs, vendor, acked, sound>> /\ lent' = lent \ {r}
    BY <1>4 DEF RecordSession, Release
  <2>6. QED
    BY <2>2, <2>3, <2>4, <2>5, LentType DEF TypeOK, vendor
<1>5. CASE Conclude(r)
  <2>1. results' \in Seq(Sessions) /\ Len(results) + 1 \in Nat
    <3>1. results \in Seq(Sessions) /\ req[r].session \in Sessions
      BY <1>5 DEF Conclude, TypeOK, Shapes, Shape
    <3>2. QED
      BY <1>5, <3>1, AppendProperties DEF Conclude
  <2>2. req' \in [Requests -> RequestType]
    <3>1. [req[r] EXCEPT !.at = "notifying", !.no = Len(results) + 1] \in RequestType
      BY <1>0, <2>1, RewrittenType DEF Steps
    <3>2. CASE Ends(r, "ok")
      BY <1>0, <3>2, EndsType
    <3>3. CASE req' = [req EXCEPT ![r].at = "notifying", ![r].no = Len(results) + 1]
      BY <1>0, <3>1, <3>3
    <3>4. QED
      BY <1>5, <3>2, <3>3 DEF Conclude
  <2>3. UNCHANGED <<mode, size, tables, sessions, sent, acked, sound>> /\ lent' = lent \ {r}
    BY <1>5 DEF Conclude, Release
  <2>4. QED
    BY <2>1, <2>2, <2>3, LentType DEF TypeOK, tables
<1>6. CASE CommitEvent(r)
  <2>1. req[r].event \in Events
    <3>1. req[r].event \in sound
      BY <1>6 DEF CommitEvent, Shapes, Shape, Delivering
    <3>2. QED
      BY <1>0, <3>1
  <2>2. stored' \subseteq Events /\ jobs' \in [Events -> Nat]
    BY <1>6, <2>1 DEF CommitEvent, TypeOK
  <2>3. [req[r] EXCEPT !.at = "stored"] \in RequestType
    BY <1>0, RewrittenType DEF Steps
  <2>4. req' \in [Requests -> RequestType]
    BY <1>0, <1>6, <2>3 DEF CommitEvent, Proceeds
  <2>5. UNCHANGED <<mode, size, apps, trail, vendor, acked, sound>> /\ lent' = lent \ {r}
    BY <1>6 DEF CommitEvent, Release
  <2>6. QED
    BY <2>2, <2>4, <2>5, LentType DEF TypeOK, vendor
<1>7. ASSUME NEW q \in Requests, NEW e \in Events, Notify(r, q, e) PROVE TypeOK'
  <2> DEFINE got == IF Accepted([Fresh EXCEPT !.age = req[r].age]) THEN None ELSE "refused"
             waits == [req[r] EXCEPT !.at = "called", !.event = e, !.got = got]
  <2>1. waits \in RequestType
    <3>1. got \in {None, "refused"}
      OBVIOUS
    <3> HIDE DEF got
    <3>2. QED
      BY <1>0, <3>1, RewrittenType DEF Steps
  <2>2. [Delivery(e) EXCEPT !.by = r] \in RequestType
    BY NewRequests
  <2>3. \/ req' = [req EXCEPT ![r] = waits, ![q] = [Delivery(e) EXCEPT !.by = r]]
        \/ req' = [req EXCEPT ![r] = waits]
    BY <1>7 DEF Notify
  <2>4. req' \in [Requests -> RequestType]
    <3> HIDE DEF waits
    <3>1. QED
      BY <1>0, <2>1, <2>2, <2>3
  <2>5. sent' \in [Events -> Nat \cup {None}] /\ sound' \subseteq Events
    <3>1. req[r].no \in Nat
      BY <1>0 DEF RequestType
    <3>2. QED
      BY <1>0, <1>7, <3>1 DEF Notify, Envelope, Hears, TypeOK
  <2>6. UNCHANGED <<mode, size, tables, sessions, results, lent, acked>>
    BY <1>7 DEF Notify
  <2>7. QED
    BY <2>4, <2>5, <2>6 DEF TypeOK, tables
<1>8. QED
  BY <1>1, <1>2, <1>3, <1>4, <1>5, <1>6, <1>7

LEMMA TypeAround ==
  ASSUME TypeOK,
         \/ \E s \in Sessions, e \in Events : VendorConcludes(s, e)
         \/ \E a \in Apps : MovesOn(a)
         \/ Restart
  PROVE  TypeOK'
<1>1. ASSUME NEW s \in Sessions, NEW e \in Events, VendorConcludes(s, e) PROVE TypeOK'
  <2>1. results' \in Seq(Sessions) /\ Len(results) + 1 \in Nat
    BY <1>1, AppendProperties DEF VendorConcludes, TypeOK
  <2>2. sent' \in [Events -> Nat \cup {None}]
    BY <1>1, <2>1 DEF VendorConcludes, Envelope, TypeOK
  <2>3. UNCHANGED <<mode, size, tables, sessions, req, lent, acked, sound>>
    BY <1>1 DEF VendorConcludes
  <2>4. QED
    BY <2>1, <2>2, <2>3 DEF TypeOK, tables
<1>2. ASSUME NEW a \in Apps, MovesOn(a) PROVE TypeOK'
  <2>1. apps' \in [Apps -> [status : AppStatuses, born : Dates \cup {None},
                           session : Sessions \cup {None}, seeded : BOOLEAN]]
    BY <1>2 DEF MovesOn, TypeOK, AppStatuses
  <2>2. UNCHANGED <<mode, size, trail, stored, jobs, vendor, req, lent, acked, sound>>
    BY <1>2 DEF MovesOn
  <2>3. QED
    BY <2>1, <2>2 DEF TypeOK, vendor
<1>3. CASE Restart
  <2>1. Cardinality({}) = 0 /\ 0 <= size
    <3>1. MaxSize \in Nat /\ size \in 1..MaxSize
      BY IntakeAssumption DEF TypeOK
    <3>2. QED
      BY <3>1, FS_EmptySet
  <2>2. req' \in [Requests -> RequestType]
    BY <1>3, IdleType DEF Restart
  <2>3. QED
    BY <1>3, <2>1, <2>2, OnlyRequests DEF Restart, TypeOK
<1>4. QED
  BY <1>1, <1>2, <1>3

LEMMA TypeNext == TypeOK /\ Shapes /\ [Next]_vars => TypeOK'
<1> SUFFICES ASSUME TypeOK, Shapes, [Next]_vars PROVE TypeOK'
  OBVIOUS
<1>1. ASSUME NEW r \in Requests, Arrival(r) PROVE TypeOK'
  BY <1>1, TypeArrival
<1>2. ASSUME NEW r \in Requests, Step(r) PROVE TypeOK'
  BY <1>2, TypeRequest, TypeWrites DEF Step
<1>3. CASE UNCHANGED vars
  BY <1>3 DEF vars, TypeOK
<1>4. QED
  BY <1>1, <1>2, <1>3, TypeAround DEF Next

-----------------------------------------------------------------------------
(* What a request knows.                                                   *)

\* Nothing that a request knows of the tables is ever taken back.
Grows ==
  /\ OnFile \subseteq OnFile'
  /\ \A s \in Sessions : sessions[s] # None => sessions'[s] = sessions[s]
  /\ Len(results) <= Len(results')
  /\ \A e \in Events : sent[e] # None => sent'[e] # None
  /\ stored \subseteq stored' /\ sound \subseteq sound'

LEMMA GrowsNext ==
  ASSUME TypeOK, TypeOK', Shapes, [Next]_vars
  PROVE  Grows
<1> DEFINE Same == UNCHANGED <<apps, sessions, results, sent, stored, sound>>
<1>0. /\ Len(results) \in Nat
      /\ \A a \in Apps : apps[a] \in [status : AppStatuses, born : Dates \cup {None},
                                    session : Sessions \cup {None}, seeded : BOOLEAN]
  BY DEF TypeOK
<1>1. ASSUME Same PROVE Grows
  BY <1>0, <1>1 DEF Grows, OnFile
<1>2. ASSUME NEW r \in Requests, Arrival(r) PROVE Grows
  <2>1. CASE \E d \in Dates : createApplication(r, d)
    BY <1>1, <2>1 DEF createApplication, tables, vendor
  <2>2. CASE \E a \in Apps : StartVerification(r, a)
    BY <1>1, <2>2 DEF StartVerification, tables, vendor
  <2>3. CASE \E s \in Sessions : OutcomePicker(r, s) \/ complete(r, s)
    BY <1>1, <2>3 DEF OutcomePicker, complete, completeVerification, tables, vendor
  <2>4. ASSUME NEW e \in Events, NEW m \in Messages, VendorDelivers(r, e, m) PROVE Grows
    BY <1>0, <2>4 DEF VendorDelivers, Hears, Grows, OnFile, tables, vendor
  <2>5. ASSUME NEW e \in Events, NEW m \in Messages, Replay(r, e, m) PROVE Grows
    <3>1. \A d \in Events : sent[d] # None => sent'[d] # None
      BY <2>5, Constants DEF Replay, TypeOK
    <3>2. QED
      BY <1>0, <2>5, <3>1 DEF Replay, Hears, Grows, OnFile, tables
  <2>6. CASE \E b \in Batches : Tick(r, b)
    BY <1>1, <2>6 DEF Tick, tables, vendor
  <2>7. QED
    BY <1>2, <2>1, <2>2, <2>3, <2>4, <2>5, <2>6 DEF Arrival
<1>3. ASSUME NEW r \in Requests, Step(r) PROVE Grows
  <2>1. CASE \/ Connect(r) \/ ConnectTimesOut(r) \/ RollBack(r) \/ CallFails(r)
             \/ \E q \in Requests : CallSimulator(r, q)
    BY <1>1, <2>1 DEF Connect, ConnectTimesOut, RollBack, CallFails, CallSimulator, tables, vendor
  <2>2. CASE \/ SessionAnswered(r) \/ WebhookAnswered(r)
             \/ InsertEvent(r) \/ IgnoreDuplicate(r) \/ AnswerEvent(r) \/ nudgeWorker(r)
             \/ NextApplicant(r) \/ RunReviewer(r) \/ LogTick(r)
    BY <1>1, <2>2 DEF SessionAnswered, WebhookAnswered, InsertEvent, IgnoreDuplicate,
         AnswerEvent, nudgeWorker, NextApplicant, RunReviewer, LogTick, tables, vendor
  <2>3. ASSUME NEW a \in Apps, insertApplication(r, a) PROVE Grows
    <3>1. \A b \in Apps : apps[b].status # "absent" => apps'[b] = apps[b]
      BY <2>3 DEF insertApplication, TypeOK
    <3>2. QED
      BY <1>0, <2>3, <3>1 DEF insertApplication, Grows, OnFile, vendor
  <2>4. ASSUME NEW s \in Sessions, CallVendor(r, s) \/ RegisterSession(r, s) PROVE Grows
    <3>1. \A t \in Sessions : sessions[t] # None => sessions'[t] = sessions[t]
      BY <2>4 DEF CallVendor, RegisterSession, Unopened, TypeOK
    <3>2. UNCHANGED <<apps, results, sent, stored, sound>>
      BY <2>4 DEF CallVendor, RegisterSession, tables
    <3>3. QED
      BY <1>0, <3>1, <3>2 DEF Grows, OnFile
  <2>5. CASE RecordSession(r)
    <3>1. \A b \in Apps : apps[b].status # "absent" => apps'[b].status # "absent"
      <4>1. apps' = [apps EXCEPT ![req[r].app].session = req[r].session,
                                 ![req[r].app].status =
                                    IF apps[req[r].app].status = "started" THEN "submitted" ELSE @]
        BY <2>5 DEF RecordSession
      <4>2. QED
        BY <4>1 DEF TypeOK
    <3>2. UNCHANGED <<sessions, results, sent, stored, sound>>
      BY <2>5 DEF RecordSession, vendor
    <3>3. QED
      BY <1>0, <3>1, <3>2 DEF Grows, OnFile
  <2>6. CASE Conclude(r)
    <3>1. Len(results') = Len(results) + 1
      <4>1. results \in Seq(Sessions) /\ req[r].session \in Sessions
        BY <2>6 DEF Conclude, TypeOK, Shapes, Shape
      <4>2. QED
        BY <2>6, <4>1, AppendProperties DEF Conclude
    <3>2. QED
      BY <1>0, <2>6, <3>1 DEF Conclude, Grows, OnFile, tables
  <2>7. CASE CommitEvent(r)
    BY <1>0, <2>7 DEF CommitEvent, Grows, OnFile, vendor
  <2>8. ASSUME NEW q \in Requests, NEW e \in Events, Notify(r, q, e) PROVE Grows
    <3>1. \A d \in Events : sent[d] # None => sent'[d] # None
      BY <2>8 DEF Notify, Envelope, Unsent, TypeOK
    <3>2. QED
      BY <1>0, <2>8, <3>1 DEF Notify, Hears, Grows, OnFile, tables
  <2>9. QED
    BY <1>3, <2>1, <2>2, <2>3, <2>4, <2>5, <2>6, <2>7, <2>8 DEF Step
<1>4. ASSUME NEW s \in Sessions, NEW e \in Events, VendorConcludes(s, e) PROVE Grows
  <2>1. Len(results') = Len(results) + 1
    BY <1>4, AppendProperties DEF VendorConcludes, TypeOK
  <2>2. \A d \in Events : sent[d] # None => sent'[d] # None
    BY <1>4 DEF VendorConcludes, Envelope, Unsent, TypeOK
  <2>3. QED
    BY <1>0, <1>4, <2>1, <2>2 DEF VendorConcludes, Grows, OnFile, tables
<1>5. ASSUME NEW a \in Apps, MovesOn(a) PROVE Grows
  <2>1. \A b \in Apps : apps[b].status # "absent" => apps'[b].status # "absent"
    BY <1>5 DEF MovesOn, TypeOK
  <2>2. QED
    BY <1>0, <1>5, <2>1 DEF MovesOn, Grows, OnFile, vendor
<1>6. CASE Restart
  BY <1>1, <1>6 DEF Restart, tables, vendor
<1>7. CASE UNCHANGED vars
  BY <1>1, <1>7 DEF vars
<1>8. QED
  BY <1>2, <1>3, <1>4, <1>5, <1>6, <1>7 DEF Next

LEMMA ShapeGrows ==
  ASSUME TypeOK, Grows, NEW e \in RequestType, Shape(e)
  PROVE  Shape(e)'
<1>1. \A a \in OnFile : a \in OnFile' /\ a # None
  BY Constants DEF Grows, OnFile
<1>2. e.at \in {"opening", "recording", "registering"} \/ (e.at = "called" /\ e.event = None) =>
        e.app \in OnFile'
  BY <1>1 DEF Shape
<1>3. e.at = "recording" \/ (e.at = "called" /\ e.event = None /\ e.got = "ok") =>
        e.session \in Sessions /\ sessions'[e.session] = e.app
  BY <1>1 DEF Shape, Grows
<1>4. e.at = "notifying" => e.no <= Len(results')
  <2>1. Len(results) \in Nat /\ e.no \in Nat
    BY DEF TypeOK, RequestType
  <2>2. QED
    BY <2>1 DEF Shape, Grows
<1>5. e.at \in Delivering => e.event \in sound' /\ sent'[e.event] # None
  BY DEF Shape, Grows, TypeOK
<1>6. e.at = "stored" => e.event \in stored'
  BY DEF Shape, Grows
<1>7. QED
  BY <1>2, <1>3, <1>4, <1>5, <1>6 DEF Shape

\* It is enough to look at the requests that a step writes over.
Reshaped(q) == req'[q] = req[q] \/ Shape(req[q])'

LEMMA ShapesGrow ==
  ASSUME TypeOK, Shapes, Grows, \A q \in Requests : Reshaped(q)
  PROVE  Shapes'
<1> SUFFICES ASSUME NEW q \in Requests PROVE Shape(req[q])'
  BY DEF Shapes
<1>1. CASE req'[q] = req[q]
  <2>1. PICK e \in RequestType : e = req[q] /\ Shape(e)
    BY DEF TypeOK, Shapes
  <2>2. Shape(e)'
    BY <2>1, ShapeGrows
  <2>3. e = req'[q]
    BY <1>1, <2>1
  <2>4. QED
    BY <2>2, <2>3 DEF Shape
<1>2. CASE Shape(req[q])'
  BY <1>2
<1>3. QED
  BY <1>1, <1>2 DEF Reshaped

LEMMA IdleShape ==
  ASSUME NEW q \in Requests, req'[q] = Idle
  PROVE  Shape(req[q])'
BY DEF Shape, Idle, Answering, Delivering

\* An arrival.
LEMMA ShapeArrival ==
  ASSUME TypeOK, Grows, NEW r \in Requests, Arrival(r), NEW q \in Requests
  PROVE  Reshaped(q)
<1>0. req \in [Requests -> RequestType]
  BY DEF TypeOK
<1>1. ASSUME NEW e, Arrives(r, e), e.at # "idle", e.by = None, e.event = None,
             e.at = "creating" => e.todo # <<>> /\ validateApplicant(Head(e.todo)),
             e.at = "opening" => e.app \in OnFile,
             e.at = "concluding" => e.session \in Sessions,
             e.at \in {"creating", "opening", "concluding", "next"}
      PROVE  Reshaped(q)
  <2>1. CASE q = r
    <3>1. req'[q] = e
      BY <1>0, <1>1, <2>1 DEF Arrives
    <3>2. e.at = "opening" => e.app \in OnFile'
      BY <1>1 DEF Grows
    <3>3. QED
      BY <1>1, <3>1, <3>2 DEF Reshaped, Shape, Answering, Delivering
  <2>2. CASE q # r
    BY <1>0, <1>1, <2>2 DEF Arrives, Reshaped
  <2>3. QED
    BY <2>1, <2>2
<1>2. ASSUME NEW d \in Dates, createApplication(r, d) PROVE Reshaped(q)
  <2>1. <<d>> # <<>> /\ Head(<<d>>) = d
    OBVIOUS
  <2>2. QED
    BY <1>1, <1>2, <2>1 DEF createApplication, Idle
<1>3. ASSUME NEW a \in Apps, StartVerification(r, a) PROVE Reshaped(q)
  BY <1>1, <1>3 DEF StartVerification, VerifyPage, OnFile, Idle
<1>4. ASSUME NEW s \in Sessions, OutcomePicker(r, s) \/ complete(r, s) PROVE Reshaped(q)
  BY <1>1, <1>4 DEF OutcomePicker, complete, completeVerification, Idle
<1>5. ASSUME NEW e \in Events, Arrives(r, Delivery(e)), e \in sound', sent'[e] # None
      PROVE  Reshaped(q)
  <2>1. CASE q = r
    <3>1. req'[q] = Delivery(e)
      BY <1>0, <1>5, <2>1 DEF Arrives
    <3>2. QED
      BY <1>5, <3>1 DEF Reshaped, Shape, Delivery, Idle, Answering, Delivering
  <2>2. CASE q # r
    BY <1>0, <1>5, <2>2 DEF Arrives, Reshaped
  <2>3. QED
    BY <2>1, <2>2
<1>6. ASSUME NEW e \in Events, NEW m \in Messages, Accepted(m), Hears(e, m)
      PROVE  e \in sound'
  <2>1. m \in [signature : {"valid", "wrong", "missing"}, dated : BOOLEAN, age : Int,
               body : {"event", "no event_id", "not JSON"}]
    BY IntakeAssumption
  <2>2. m = [Fresh EXCEPT !.age = m.age]
    <3>1. m.signature = "valid" /\ m.dated = TRUE /\ m.body = "event"
      BY <1>6, <2>1 DEF Accepted, verifyWebhookSignature
    <3>2. PICK c : c = [Fresh EXCEPT !.age = m.age]
      OBVIOUS
    <3>3. /\ c \in [signature : {"valid", "wrong", "missing"}, dated : BOOLEAN, age : Int,
                    body : {"event", "no event_id", "not JSON"}]
          /\ c.signature = "valid" /\ c.dated = TRUE /\ c.age = m.age /\ c.body = "event"
      BY <2>1, <3>2 DEF Fresh
    <3>4. /\ m = [signature |-> "valid", dated |-> TRUE, age |-> m.age, body |-> "event"]
          /\ c = [signature |-> "valid", dated |-> TRUE, age |-> m.age, body |-> "event"]
      BY <2>1, <3>1, <3>3
    <3>5. QED
      BY <3>2, <3>4
  <2>3. m.age \in (-MaxSkew)..MaxSkew
    <3>1. ~OutOfDate(m.age) /\ m.age \in Int
      BY <1>6, <2>1 DEF Accepted, verifyWebhookSignature
    <3>2. QED
      BY <3>1 DEF OutOfDate, MaxSkew
  <2>4. QED
    BY <1>6, <2>2, <2>3 DEF Hears, Sound
<1>7. ASSUME NEW e \in Events, NEW m \in Messages, VendorDelivers(r, e, m) PROVE Reshaped(q)
  <2>1. e \in sound' /\ sent'[e] # None
    BY <1>6, <1>7 DEF VendorDelivers, vendor
  <2>2. QED
    BY <1>5, <1>7, <2>1 DEF VendorDelivers
<1>8. ASSUME NEW e \in Events, NEW m \in Messages, Replay(r, e, m) PROVE Reshaped(q)
  <2>1. e \in sound' /\ sent'[e] # None
    BY <1>6, <1>8, Constants DEF Replay, TypeOK
  <2>2. QED
    BY <1>5, <1>8, <2>1 DEF Replay
<1>9. ASSUME NEW b \in Batches, Tick(r, b) PROVE Reshaped(q)
  BY <1>1, <1>9 DEF Tick, Idle
<1>10. QED
  BY <1>2, <1>3, <1>4, <1>7, <1>8, <1>9 DEF Arrival

\* The end of a request, and the one that waited for it: only a session that was
\* registered is an answer "ok" to a request that asked for one.
LEMMA ShapeEnds ==
  ASSUME TypeOK, Shapes, Linked, Grows, NEW r \in Requests, NEW answer \in {"ok", "failed"},
         Ends(r, answer), answer = "ok" => req[r].at # "registering", NEW q \in Requests
  PROVE  Reshaped(q)
<1>0. req[q] \in RequestType
  BY DEF TypeOK
<1>1. CASE q = r
  BY <1>1, IdleShape DEF Ends, Reshaped
<1>2. CASE q # r /\ q = req[r].by
  <2>1. req'[q] = [req[q] EXCEPT !.got = answer, !.session = req[r].session]
    BY <1>2 DEF Ends
  <2>2. /\ req[q].at = "called" /\ Shape(req[q])
        /\ answer = "ok" => req[q].event # None
    BY <1>2, Constants DEF Linked, Waits, Shapes
  <2>3. /\ req'[q].at = "called" /\ req'[q].by = req[q].by /\ req'[q].event = req[q].event
        /\ req'[q].app = req[q].app /\ req'[q].got = answer
    BY <1>0, <2>1, <2>2 DEF RequestType
  <2>4. req[q].event = None => req[q].app \in OnFile'
    BY <2>2 DEF Shape, Grows
  <2>5. QED
    BY <2>2, <2>3, <2>4 DEF Reshaped, Shape, Answering, Delivering
<1>3. CASE q # r /\ q # req[r].by
  BY <1>3 DEF Ends, Reshaped
<1>4. QED
  BY <1>1, <1>2, <1>3

LEMMA ShapeThrows ==
  ASSUME TypeOK, Shapes, Linked, Grows, NEW r \in Requests, Throws(r), NEW q \in Requests,
         req[r].at = "called" => req[r].event = None
  PROVE  Reshaped(q)
<1>1. CASE Ends(r, "failed")
  BY <1>1, ShapeEnds
<1>2. CASE /\ req[r].at \in {"opening", "called", "recording", "concluding", "notifying"}
           /\ req' = [req EXCEPT ![r].at = "next", ![r].got = None]
  <2>1. CASE q = r
    <3>1. /\ req'[q].at = "next" /\ req'[q].by = req[r].by /\ req'[q].event = req[r].event
      BY <1>2, <2>1 DEF TypeOK, RequestType
    <3>2. Shape(req[r])
      BY DEF Shapes
    <3>3. req[r].by = None /\ req[r].event = None
      BY <1>2, <3>2 DEF Shape, Answering
    <3>4. QED
      BY <3>1, <3>3 DEF Reshaped, Shape, Answering, Delivering
  <2>2. CASE q # r
    BY <1>2, <2>2 DEF TypeOK, Reshaped
  <2>3. QED
    BY <2>1, <2>2
<1>3. QED
  BY <1>1, <1>2 DEF Throws

LEMMA ShapeStep ==
  ASSUME TypeOK, TypeOK', Shapes, Linked, Lent, Grows, NEW r \in Requests, Step(r),
         NEW q \in Requests
  PROVE  Reshaped(q)
<1>0. /\ req \in [Requests -> RequestType] /\ req[r] \in RequestType /\ req[q] \in RequestType
      /\ Shape(req[r]) /\ Shape(req[q]) /\ req'[q] \in RequestType
  BY DEF TypeOK, Shapes
<1> USE DEF Answering, Delivering
<1>1. CASE Connect(r)
  BY <1>1 DEF Connect, Reshaped
<1>2. CASE ConnectTimesOut(r) \/ RollBack(r) \/ CallFails(r)
  <2>1. Throws(r)
    BY <1>2 DEF ConnectTimesOut, RollBack, CallFails
  <2>2. req[r].at # "called"
    <3>1. CASE ConnectTimesOut(r)
      BY <3>1 DEF ConnectTimesOut, Begun
    <3>2. CASE CallFails(r)
      BY <3>2 DEF CallFails
    <3>3. CASE RollBack(r)
      BY <3>3 DEF RollBack, Release, Lent, Begun
    <3>4. QED
      BY <1>2, <3>1, <3>2, <3>3
  <2>3. QED
    BY <2>1, <2>2, ShapeThrows
<1>3. ASSUME NEW a \in Apps, insertApplication(r, a) PROVE Reshaped(q)
  <2>1. CASE req[r].kind = "tick"
    <3>1. req' = [req EXCEPT ![r].at = "opening", ![r].app = a, ![r].todo = Tail(@)]
      BY <1>3, <2>1 DEF insertApplication
    <3>2. CASE q = r
      <4>1. /\ req'[q].at = "opening" /\ req'[q].app = a /\ req'[q].by = req[r].by
            /\ req'[q].event = req[r].event
        BY <1>0, <3>1, <3>2 DEF RequestType
      <4>2. req[r].by = None /\ req[r].event = None
        BY <1>0, <1>3 DEF insertApplication, Shape
      <4>3. a \in OnFile'
        BY <1>3 DEF insertApplication, OnFile, TypeOK
      <4>4. QED
        BY <4>1, <4>2, <4>3 DEF Reshaped, Shape
    <3>3. CASE q # r
      BY <1>0, <3>1, <3>3 DEF Reshaped
    <3>4. QED
      BY <3>2, <3>3
  <2>2. CASE req[r].kind # "tick"
    <3>1. Ends(r, "ok") /\ req[r].at # "registering"
      BY <1>3, <2>2 DEF insertApplication
    <3>2. QED
      BY <3>1, ShapeEnds
  <2>3. QED
    BY <2>1, <2>2
<1>4. ASSUME NEW p \in Requests, CallSimulator(r, p) PROVE Reshaped(q)
  <2> DEFINE new == [Idle EXCEPT !.kind = "session", !.at = "registering",
                                 !.app = req[r].app, !.by = r]
  <2>1. /\ req[r].by = None /\ req[r].event = None /\ req[r].app \in OnFile'
        /\ p # r
    BY <1>0, <1>4 DEF CallSimulator, Shape, Free, Grows
  <2>2. CASE q = p
    <3>1. req'[q] = new
      BY <1>0, <1>4, <2>1, <2>2 DEF CallSimulator
    <3>2. /\ new.at = "registering" /\ new.kind = "session" /\ new.app = req[r].app
      BY DEF Idle
    <3> HIDE DEF new
    <3>3. QED
      BY <2>1, <3>1, <3>2 DEF Reshaped, Shape
  <2>3. CASE q = r
    <3>1. /\ req'[q].at = "called" /\ req'[q].got = None /\ req'[q].by = None
          /\ req'[q].event = None /\ req'[q].app = req[r].app
      BY <1>0, <1>4, <2>1, <2>3 DEF CallSimulator, RequestType
    <3>2. QED
      BY <2>1, <3>1, Constants DEF Reshaped, Shape
  <2>4. CASE q # p /\ q # r
    BY <1>0, <1>4, <2>4 DEF CallSimulator, Reshaped
  <2>5. QED
    BY <2>2, <2>3, <2>4
<1>5. ASSUME NEW s \in Sessions, CallVendor(r, s) PROVE Reshaped(q)
  <2>1. CASE q = r
    <3>1. /\ req'[q].at = "recording" /\ req'[q].session = s /\ req'[q].by = req[r].by
          /\ req'[q].event = req[r].event /\ req'[q].app = req[r].app
      BY <1>0, <1>5, <2>1 DEF CallVendor, RequestType
    <3>2. req[r].by = None /\ req[r].event = None /\ req[r].app \in OnFile'
      BY <1>0, <1>5 DEF CallVendor, Shape, Grows
    <3>3. sessions'[s] = req[r].app
      BY <1>5 DEF CallVendor, TypeOK
    <3>4. QED
      BY <3>1, <3>2, <3>3 DEF Reshaped, Shape
  <2>2. CASE q # r
    BY <1>0, <1>5, <2>2 DEF CallVendor, Reshaped
  <2>3. QED
    BY <2>1, <2>2
<1>6. ASSUME NEW s \in Sessions, RegisterSession(r, s) PROVE Reshaped(q)
  <2>1. CASE q = r
    BY <1>6, <2>1, IdleShape DEF RegisterSession, Reshaped
  <2>2. CASE q # r /\ q = req[r].by
    <3>1. req'[q] = [req[q] EXCEPT !.got = "ok", !.session = s]
      BY <1>6, <2>2 DEF RegisterSession
    <3>2. req[q].at = "called" /\ req[q].event = None /\ req[q].app = req[r].app
      BY <1>6, <2>2, Constants DEF RegisterSession, Linked, Waits
    <3>3. /\ req'[q].at = "called" /\ req'[q].by = req[q].by /\ req'[q].event = None
          /\ req'[q].app = req[r].app /\ req'[q].session = s
      BY <1>0, <3>1, <3>2 DEF RequestType
    <3>4. req[q].by = None /\ req[r].app \in OnFile'
      BY <1>0, <1>6, <3>2 DEF RegisterSession, Shape, Grows
    <3>5. sessions'[s] = req[r].app
      BY <1>6 DEF RegisterSession, TypeOK
    <3>6. QED
      BY <3>3, <3>4, <3>5 DEF Reshaped, Shape
  <2>3. CASE q # r /\ q # req[r].by
    BY <1>6, <2>3 DEF RegisterSession, Reshaped
  <2>4. QED
    BY <2>1, <2>2, <2>3
<1>7. CASE SessionAnswered(r)
  <2>1. CASE Throws(r)
    BY <1>7, <2>1, ShapeThrows DEF SessionAnswered
  <2>2. CASE req[r].got = "ok" /\ req' = [req EXCEPT ![r].at = "recording", ![r].got = None]
    <3>1. CASE q = r
      <4>1. /\ req'[q].at = "recording" /\ req'[q].session = req[r].session
            /\ req'[q].by = req[r].by /\ req'[q].event = req[r].event /\ req'[q].app = req[r].app
        BY <1>0, <2>2, <3>1 DEF RequestType
      <4>2. /\ req[r].at = "called" /\ req[r].event = None /\ req[r].got = "ok"
        BY <1>7, <2>2 DEF SessionAnswered
      <4>3. /\ req[r].by = None /\ req[r].app \in OnFile /\ req[r].session \in Sessions
            /\ sessions[req[r].session] = req[r].app
        BY <1>0, <4>2 DEF Shape
      <4>4. /\ req[r].app \in OnFile' /\ sessions'[req[r].session] = req[r].app
        BY <4>3, Constants DEF Grows, OnFile
      <4>5. QED
        BY <4>1, <4>2, <4>3, <4>4 DEF Reshaped, Shape
    <3>2. CASE q # r
      BY <1>0, <2>2, <3>2 DEF Reshaped
    <3>3. QED
      BY <3>1, <3>2
  <2>3. QED
    BY <1>7, <2>1, <2>2 DEF SessionAnswered
<1>8. CASE RecordSession(r)
  <2>1. CASE Ends(r, "ok")
    BY <1>8, <2>1, ShapeEnds DEF RecordSession
  <2>2. CASE Proceeds(r, "concluding")
    <3>1. CASE q = r
      <4>1. /\ req'[q].at = "concluding" /\ req'[q].session = req[r].session
            /\ req'[q].by = req[r].by /\ req'[q].event = req[r].event
        BY <1>0, <2>2, <3>1 DEF Proceeds, RequestType
      <4>2. req[r].by = None /\ req[r].event = None /\ req[r].session \in Sessions
        BY <1>0, <1>8 DEF RecordSession, Shape
      <4>3. QED
        BY <4>1, <4>2 DEF Reshaped, Shape
    <3>2. CASE q # r
      BY <1>0, <2>2, <3>2 DEF Proceeds, Reshaped
    <3>3. QED
      BY <3>1, <3>2
  <2>3. QED
    BY <1>8, <2>1, <2>2 DEF RecordSession
<1>9. CASE Conclude(r)
  <2>1. CASE Ends(r, "ok")
    BY <1>9, <2>1, ShapeEnds DEF Conclude
  <2>2. CASE req' = [req EXCEPT ![r].at = "notifying", ![r].no = Len(results) + 1]
    <3>1. CASE q = r
      <4>1. /\ req'[q].at = "notifying" /\ req'[q].no = Len(results) + 1
            /\ req'[q].by = req[r].by /\ req'[q].event = req[r].event
        BY <1>0, <2>2, <3>1 DEF RequestType
      <4>2. req[r].by = None /\ req[r].event = None /\ req[r].session \in Sessions
        BY <1>0, <1>9 DEF Conclude, Shape
      <4>3. Len(results') = Len(results) + 1
        BY <1>9, <4>2, AppendProperties DEF Conclude, TypeOK
      <4>4. req'[q].no <= Len(results')
        BY <4>1, <4>3 DEF TypeOK
      <4>5. QED
        BY <4>1, <4>2, <4>4 DEF Reshaped, Shape
    <3>2. CASE q # r
      BY <1>0, <2>2, <3>2 DEF Reshaped
    <3>3. QED
      BY <3>1, <3>2
  <2>3. QED
    BY <1>9, <2>1, <2>2 DEF Conclude
<1>10. ASSUME NEW p \in Requests, NEW e \in Events, Notify(r, p, e) PROVE Reshaped(q)
  <2> DEFINE copy == [Fresh EXCEPT !.age = req[r].age]
             waits == [req[r] EXCEPT !.at = "called", !.event = e,
                                     !.got = IF Accepted(copy) THEN None ELSE "refused"]
  <2>1. /\ req[r].by = None /\ p # r /\ e # None
    BY <1>0, <1>10, Constants DEF Notify, Shape, Free
  <2>2. /\ waits.at = "called" /\ waits.event = e /\ waits.by = None
    BY <1>0, <2>1 DEF RequestType
  <2> HIDE DEF waits
  <2>3. CASE q = r
    <3>1. req'[q] = waits
      BY <1>0, <1>10, <2>1, <2>3 DEF Notify, waits
    <3>2. QED
      BY <2>1, <2>2, <3>1 DEF Reshaped, Shape
  <2>4. CASE q = p /\ Accepted(copy)
    <3>1. req'[q] = [Delivery(e) EXCEPT !.by = r]
      BY <1>0, <1>10, <2>1, <2>4 DEF Notify
    <3>2. /\ req'[q].at = "storing" /\ req'[q].kind = "webhook" /\ req'[q].event = e
      BY <3>1 DEF Delivery, Idle
    <3>3. e \in sound'
      <4>1. /\ req[r].age \in Int /\ copy = [Fresh EXCEPT !.age = copy.age]
            /\ copy.age = req[r].age
        BY <1>0 DEF RequestType, Fresh
      <4>2. copy.age \in (-MaxSkew)..MaxSkew
        <5>1. ~OutOfDate(copy.age)
          BY <2>4 DEF Accepted, verifyWebhookSignature
        <5>2. QED
          BY <4>1, <5>1 DEF OutOfDate, MaxSkew
      <4>3. Sound(copy)
        BY <4>1, <4>2 DEF Sound
      <4>4. QED
        BY <1>10, <4>3 DEF Notify, Hears
    <3>4. sent'[e] # None
      <4>1. req[r].no # None
        BY <1>0, Constants DEF RequestType
      <4>2. QED
        BY <1>10, <4>1 DEF Notify, Envelope, TypeOK
    <3>5. QED
      BY <3>2, <3>3, <3>4 DEF Reshaped, Shape
  <2>5. CASE q # r /\ (q # p \/ ~Accepted(copy))
    BY <1>0, <1>10, <2>5 DEF Notify, Reshaped
  <2>6. QED
    BY <2>3, <2>4, <2>5
<1>11. CASE WebhookAnswered(r)
  <2>1. CASE \E answer \in {"ok", "failed"} : Ends(r, answer)
    BY <1>11, <2>1, ShapeEnds DEF WebhookAnswered
  <2>2. CASE req' = [req EXCEPT ![r].at = "next", ![r].got = None, ![r].event = None]
    <3>1. CASE q = r
      <4>1. /\ req'[q].at = "next" /\ req'[q].event = None /\ req'[q].by = req[r].by
        BY <1>0, <2>2, <3>1 DEF RequestType
      <4>2. req[r].by = None
        BY <1>0, <1>11 DEF WebhookAnswered, Shape
      <4>3. QED
        BY <4>1, <4>2 DEF Reshaped, Shape
    <3>2. CASE q # r
      BY <1>0, <2>2, <3>2 DEF Reshaped
    <3>3. QED
      BY <3>1, <3>2
  <2>3. QED
    BY <1>11, <2>1, <2>2 DEF WebhookAnswered
<1>12. CASE InsertEvent(r) \/ CommitEvent(r)
  <2>1. PICK step \in {"enqueueing", "stored"} :
          /\ Proceeds(r, step) /\ req[r].at \in {"storing", "enqueueing"}
          /\ step = "stored" => req[r].event \in stored'
    BY <1>12 DEF InsertEvent, CommitEvent
  <2>2. CASE q = r
    <3>1. /\ req'[q].at = step /\ req'[q].event = req[r].event /\ req'[q].by = req[r].by
          /\ req'[q].kind = req[r].kind
      BY <1>0, <2>1, <2>2 DEF Proceeds, RequestType
    <3>2. req[r].event \in sound' /\ sent'[req[r].event] # None
      BY <1>0, <2>1 DEF Shape, Grows, TypeOK
    <3>3. req[r].by # None => req[r].kind \in {"session", "webhook"}
      BY <1>0 DEF Shape
    <3>4. QED
      BY <2>1, <3>1, <3>2, <3>3 DEF Reshaped, Shape
  <2>3. CASE q # r
    BY <1>0, <2>1, <2>3 DEF Proceeds, Reshaped
  <2>4. QED
    BY <2>2, <2>3
<1>13. CASE IgnoreDuplicate(r) \/ nudgeWorker(r) \/ LogTick(r)
  BY <1>13, ShapeEnds DEF IgnoreDuplicate, nudgeWorker, LogTick
<1>14. CASE AnswerEvent(r)
  <2>1. CASE q = r
    <3>1. req'[q].at = "nudging" /\ req'[q].by = None
      BY <1>14, <2>1 DEF AnswerEvent, Idle
    <3>2. QED
      BY <3>1 DEF Reshaped, Shape
  <2>2. CASE q # r /\ q = req[r].by
    <3>1. req'[q] = [req[q] EXCEPT !.got = "ok"]
      BY <1>14, <2>2 DEF AnswerEvent
    <3>2. req[q].at = "called" /\ req[q].event # None
      BY <1>14, <2>2, Constants DEF AnswerEvent, Linked, Waits
    <3>3. /\ req'[q].at = "called" /\ req'[q].by = req[q].by /\ req'[q].event = req[q].event
      BY <1>0, <3>1, <3>2 DEF RequestType
    <3>4. req[q].by = None
      BY <1>0, <3>2 DEF Shape
    <3>5. QED
      BY <3>2, <3>3, <3>4 DEF Reshaped, Shape
  <2>3. CASE q # r /\ q # req[r].by
    BY <1>14, <2>3 DEF AnswerEvent, Reshaped
  <2>4. QED
    BY <2>1, <2>2, <2>3
<1>15. CASE NextApplicant(r)
  <2>1. CASE q = r
    <3>1. /\ req'[q].event = req[r].event /\ req'[q].by = req[r].by
          /\ req'[q].at = IF req[r].todo = <<>> THEN "reviewing"
                          ELSE IF validateApplicant(Head(req[r].todo)) THEN "creating" ELSE "next"
          /\ req[r].todo = <<>> \/ validateApplicant(Head(req[r].todo)) =>
               req'[q].todo = req[r].todo
      BY <1>0, <1>15, <2>1 DEF NextApplicant, RequestType
    <3>2. req[r].event = None /\ req[r].by = None
      BY <1>0, <1>15 DEF NextApplicant, Shape
    <3>3. QED
      BY <3>1, <3>2 DEF Reshaped, Shape
  <2>2. CASE q # r
    BY <1>0, <1>15, <2>2 DEF NextApplicant, Reshaped
  <2>3. QED
    BY <2>1, <2>2
<1>16. CASE RunReviewer(r)
  <2>1. CASE q = r
    <3>1. req'[q].at = "logging" /\ req'[q].by = req[r].by
      BY <1>0, <1>16, <2>1 DEF RunReviewer, Proceeds, RequestType
    <3>2. req[r].by = None
      BY <1>0, <1>16 DEF RunReviewer, Shape
    <3>3. QED
      BY <3>1, <3>2 DEF Reshaped, Shape
  <2>2. CASE q # r
    BY <1>0, <1>16, <2>2 DEF RunReviewer, Proceeds, Reshaped
  <2>3. QED
    BY <2>1, <2>2
<1>17. QED
  BY <1>1, <1>2, <1>3, <1>4, <1>5, <1>6, <1>7, <1>8, <1>9, <1>10, <1>11, <1>12, <1>13,
     <1>14, <1>15, <1>16 DEF Step

LEMMA ShapesNext ==
  ASSUME TypeOK, Shapes, Linked, Lent, [Next]_vars
  PROVE  Shapes'
<1>1. TypeOK' /\ Grows
  BY TypeNext, GrowsNext
<1>2. ASSUME NEW q \in Requests PROVE Reshaped(q)
  <2>1. CASE \E r \in Requests : Arrival(r)
    BY <1>1, <2>1, ShapeArrival
  <2>2. CASE \E r \in Requests : Step(r)
    BY <1>1, <2>2, ShapeStep
  <2>3. CASE (\E s \in Sessions, e \in Events : VendorConcludes(s, e)) \/ (\E a \in Apps : MovesOn(a))
    BY <2>3 DEF VendorConcludes, MovesOn, Reshaped
  <2>4. CASE Restart
    BY <2>4, IdleShape DEF Restart, Reshaped
  <2>5. CASE UNCHANGED vars
    BY <2>5 DEF vars, Reshaped
  <2>6. QED
    BY <2>1, <2>2, <2>3, <2>4, <2>5 DEF Next
<1>3. QED
  BY <1>1, <1>2, ShapesGrow

-----------------------------------------------------------------------------
(* Who waits for whom.                                                     *)

\* A request that goes on, or arrives, and waits for nobody before or after.
LEMMA LinkMove ==
  ASSUME TypeOK, Shapes, Linked, Heard, NEW r \in Requests, NEW e,
         req' = [req EXCEPT ![r] = e], e.by = req[r].by, ~Waits(r),
         ~(e.at = "called" /\ e.got = None),
         e.by # None => /\ (e.at = "registering" <=> req[r].at = "registering")
                        /\ e.app = req[r].app
  PROVE  Linked' /\ Heard'
<1>1. \A q \in Requests : req'[q] = IF q = r THEN e ELSE req[q]
  BY DEF TypeOK
<1>2. \A q \in Requests : req'[q].by = req[q].by
  BY <1>1
<1>3. \A w \in Requests : Waits(w)' <=> Waits(w)
  BY <1>1 DEF Waits
<1>4. \A q \in Requests : req[q].by \in Requests \cup {None}
  BY DEF TypeOK, RequestType
<1>5. Heard'
  BY <1>2, <1>3 DEF Heard
<1>6. ASSUME NEW q \in Requests, req'[q].by # None
      PROVE  /\ Waits(req[q].by)'
             /\ req'[q].at = "registering" => /\ req'[req'[q].by].event = None
                                              /\ req'[req'[q].by].app = req'[q].app
             /\ req'[q].at # "registering" => req'[req'[q].by].event # None
             /\ \A p \in Requests : req'[p].by = req'[q].by => p = q
  <2>0. req[q].by # None /\ req'[q].by = req[q].by
    BY <1>2, <1>6
  <2>1. /\ req[q].by \in Requests /\ Waits(req[q].by)
        /\ req[q].at = "registering" => /\ req[req[q].by].event = None
                                        /\ req[req[q].by].app = req[q].app
        /\ req[q].at # "registering" => req[req[q].by].event # None
        /\ \A p \in Requests : req[p].by = req[q].by => p = q
    BY <2>0, <1>4 DEF Linked
  <2>2. Waits(req[q].by)' /\ req'[req[q].by] = req[req[q].by]
    <3>1. req[q].by # r
      BY <2>1
    <3>2. req'[req[q].by] = req[req[q].by]
      BY <1>1, <2>1, <3>1
    <3>3. QED
      BY <2>0, <2>1, <3>2 DEF Waits
  <2>4. (req'[q].at = "registering" <=> req[q].at = "registering") /\ req'[q].app = req[q].app
    BY <1>1, <1>6
  <2>5. \A p \in Requests : req'[p].by = req'[q].by => p = q
    BY <1>2, <2>0, <2>1
  <2>6. QED
    BY <2>0, <2>1, <2>2, <2>4, <2>5
<1>7. QED
  BY <1>5, <1>6 DEF Linked, Waits

\* A request that leaves, and answers the one that waits for it.
LEMMA LinkLeave ==
  ASSUME TypeOK, Shapes, Linked, Heard, NEW r \in Requests, ~Waits(r), ~Waits(r)',
         req'[r].by = None,
         \A q \in Requests :
           q # r /\ q = req[r].by =>
             /\ req'[q].by = req[q].by /\ req'[q].at = req[q].at /\ req'[q].app = req[q].app
             /\ ~Waits(q)',
         \A q \in Requests : q # r /\ q # req[r].by => req'[q] = req[q]
  PROVE  Linked' /\ Heard'
<1>1. \A q \in Requests :
        q # r => /\ req'[q].by = req[q].by /\ req'[q].at = req[q].at
                 /\ req'[q].app = req[q].app
  OBVIOUS
<1>2. \A q \in Requests : req[q].by \in Requests \cup {None}
  BY DEF TypeOK, RequestType
<1>3. ASSUME NEW q \in Requests, req'[q].by # None
      PROVE  /\ Waits(req[q].by)'
             /\ req'[q].at = "registering" => /\ req'[req'[q].by].event = None
                                              /\ req'[req'[q].by].app = req'[q].app
             /\ req'[q].at # "registering" => req'[req'[q].by].event # None
             /\ \A p \in Requests : req'[p].by = req'[q].by => p = q
  <2>1. q # r /\ req'[q].by = req[q].by /\ req[q].by # None
    BY <1>1, <1>3
  <2>2. /\ req[q].by \in Requests /\ Waits(req[q].by)
        /\ req[q].at = "registering" => /\ req[req[q].by].event = None
                                        /\ req[req[q].by].app = req[q].app
        /\ req[q].at # "registering" => req[req[q].by].event # None
        /\ \A p \in Requests : req[p].by = req[q].by => p = q
    BY <2>1, <1>2 DEF Linked
  <2>3. req[q].by # r /\ req[q].by # req[r].by
    BY <2>1, <2>2
  <2>4. req'[req[q].by] = req[req[q].by]
    BY <2>2, <2>3
  <2>5. Waits(req[q].by)'
    BY <2>1, <2>2, <2>4 DEF Waits
  <2>6. \A p \in Requests : req'[p].by = req'[q].by => p = q
    BY <1>1, <1>3, <2>1, <2>2
  <2>7. QED
    BY <1>1, <2>1, <2>2, <2>4, <2>5, <2>6
<1>4. ASSUME NEW w \in Requests, Waits(w)'
      PROVE  \E q \in Requests : req'[q].by = w
  <2>1. w # r /\ w # req[r].by
    BY <1>4
  <2>2. Waits(w)
    BY <1>4, <2>1 DEF Waits
  <2>3. PICK q \in Requests : req[q].by = w
    BY <2>2 DEF Heard
  <2>4. QED
    BY <1>1, <2>1, <2>3
<1>5. Linked'
  BY <1>3 DEF Linked
<1>6. Heard'
  BY <1>4 DEF Heard
<1>7. QED
  BY <1>5, <1>6

LEMMA LinkEnds ==
  ASSUME TypeOK, Shapes, Linked, Heard, NEW r \in Requests, ~Waits(r),
         NEW answer \in {"ok", "refused", "failed"}, Ends(r, answer)
  PROVE  Linked' /\ Heard'
<1>1. ~Waits(r)' /\ req'[r].by = None
  BY DEF Ends, Waits, Idle
<1>2. ASSUME NEW q \in Requests, q # r, q = req[r].by
      PROVE  /\ req'[q].by = req[q].by /\ req'[q].at = req[q].at /\ req'[q].app = req[q].app
             /\ ~Waits(q)'
  <2>1. req'[q] = [req[q] EXCEPT !.got = answer, !.session = req[r].session]
    BY <1>2 DEF Ends
  <2>2. req[q] \in RequestType
    BY DEF TypeOK
  <2>3. /\ req'[q].by = req[q].by /\ req'[q].at = req[q].at /\ req'[q].app = req[q].app
        /\ req'[q].got = answer
    BY <2>1, <2>2 DEF RequestType
  <2>4. QED
    BY <2>3, Constants DEF Waits
<1>3. \A q \in Requests : q # r /\ q # req[r].by => req'[q] = req[q]
  BY DEF Ends
<1>4. QED
  BY <1>1, <1>2, <1>3, LinkLeave

LEMMA LinkThrows ==
  ASSUME TypeOK, Shapes, Linked, Heard, NEW r \in Requests, ~Waits(r), Throws(r)
  PROVE  Linked' /\ Heard'
<1>1. CASE Ends(r, "failed")
  BY <1>1, LinkEnds
<1>2. CASE /\ req' = [req EXCEPT ![r].at = "next", ![r].got = None]
           /\ req[r].at \in {"opening", "called", "recording", "concluding", "notifying"}
  <2> DEFINE e == [req[r] EXCEPT !.at = "next", !.got = None]
  <2>1. req[r] \in RequestType
    BY DEF TypeOK
  <2>2. e.at = "next" /\ e.by = req[r].by
    BY <2>1 DEF RequestType
  <2>3. req[r].by = None
    BY <1>2 DEF Shapes, Shape, Answering
  <2>4. req' = [req EXCEPT ![r] = e]
    BY <1>2
  <2> HIDE DEF e
  <2>5. QED
    BY <2>2, <2>3, <2>4, LinkMove
<1>3. QED
  BY <1>1, <1>2 DEF Throws

\* A request that calls a route of the instance: another takes the call.
LEMMA LinkCall ==
  ASSUME TypeOK, Shapes, Linked, Heard, NEW r \in Requests, NEW q \in Free, q # r,
         ~Waits(r), req[r].by = None,
         Waits(r)', req'[r].by = None, ~Waits(q)', req'[q].by = r,
         req'[q].at = "registering" => req'[r].event = None /\ req'[r].app = req'[q].app,
         req'[q].at # "registering" => req'[r].event # None,
         \A p \in Requests : p # r /\ p # q => req'[p] = req[p]
  PROVE  Linked' /\ Heard'
<1>1. q \in Requests /\ req[q].at = "idle" /\ req[q].by = None /\ ~Waits(q)
  BY DEF Free, Shapes, Shape, Idle, Waits
<1>2. \A p \in Requests : req[p].by \in Requests \cup {None}
  BY DEF TypeOK, RequestType
<1>3. r # None
  BY Constants
<1>4. ASSUME NEW x \in Requests, req'[x].by # None
      PROVE  /\ Waits(req[x].by)'
             /\ req'[x].at = "registering" => /\ req'[req'[x].by].event = None
                                              /\ req'[req'[x].by].app = req'[x].app
             /\ req'[x].at # "registering" => req'[req'[x].by].event # None
             /\ \A p \in Requests : req'[p].by = req'[x].by => p = x
  <2>1. CASE x = q
    <3>1. ASSUME NEW p \in Requests, req'[p].by = r, p # q PROVE FALSE
      <4>1. p # r /\ req[p].by = r
        BY <1>3, <3>1
      <4>2. Waits(r)
        BY <1>3, <4>1 DEF Linked
      <4>3. QED
        BY <4>2
    <3>2. Waits(req[x].by)'
      BY <2>1 DEF Waits
    <3>3. QED
      BY <2>1, <3>1, <3>2
  <2>2. CASE x # q
    <3>1. x # r /\ req'[x] = req[x] /\ req[x].by # None
      BY <1>4, <2>2
    <3>2. /\ req[x].by \in Requests /\ Waits(req[x].by)
          /\ req[x].at = "registering" => /\ req[req[x].by].event = None
                                          /\ req[req[x].by].app = req[x].app
          /\ req[x].at # "registering" => req[req[x].by].event # None
          /\ \A p \in Requests : req[p].by = req[x].by => p = x
      BY <1>2, <3>1 DEF Linked
    <3>3. req[x].by # r /\ req[x].by # q
      BY <1>1, <3>2
    <3>4. req'[req[x].by] = req[req[x].by]
      BY <3>2, <3>3
    <3>5. Waits(req[x].by)'
      BY <3>1, <3>2, <3>4 DEF Waits
    <3>6. \A p \in Requests : req'[p].by = req'[x].by => p = x
      BY <1>4, <3>1, <3>2, <3>3
    <3>7. QED
      BY <3>1, <3>2, <3>4, <3>5, <3>6
  <2>3. QED
    BY <2>1, <2>2
<1>5. ASSUME NEW w \in Requests, Waits(w)'
      PROVE  \E x \in Requests : req'[x].by = w
  <2>1. CASE w = r
    BY <1>1, <2>1
  <2>2. CASE w # r
    <3>1. w # q /\ req'[w] = req[w]
      BY <1>5, <2>2
    <3>2. Waits(w)
      BY <1>5, <3>1 DEF Waits
    <3>3. PICK x \in Requests : req[x].by = w
      BY <3>2 DEF Heard
    <3>4. x # q /\ x # r
      BY <1>1, <3>3, Constants
    <3>5. QED
      BY <3>3, <3>4
  <2>3. QED
    BY <2>1, <2>2
<1>6. Linked'
  BY <1>4 DEF Linked
<1>7. Heard'
  BY <1>5 DEF Heard
<1>8. QED
  BY <1>6, <1>7

\* A request that arrives was sent by nobody here, and has its first step before it.
LEMMA ArrivalRequest ==
  ASSUME NEW r \in Requests, Arrival(r)
  PROVE  \E e : Arrives(r, e) /\ e.by = None /\ e.at \notin {"called", "enqueueing"}
<1>1. CASE \E d \in Dates : createApplication(r, d)
  <2>1. PICK d \in Dates : createApplication(r, d)
    BY <1>1
  <2> DEFINE new == [Idle EXCEPT !.kind = "apply", !.at = "creating", !.todo = <<d>>]
  <2>2. Arrives(r, new)
    BY <2>1 DEF createApplication
  <2>3. new.by = None /\ new.at \notin {"called", "enqueueing"}
    BY DEF Idle
  <2> HIDE DEF new
  <2>4. QED
    BY <2>2, <2>3
<1>2. CASE \E a \in Apps : StartVerification(r, a)
  <2>1. PICK a \in Apps : StartVerification(r, a)
    BY <1>2
  <2> DEFINE new == [Idle EXCEPT !.kind = "verify", !.at = "opening", !.app = a]
  <2>2. Arrives(r, new)
    BY <2>1 DEF StartVerification
  <2>3. new.by = None /\ new.at \notin {"called", "enqueueing"}
    BY DEF Idle
  <2> HIDE DEF new
  <2>4. QED
    BY <2>2, <2>3
<1>3. CASE \E s \in Sessions : OutcomePicker(r, s) \/ complete(r, s)
  <2>1. PICK s \in Sessions, age \in {0, MaxSkew + 1}, drop \in BOOLEAN :
          completeVerification(r, s, age, drop)
    BY <1>3 DEF OutcomePicker, complete
  <2> DEFINE new == [Idle EXCEPT !.kind = "complete", !.at = "concluding", !.session = s,
                                  !.age = age, !.drop = drop]
  <2>2. Arrives(r, new)
    BY <2>1 DEF completeVerification
  <2>3. new.by = None /\ new.at \notin {"called", "enqueueing"}
    BY DEF Idle
  <2> HIDE DEF new
  <2>4. QED
    BY <2>2, <2>3
<1>4. CASE \E e \in Events, m \in Messages : VendorDelivers(r, e, m) \/ Replay(r, e, m)
  <2>1. PICK e \in Events : Arrives(r, Delivery(e))
    BY <1>4 DEF VendorDelivers, Replay
  <2> DEFINE new == Delivery(e)
  <2>2. Arrives(r, new)
    BY <2>1
  <2>3. new.by = None /\ new.at \notin {"called", "enqueueing"}
    BY DEF Delivery, Idle
  <2> HIDE DEF new
  <2>4. QED
    BY <2>2, <2>3
<1>5. CASE \E b \in Batches : Tick(r, b)
  <2>1. PICK b \in Batches : Tick(r, b)
    BY <1>5
  <2> DEFINE new == [Idle EXCEPT !.kind = "tick", !.at = "next", !.todo = b]
  <2>2. Arrives(r, new)
    BY <2>1 DEF Tick
  <2>3. new.by = None /\ new.at \notin {"called", "enqueueing"}
    BY DEF Idle
  <2> HIDE DEF new
  <2>4. QED
    BY <2>2, <2>3
<1>6. QED
  BY <1>1, <1>2, <1>3, <1>4, <1>5 DEF Arrival

LEMMA LinkArrival ==
  ASSUME TypeOK, Shapes, Linked, Heard, NEW r \in Requests, Arrival(r)
  PROVE  Linked' /\ Heard'
<1>1. PICK e : Arrives(r, e) /\ e.by = None /\ e.at \notin {"called", "enqueueing"}
  BY ArrivalRequest
<1>2. req[r].by = None /\ ~Waits(r)
  BY <1>1 DEF Arrives, Free, Shapes, Shape, Idle, Waits
<1>3. QED
  BY <1>1, <1>2, LinkMove DEF Arrives

LEMMA LinkStep ==
  ASSUME TypeOK, Shapes, Linked, Heard, Lent, NEW r \in Requests, Step(r)
  PROVE  Linked' /\ Heard'
<1>0. req[r] \in RequestType /\ Shape(req[r])
  BY DEF TypeOK, Shapes
<1>1. CASE Connect(r)
  BY <1>1 DEF Connect, Linked, Heard, Waits
<1>2. CASE ConnectTimesOut(r) \/ CallFails(r)
  <2>1. ~Waits(r)
    BY <1>2 DEF ConnectTimesOut, CallFails, Begun, Waits
  <2>2. QED
    BY <1>2, <2>1, LinkThrows DEF ConnectTimesOut, CallFails
<1>3. CASE RollBack(r)
  <2>1. ~Waits(r) /\ Throws(r)
    BY <1>3 DEF RollBack, Release, Lent, Begun, Waits
  <2>2. QED
    BY <2>1, LinkThrows
<1>4. CASE \E a \in Apps : insertApplication(r, a)
  <2>1. PICK a \in Apps : insertApplication(r, a)
    BY <1>4
  <2>2. ~Waits(r) /\ req[r].by = None
    BY <1>0, <2>1 DEF insertApplication, Waits, Shape, Answering
  <2>3. CASE Ends(r, "ok")
    BY <2>2, <2>3, LinkEnds
  <2>4. CASE req' = [req EXCEPT ![r].at = "opening", ![r].app = a, ![r].todo = Tail(@)]
    <3> DEFINE e == [req[r] EXCEPT !.at = "opening", !.app = a, !.todo = Tail(@)]
    <3>1. e.at = "opening" /\ e.by = req[r].by
      BY <1>0 DEF RequestType
    <3>2. req' = [req EXCEPT ![r] = e]
      BY <2>4
    <3> HIDE DEF e
    <3>3. QED
      BY <2>2, <3>1, <3>2, LinkMove
  <2>5. QED
    BY <2>1, <2>3, <2>4 DEF insertApplication
<1>5. CASE \E q \in Requests : CallSimulator(r, q)
  <2>1. PICK q \in Requests : CallSimulator(r, q)
    BY <1>5
  <2>2. /\ ~Waits(r) /\ req[r].by = None /\ req[r].event = None
        /\ q \in Free /\ q # r
    BY <1>0, <2>1 DEF CallSimulator, Waits, Shape, Answering, Free
  <2>3. /\ req'[q] = [Idle EXCEPT !.kind = "session", !.at = "registering",
                                  !.app = req[r].app, !.by = r]
        /\ req'[r] = [req[r] EXCEPT !.at = "called", !.got = None]
        /\ \A p \in Requests : p # r /\ p # q => req'[p] = req[p]
    BY <2>1, <2>2 DEF CallSimulator, TypeOK
  <2>4. req'[q].by = r /\ req'[q].at = "registering" /\ req'[q].app = req[r].app
    BY <2>3 DEF Idle
  <2>5. /\ req'[r].at = "called" /\ req'[r].got = None /\ req'[r].by = None
        /\ req'[r].event = None /\ req'[r].app = req[r].app
    BY <1>0, <2>2, <2>3 DEF RequestType
  <2>6. Waits(r)' /\ ~Waits(q)'
    BY <2>4, <2>5 DEF Waits
  <2>7. QED
    BY <2>2, <2>3, <2>4, <2>5, <2>6, LinkCall
<1>6. CASE \E s \in Sessions : CallVendor(r, s)
  <2>1. PICK s \in Sessions : CallVendor(r, s)
    BY <1>6
  <2> DEFINE e == [req[r] EXCEPT !.at = "recording", !.session = s]
  <2>2. ~Waits(r) /\ req[r].by = None
    BY <1>0, <2>1 DEF CallVendor, Waits, Shape, Answering
  <2>3. e.at = "recording" /\ e.by = req[r].by
    BY <1>0 DEF RequestType
  <2>4. req' = [req EXCEPT ![r] = e]
    BY <2>1 DEF CallVendor
  <2> HIDE DEF e
  <2>5. QED
    BY <2>2, <2>3, <2>4, LinkMove
<1>7. CASE \E s \in Sessions : RegisterSession(r, s)
  <2>1. PICK s \in Sessions : RegisterSession(r, s)
    BY <1>7
  <2>2. ~Waits(r) /\ ~Waits(r)' /\ req'[r].by = None
    BY <2>1 DEF RegisterSession, Waits, Idle
  <2>3. ASSUME NEW q \in Requests, q # r, q = req[r].by
        PROVE  /\ req'[q].by = req[q].by /\ req'[q].at = req[q].at /\ req'[q].app = req[q].app
               /\ ~Waits(q)'
    <3>1. req'[q] = [req[q] EXCEPT !.got = "ok", !.session = s] /\ req[q] \in RequestType
      BY <2>1, <2>3 DEF RegisterSession, TypeOK
    <3>2. /\ req'[q].by = req[q].by /\ req'[q].at = req[q].at /\ req'[q].app = req[q].app
          /\ req'[q].got = "ok"
      BY <3>1 DEF RequestType
    <3>3. QED
      BY <3>2, Constants DEF Waits
  <2>4. \A q \in Requests : q # r /\ q # req[r].by => req'[q] = req[q]
    BY <2>1 DEF RegisterSession
  <2>5. QED
    BY <2>2, <2>3, <2>4, LinkLeave
<1>8. CASE SessionAnswered(r)
  <2>1. ~Waits(r) /\ req[r].by = None
    BY <1>0, <1>8 DEF SessionAnswered, Waits, Shape, Answering
  <2>2. CASE Throws(r)
    BY <2>1, <2>2, LinkThrows
  <2>3. CASE req' = [req EXCEPT ![r].at = "recording", ![r].got = None]
    <3> DEFINE e == [req[r] EXCEPT !.at = "recording", !.got = None]
    <3>1. e.at = "recording" /\ e.by = req[r].by
      BY <1>0 DEF RequestType
    <3>2. req' = [req EXCEPT ![r] = e]
      BY <2>3
    <3> HIDE DEF e
    <3>3. QED
      BY <2>1, <3>1, <3>2, LinkMove
  <2>4. QED
    BY <1>8, <2>2, <2>3 DEF SessionAnswered
<1>9. CASE RecordSession(r) \/ RunReviewer(r) \/ InsertEvent(r) \/ CommitEvent(r)
  <2>1. CASE Ends(r, "ok") /\ req[r].at = "recording"
    BY <2>1, LinkEnds DEF Waits
  <2>2. CASE \E step \in {"concluding", "logging", "enqueueing", "stored"} :
               /\ Proceeds(r, step)
               /\ req[r].at \in {"recording", "reviewing", "storing", "enqueueing"}
    <3>1. PICK step \in {"concluding", "logging", "enqueueing", "stored"} : Proceeds(r, step)
      BY <2>2
    <3> DEFINE e == [req[r] EXCEPT !.at = step]
    <3>2. e.at = step /\ e.by = req[r].by /\ e.app = req[r].app
      BY <1>0 DEF RequestType
    <3>3. req' = [req EXCEPT ![r] = e]
      BY <3>1 DEF Proceeds
    <3>4. ~Waits(r) /\ req[r].at # "registering"
      BY <2>2 DEF Waits
    <3> HIDE DEF e
    <3>5. QED
      BY <3>2, <3>3, <3>4, LinkMove
  <2>3. QED
    BY <1>9, <2>1, <2>2 DEF RecordSession, RunReviewer, InsertEvent, CommitEvent
<1>10. CASE Conclude(r)
  <2>1. ~Waits(r) /\ req[r].by = None
    BY <1>0, <1>10 DEF Conclude, Waits, Shape, Answering
  <2>2. CASE Ends(r, "ok")
    BY <2>1, <2>2, LinkEnds
  <2>3. CASE req' = [req EXCEPT ![r].at = "notifying", ![r].no = Len(results) + 1]
    <3> DEFINE e == [req[r] EXCEPT !.at = "notifying", !.no = Len(results) + 1]
    <3>1. e.at = "notifying" /\ e.by = req[r].by
      BY <1>0 DEF RequestType
    <3>2. req' = [req EXCEPT ![r] = e]
      BY <2>3
    <3> HIDE DEF e
    <3>3. QED
      BY <2>1, <3>1, <3>2, LinkMove
  <2>4. QED
    BY <1>10, <2>2, <2>3 DEF Conclude
<1>11. CASE \E q \in Requests, e \in Events : Notify(r, q, e)
  <2>1. PICK q \in Requests, e \in Events : Notify(r, q, e)
    BY <1>11
  <2> DEFINE copy == [Fresh EXCEPT !.age = req[r].age]
             waits == [req[r] EXCEPT !.at = "called", !.event = e,
                                     !.got = IF Accepted(copy) THEN None ELSE "refused"]
  <2>2. /\ ~Waits(r) /\ req[r].by = None
        /\ q \in Free /\ q # r
    BY <1>0, <2>1 DEF Notify, Waits, Shape, Answering, Free
  <2>3. /\ waits.at = "called" /\ waits.event = e /\ waits.by = None
        /\ waits.got = IF Accepted(copy) THEN None ELSE "refused"
    <3> HIDE DEF copy
    <3>1. QED
      BY <1>0, <2>2 DEF RequestType
  <2>4. IF Accepted(copy)
          THEN req' = [req EXCEPT ![r] = waits, ![q] = [Delivery(e) EXCEPT !.by = r]]
          ELSE req' = [req EXCEPT ![r] = waits]
    BY <2>1 DEF Notify
  <2> HIDE DEF copy, waits
  <2>5. CASE Accepted(copy)
    <3>1. /\ req'[q] = [Delivery(e) EXCEPT !.by = r] /\ req'[r] = waits
          /\ \A p \in Requests : p # r /\ p # q => req'[p] = req[p]
      BY <2>2, <2>4, <2>5 DEF TypeOK
    <3>2. req'[q].by = r /\ req'[q].at = "storing"
      BY <3>1 DEF Delivery, Idle
    <3>3. Waits(r)' /\ ~Waits(q)' /\ req'[r].by = None /\ req'[r].event # None
      BY <2>3, <2>5, <3>1, <3>2, Constants DEF Waits
    <3>4. QED
      BY <2>2, <3>1, <3>2, <3>3, LinkCall
  <2>6. CASE ~Accepted(copy)
    BY <2>2, <2>3, <2>4, <2>6, LinkMove, Constants
  <2>7. QED
    BY <2>5, <2>6
<1>12. CASE WebhookAnswered(r)
  <2>1. ~Waits(r) /\ req[r].by = None
    BY <1>0, <1>12 DEF WebhookAnswered, Waits, Shape, Answering
  <2>2. CASE \E answer \in {"ok", "failed"} : Ends(r, answer)
    BY <2>1, <2>2, LinkEnds
  <2>3. CASE req' = [req EXCEPT ![r].at = "next", ![r].got = None, ![r].event = None]
    <3> DEFINE e == [req[r] EXCEPT !.at = "next", !.got = None, !.event = None]
    <3>1. e.at = "next" /\ e.by = req[r].by
      BY <1>0 DEF RequestType
    <3>2. req' = [req EXCEPT ![r] = e]
      BY <2>3
    <3> HIDE DEF e
    <3>3. QED
      BY <2>1, <3>1, <3>2, LinkMove
  <2>4. QED
    BY <1>12, <2>2, <2>3 DEF WebhookAnswered
<1>13. CASE IgnoreDuplicate(r) \/ nudgeWorker(r) \/ LogTick(r)
  <2>1. ~Waits(r) /\ Ends(r, "ok")
    BY <1>13 DEF IgnoreDuplicate, nudgeWorker, LogTick, Waits
  <2>2. QED
    BY <2>1, LinkEnds
<1>14. CASE AnswerEvent(r)
  <2>2. ~Waits(r) /\ ~Waits(r)' /\ req'[r].by = None
    BY <1>14 DEF AnswerEvent, Waits, Idle
  <2>3. ASSUME NEW q \in Requests, q # r, q = req[r].by
        PROVE  /\ req'[q].by = req[q].by /\ req'[q].at = req[q].at /\ req'[q].app = req[q].app
               /\ ~Waits(q)'
    <3>1. req'[q] = [req[q] EXCEPT !.got = "ok"] /\ req[q] \in RequestType
      BY <1>14, <2>3 DEF AnswerEvent, TypeOK
    <3>2. /\ req'[q].by = req[q].by /\ req'[q].at = req[q].at /\ req'[q].app = req[q].app
          /\ req'[q].got = "ok"
      BY <3>1 DEF RequestType
    <3>3. QED
      BY <3>2, Constants DEF Waits
  <2>4. \A q \in Requests : q # r /\ q # req[r].by => req'[q] = req[q]
    BY <1>14 DEF AnswerEvent
  <2>5. QED
    BY <2>2, <2>3, <2>4, LinkLeave
<1>15. CASE NextApplicant(r)
  <2> DEFINE left == req[r].todo
             e == [req[r] EXCEPT !.session = None,
                    !.at = IF left = <<>> THEN "reviewing"
                           ELSE IF validateApplicant(Head(left)) THEN "creating" ELSE "next",
                    !.todo = IF left # <<>> /\ ~validateApplicant(Head(left))
                               THEN Tail(@) ELSE @]
  <2>1. ~Waits(r) /\ req[r].by = None
    BY <1>0, <1>15 DEF NextApplicant, Waits, Shape, Answering
  <2>2. e.at \in {"reviewing", "creating", "next"} /\ e.by = req[r].by
    BY <1>0 DEF RequestType
  <2>3. req' = [req EXCEPT ![r] = e]
    BY <1>15 DEF NextApplicant
  <2> HIDE DEF e
  <2>4. QED
    BY <2>1, <2>2, <2>3, LinkMove
<1>16. QED
  BY <1>1, <1>2, <1>3, <1>4, <1>5, <1>6, <1>7, <1>8, <1>9, <1>10, <1>11, <1>12, <1>13,
     <1>14, <1>15 DEF Step

LEMMA LinkedNext ==
  ASSUME TypeOK, Shapes, Linked, Heard, Lent, [Next]_vars
  PROVE  Linked' /\ Heard'
<1>1. CASE \E r \in Requests : Arrival(r)
  BY <1>1, LinkArrival
<1>2. CASE \E r \in Requests : Step(r)
  BY <1>2, LinkStep
<1>3. CASE \/ \E s \in Sessions, e \in Events : VendorConcludes(s, e)
           \/ \E a \in Apps : MovesOn(a)
           \/ UNCHANGED vars
  BY <1>3 DEF VendorConcludes, MovesOn, vars, Linked, Heard, Waits
<1>4. CASE Restart
  BY <1>4 DEF Restart, Linked, Heard, Waits, Idle
<1>5. QED
  BY <1>1, <1>2, <1>3, <1>4 DEF Next

-----------------------------------------------------------------------------
(* What one request's step leaves of the others, and the connections lent. *)

Apart(r) ==
  \A q \in Requests : q # r =>
    \/ req'[q].at = req[q].at /\ req'[q].event = req[q].event
    \/ req[q].at = "idle" /\ req'[q].at # "enqueueing"

LEMMA ApartEnds ==
  ASSUME TypeOK, NEW r \in Requests, NEW answer, Ends(r, answer)
  PROVE  Apart(r) /\ req'[r].at = "idle"
<1>1. req'[r].at = "idle"
  BY DEF Ends, Idle
<1>2. ASSUME NEW q \in Requests, q # r
      PROVE  req'[q].at = req[q].at /\ req'[q].event = req[q].event
  <2>1. \/ req'[q] = req[q]
        \/ req'[q] = [req[q] EXCEPT !.got = answer, !.session = req[r].session]
    BY <1>2 DEF Ends
  <2>2. req[q] \in RequestType
    BY DEF TypeOK
  <2>3. QED
    BY <2>1, <2>2 DEF RequestType
<1>3. QED
  BY <1>1, <1>2 DEF Apart

\* One request is rewritten.
LEMMA ApartMove ==
  ASSUME TypeOK, NEW r \in Requests, NEW e, req' = [req EXCEPT ![r] = e]
  PROVE  Apart(r) /\ req'[r] = e
BY DEF TypeOK, Apart

LEMMA ApartThrows ==
  ASSUME TypeOK, NEW r \in Requests, Throws(r)
  PROVE  Apart(r) /\ req'[r].at \in {"idle", "next"}
<1>1. CASE Ends(r, "failed")
  BY <1>1, ApartEnds
<1>2. CASE req' = [req EXCEPT ![r].at = "next", ![r].got = None]
  <2> DEFINE e == [req[r] EXCEPT !.at = "next", !.got = None]
  <2>1. e.at = "next"
    BY DEF TypeOK, RequestType
  <2>2. req' = [req EXCEPT ![r] = e]
    BY <1>2
  <2> HIDE DEF e
  <2>3. QED
    BY <2>1, <2>2, ApartMove
<1>3. QED
  BY <1>1, <1>2 DEF Throws

\* Where a request goes in a step of its own.
LEMMA StepApart ==
  ASSUME TypeOK, Shapes, Lent, NEW r \in Requests, Step(r)
  PROVE  /\ Apart(r)
         /\ req'[r].at = "enqueueing" => InsertEvent(r)
         /\ lent' \subseteq lent \cup {r}
         /\ r \in lent' => req'[r].at \in Begun \cup {"enqueueing"}
<1>0. req[r] \in RequestType /\ req \in [Requests -> RequestType]
  BY DEF TypeOK
<1>1. CASE Connect(r)
  BY <1>1 DEF Connect, Apart, Begun
<1>2. CASE ConnectTimesOut(r) \/ RollBack(r) \/ CallFails(r)
  <2>1. Throws(r) /\ r \notin lent' /\ lent' \subseteq lent
    BY <1>2 DEF ConnectTimesOut, RollBack, CallFails, Release, Lent, Begun
  <2>2. QED
    BY <2>1, ApartThrows
<1>3. CASE \E a \in Apps : insertApplication(r, a)
  <2>1. r \notin lent' /\ lent' \subseteq lent
    BY <1>3 DEF insertApplication, Release
  <2>2. PICK a \in Apps : insertApplication(r, a)
    BY <1>3
  <2>3. CASE req' = [req EXCEPT ![r].at = "opening", ![r].app = a, ![r].todo = Tail(@)]
    <3> DEFINE e == [req[r] EXCEPT !.at = "opening", !.app = a, !.todo = Tail(@)]
    <3>1. e.at = "opening"
      BY <1>0 DEF RequestType
    <3>2. req' = [req EXCEPT ![r] = e]
      BY <2>3
    <3> HIDE DEF e
    <3>3. QED
      BY <2>1, <3>1, <3>2, ApartMove
  <2>4. CASE Ends(r, "ok")
    BY <2>1, <2>4, ApartEnds
  <2>5. QED
    BY <2>2, <2>3, <2>4 DEF insertApplication
<1>4. CASE \E q \in Requests : CallSimulator(r, q)
  <2>1. PICK q \in Requests : CallSimulator(r, q)
    BY <1>4
  <2>2. r \notin lent' /\ lent' = lent /\ q # r /\ req[q].at = "idle"
    BY <2>1 DEF CallSimulator, Lent, Begun, Free
  <2>3. /\ req'[r] = [req[r] EXCEPT !.at = "called", !.got = None]
        /\ req'[q] = [Idle EXCEPT !.kind = "session", !.at = "registering",
                                  !.app = req[r].app, !.by = r]
        /\ \A p \in Requests : p # r /\ p # q => req'[p] = req[p]
    BY <1>0, <2>1, <2>2 DEF CallSimulator
  <2>4. req'[r].at = "called" /\ req'[q].at = "registering"
    <3>1. req'[r].at = "called"
      BY <1>0, <2>3 DEF RequestType
    <3>2. req'[q].at = "registering"
      BY <2>3 DEF Idle
    <3>3. QED
      BY <3>1, <3>2
  <2>5. QED
    BY <2>2, <2>3, <2>4 DEF Apart
<1>5. CASE \E s \in Sessions : CallVendor(r, s)
  <2>1. PICK s \in Sessions : CallVendor(r, s)
    BY <1>5
  <2> DEFINE e == [req[r] EXCEPT !.at = "recording", !.session = s]
  <2>2. r \notin lent' /\ lent' = lent
    BY <2>1 DEF CallVendor, Lent, Begun
  <2>3. e.at = "recording"
    BY <1>0 DEF RequestType
  <2>4. req' = [req EXCEPT ![r] = e]
    BY <2>1 DEF CallVendor
  <2> HIDE DEF e
  <2>5. QED
    BY <2>2, <2>3, <2>4, ApartMove
<1>6. CASE \E s \in Sessions : RegisterSession(r, s)
  <2>1. PICK s \in Sessions : RegisterSession(r, s)
    BY <1>6
  <2>2. r \notin lent' /\ lent' \subseteq lent /\ req'[r].at = "idle"
    BY <2>1 DEF RegisterSession, Release, Idle
  <2>3. ASSUME NEW q \in Requests, q # r
        PROVE  req'[q].at = req[q].at /\ req'[q].event = req[q].event
    <3>1. req'[q] = req[q] \/ req'[q] = [req[q] EXCEPT !.got = "ok", !.session = s]
      BY <2>1, <2>3 DEF RegisterSession
    <3>2. QED
      BY <1>0, <3>1 DEF RequestType
  <2>4. QED
    BY <2>2, <2>3 DEF Apart
<1>7. CASE SessionAnswered(r)
  <2>1. r \notin lent' /\ lent' = lent
    BY <1>7 DEF SessionAnswered, Lent, Begun
  <2>2. CASE Throws(r)
    BY <2>1, <2>2, ApartThrows
  <2>3. CASE req' = [req EXCEPT ![r].at = "recording", ![r].got = None]
    <3> DEFINE e == [req[r] EXCEPT !.at = "recording", !.got = None]
    <3>1. e.at = "recording"
      BY <1>0 DEF RequestType
    <3>2. req' = [req EXCEPT ![r] = e]
      BY <2>3
    <3> HIDE DEF e
    <3>3. QED
      BY <2>1, <3>1, <3>2, ApartMove
  <2>4. QED
    BY <1>7, <2>2, <2>3 DEF SessionAnswered
<1>8. CASE RecordSession(r) \/ RunReviewer(r) \/ CommitEvent(r)
  <2>1. r \notin lent' /\ lent' \subseteq lent
    BY <1>8 DEF RecordSession, RunReviewer, CommitEvent, Release
  <2>2. CASE Ends(r, "ok")
    BY <2>1, <2>2, ApartEnds
  <2>3. CASE \E step \in {"concluding", "logging", "stored"} : Proceeds(r, step)
    <3>1. PICK step \in {"concluding", "logging", "stored"} : Proceeds(r, step)
      BY <2>3
    <3> DEFINE e == [req[r] EXCEPT !.at = step]
    <3>2. e.at = step
      BY <1>0 DEF RequestType
    <3>3. req' = [req EXCEPT ![r] = e]
      BY <3>1 DEF Proceeds
    <3> HIDE DEF e
    <3>4. QED
      BY <2>1, <3>2, <3>3, ApartMove
  <2>4. QED
    BY <1>8, <2>2, <2>3 DEF RecordSession, RunReviewer, CommitEvent
<1>9. CASE Conclude(r)
  <2>1. r \notin lent' /\ lent' \subseteq lent
    BY <1>9 DEF Conclude, Release
  <2>2. CASE Ends(r, "ok")
    BY <2>1, <2>2, ApartEnds
  <2>3. CASE req' = [req EXCEPT ![r].at = "notifying", ![r].no = Len(results) + 1]
    <3> DEFINE e == [req[r] EXCEPT !.at = "notifying", !.no = Len(results) + 1]
    <3>1. e.at = "notifying"
      BY <1>0 DEF RequestType
    <3>2. req' = [req EXCEPT ![r] = e]
      BY <2>3
    <3> HIDE DEF e
    <3>3. QED
      BY <2>1, <3>1, <3>2, ApartMove
  <2>4. QED
    BY <1>9, <2>2, <2>3 DEF Conclude
<1>10. CASE \E q \in Requests, e \in Events : Notify(r, q, e)
  <2>1. PICK q \in Requests, e \in Events : Notify(r, q, e)
    BY <1>10
  <2> DEFINE copy == [Fresh EXCEPT !.age = req[r].age]
             waits == [req[r] EXCEPT !.at = "called", !.event = e,
                                     !.got = IF Accepted(copy) THEN None ELSE "refused"]
  <2>2. r \notin lent' /\ lent' = lent /\ q # r /\ req[q].at = "idle"
    BY <2>1 DEF Notify, Lent, Begun, Free
  <2>3. \/ req' = [req EXCEPT ![r] = waits, ![q] = [Delivery(e) EXCEPT !.by = r]]
        \/ req' = [req EXCEPT ![r] = waits]
    BY <2>1 DEF Notify
  <2>4. waits.at = "called"
    BY <1>0 DEF RequestType
  <2> HIDE DEF waits
  <2>5. [Delivery(e) EXCEPT !.by = r].at = "storing"
    BY DEF Delivery, Idle
  <2>6. /\ req'[r] = waits
        /\ req'[q] = [Delivery(e) EXCEPT !.by = r] \/ req'[q] = req[q]
        /\ \A p \in Requests : p # r /\ p # q => req'[p] = req[p]
    BY <1>0, <2>2, <2>3
  <2>7. QED
    BY <2>2, <2>4, <2>5, <2>6 DEF Apart
<1>11. CASE WebhookAnswered(r)
  <2>1. r \notin lent' /\ lent' = lent
    BY <1>11 DEF WebhookAnswered, Lent, Begun
  <2>2. CASE \E answer \in {"ok", "failed"} : Ends(r, answer)
    BY <2>1, <2>2, ApartEnds
  <2>3. CASE req' = [req EXCEPT ![r].at = "next", ![r].got = None, ![r].event = None]
    <3> DEFINE e == [req[r] EXCEPT !.at = "next", !.got = None, !.event = None]
    <3>1. e.at = "next"
      BY <1>0 DEF RequestType
    <3>2. req' = [req EXCEPT ![r] = e]
      BY <2>3
    <3> HIDE DEF e
    <3>3. QED
      BY <2>1, <3>1, <3>2, ApartMove
  <2>4. QED
    BY <1>11, <2>2, <2>3 DEF WebhookAnswered
<1>12. CASE InsertEvent(r)
  <2> DEFINE e == [req[r] EXCEPT !.at = "enqueueing"]
  <2>1. e.at = "enqueueing"
    BY <1>0 DEF RequestType
  <2>2. req' = [req EXCEPT ![r] = e] /\ lent' = lent
    BY <1>12 DEF InsertEvent, Proceeds
  <2> HIDE DEF e
  <2>3. QED
    BY <1>12, <2>1, <2>2, ApartMove
<1>13. CASE IgnoreDuplicate(r) \/ nudgeWorker(r) \/ LogTick(r)
  <2>1. Ends(r, "ok") /\ r \notin lent' /\ lent' \subseteq lent
    BY <1>13 DEF IgnoreDuplicate, nudgeWorker, LogTick, Release, Lent, Begun
  <2>2. QED
    BY <2>1, ApartEnds
<1>14. CASE AnswerEvent(r)
  <2>1. r \notin lent' /\ lent' = lent /\ req'[r].at = "nudging"
    BY <1>14 DEF AnswerEvent, Lent, Begun, Idle
  <2>2. ASSUME NEW q \in Requests, q # r
        PROVE  req'[q].at = req[q].at /\ req'[q].event = req[q].event
    <3>1. req'[q] = req[q] \/ req'[q] = [req[q] EXCEPT !.got = "ok"]
      BY <1>14, <2>2 DEF AnswerEvent
    <3>2. QED
      BY <1>0, <3>1 DEF RequestType
  <2>3. QED
    BY <2>1, <2>2 DEF Apart
<1>15. CASE NextApplicant(r)
  <2> DEFINE left == req[r].todo
             e == [req[r] EXCEPT !.session = None,
                    !.at = IF left = <<>> THEN "reviewing"
                           ELSE IF validateApplicant(Head(left)) THEN "creating" ELSE "next",
                    !.todo = IF left # <<>> /\ ~validateApplicant(Head(left))
                               THEN Tail(@) ELSE @]
  <2>1. e.at \in {"reviewing", "creating", "next"}
    BY <1>0 DEF RequestType
  <2>2. req' = [req EXCEPT ![r] = e] /\ r \notin lent' /\ lent' = lent
    BY <1>15 DEF NextApplicant, Lent, Begun
  <2> HIDE DEF e
  <2>3. QED
    BY <2>1, <2>2, ApartMove
<1>16. QED
  BY <1>1, <1>2, <1>3, <1>4, <1>5, <1>6, <1>7, <1>8, <1>9, <1>10, <1>11, <1>12, <1>13,
     <1>14, <1>15 DEF Step

\* A request that arrives takes the place of one that is over.
LEMMA ArrivalApart ==
  ASSUME TypeOK, Shapes, NEW r \in Requests, Arrival(r)
  PROVE  /\ Apart(r) /\ req[r].at = "idle" /\ req'[r].at # "enqueueing"
         /\ UNCHANGED <<mode, size, tables, lent, acked>>
<1>0. ASSUME NEW e, Arrives(r, e), e.at # "enqueueing"
      PROVE  Apart(r) /\ req[r].at = "idle" /\ req'[r].at # "enqueueing"
  BY <1>0, ApartMove DEF Arrives, Free
<1>1. UNCHANGED <<mode, size, tables, lent, acked>>
  BY DEF Arrival, createApplication, StartVerification, OutcomePicker, complete,
     completeVerification, VendorDelivers, Replay, Tick
<1>2. PICK e : Arrives(r, e) /\ e.at # "enqueueing"
  BY ArrivalRequest
<1>3. QED
  BY <1>0, <1>1, <1>2

LEMMA LentNext ==
  ASSUME TypeOK, Shapes, Lent, [Next]_vars
  PROVE  Lent'
<1>1. CASE \E r \in Requests : Arrival(r) \/ Step(r)
  <2>1. PICK r \in Requests : Arrival(r) \/ Step(r)
    BY <1>1
  <2>2. /\ Apart(r) /\ lent' \subseteq lent \cup {r} /\ lent \subseteq Requests
        /\ r \in lent' => req'[r].at \in Begun \cup {"enqueueing"}
    BY <2>1, StepApart, ArrivalApart DEF Lent, Begun, TypeOK
  <2>3. \A q \in lent : req[q].at # "idle"
    BY DEF Lent, Begun
  <2>4. QED
    BY <2>2, <2>3 DEF Lent, Apart
<1>2. CASE \/ \E s \in Sessions, e \in Events : VendorConcludes(s, e)
           \/ \E a \in Apps : MovesOn(a)
           \/ UNCHANGED vars
  BY <1>2 DEF VendorConcludes, MovesOn, vars, Lent
<1>3. CASE Restart
  BY <1>3 DEF Restart, Lent
<1>4. QED
  BY <1>1, <1>2, <1>3 DEF Next

-----------------------------------------------------------------------------
(* What the tables say of messages.                                        *)

\* What a step of a request does to the table of messages, and who hears 200.
LEMMA StepStores ==
  ASSUME TypeOK, Shapes, NEW r \in Requests, Step(r)
  PROVE  /\ ~CommitEvent(r) => UNCHANGED <<stored, jobs>>
         /\ \/ acked' = acked
            \/ acked' = acked \cup {req[r].event} /\ req[r].event \in stored
<1>1. CASE CommitEvent(r)
  BY <1>1 DEF CommitEvent
<1>2. CASE IgnoreDuplicate(r) \/ AnswerEvent(r)
  <2>1. req[r].event \in stored
    BY <1>2 DEF IgnoreDuplicate, Conflicts, AnswerEvent, Shapes, Shape
  <2>2. QED
    BY <1>2, <2>1 DEF IgnoreDuplicate, AnswerEvent, tables
<1>3. CASE \/ Connect(r) \/ ConnectTimesOut(r) \/ RollBack(r) \/ CallFails(r)
           \/ SessionAnswered(r) \/ WebhookAnswered(r) \/ InsertEvent(r) \/ nudgeWorker(r)
           \/ NextApplicant(r) \/ RunReviewer(r) \/ LogTick(r)
           \/ RecordSession(r) \/ Conclude(r)
  BY <1>3 DEF Connect, ConnectTimesOut, RollBack, CallFails, SessionAnswered, WebhookAnswered,
     InsertEvent, nudgeWorker, NextApplicant, RunReviewer, LogTick, RecordSession, Conclude, tables
<1>4. CASE \/ \E a \in Apps : insertApplication(r, a)
           \/ \E q \in Requests : CallSimulator(r, q)
           \/ \E s \in Sessions : CallVendor(r, s) \/ RegisterSession(r, s)
           \/ \E q \in Requests, e \in Events : Notify(r, q, e)
  BY <1>4 DEF insertApplication, CallSimulator, CallVendor, RegisterSession, Notify, tables
<1>5. QED
  BY <1>1, <1>2, <1>3, <1>4 DEF Step

\* A step that leaves the messages stored alone, and starts no other transaction.
LEMMA OnceKept ==
  ASSUME TakenOnce, OnlySoundIsStored, OnceOnly, Grows,
         UNCHANGED <<stored, jobs, acked>>,
         \A q \in Requests : req'[q].at = "enqueueing" =>
                                req[q].at = "enqueueing" /\ req'[q].event = req[q].event
  PROVE  TakenOnce' /\ OnlySoundIsStored' /\ OnceOnly'
BY DEF TakenOnce, OnlySoundIsStored, OnceOnly, Grows

LEMMA OnceNext ==
  ASSUME TypeOK, Shapes, Lent, TakenOnce, OnlySoundIsStored, OnceOnly, Grows, [Next]_vars
  PROVE  TakenOnce' /\ OnlySoundIsStored' /\ OnceOnly'
<1>1. ASSUME NEW r \in Requests, Arrival(r)
      PROVE  TakenOnce' /\ OnlySoundIsStored' /\ OnceOnly'
  BY <1>1, ArrivalApart, OnceKept DEF Apart, tables
<1>2. ASSUME NEW r \in Requests, Step(r)
      PROVE  TakenOnce' /\ OnlySoundIsStored' /\ OnceOnly'
  <2>1. /\ Apart(r)
        /\ req'[r].at = "enqueueing" => InsertEvent(r)
        /\ ~CommitEvent(r) => UNCHANGED <<stored, jobs>>
        /\ \/ acked' = acked
           \/ acked' = acked \cup {req[r].event} /\ req[r].event \in stored
    BY <1>2, StepApart, StepStores
  <2>2. CASE CommitEvent(r)
    <3> DEFINE e == req[r].event
    <3>1. /\ e \in sound /\ e \in Events /\ e \notin stored
          /\ \A q \in Requests : req[q].at = "enqueueing" /\ req[q].event = e => q = r
      BY <2>2 DEF CommitEvent, Shapes, Shape, Delivering, TypeOK, OnceOnly
    <3>2. stored' = stored \cup {e} /\ jobs' = [jobs EXCEPT ![e] = @ + 1]
          /\ acked' = acked /\ sound' = sound
      BY <2>2 DEF CommitEvent
    <3>3. req'[r].at # "enqueueing"
      BY <2>1, <2>2 DEF CommitEvent, InsertEvent
    <3> HIDE DEF e
    <3>4. TakenOnce'
      BY <3>1, <3>2 DEF TakenOnce, TypeOK
    <3>5. OnlySoundIsStored'
      BY <3>1, <3>2 DEF OnlySoundIsStored
    <3>6. OnceOnly'
      BY <2>1, <3>1, <3>2, <3>3 DEF OnceOnly, Apart
    <3>7. QED
      BY <3>4, <3>5, <3>6
  <2>3. CASE ~CommitEvent(r)
    <3>1. TakenOnce'
      <4>1. UNCHANGED <<stored, jobs>> /\ acked' \subseteq stored
        BY <2>1, <2>3 DEF TakenOnce
      <4>2. QED
        BY <4>1 DEF TakenOnce
    <3>2. OnlySoundIsStored'
      BY <2>1, <2>3 DEF OnlySoundIsStored, Grows
    <3>3. CASE ~InsertEvent(r)
      <4>1. ASSUME NEW q \in Requests, req'[q].at = "enqueueing"
            PROVE  req[q].at = "enqueueing" /\ req'[q].event = req[q].event
        BY <2>1, <3>3, <4>1 DEF Apart
      <4>2. OnceOnly'
        BY <2>1, <2>3, <4>1 DEF OnceOnly
      <4>3. QED
        BY <3>1, <3>2, <4>2
    <3>4. CASE InsertEvent(r)
      <4>1. /\ req[r].event \notin stored
            /\ \A q \in Requests : ~(req[q].at = "enqueueing" /\ req[q].event = req[r].event)
        BY <3>4 DEF InsertEvent, Conflicts, Claimed
      <4>2. \A q \in Requests : q # r => req'[q] = req[q]
        BY <3>4 DEF InsertEvent, Proceeds, TypeOK
      <4>3. req'[r].event = req[r].event
        BY <3>4 DEF InsertEvent, Proceeds, TypeOK, RequestType
      <4>4. OnceOnly'
        BY <2>1, <2>3, <4>1, <4>2, <4>3 DEF OnceOnly
      <4>5. QED
        BY <3>1, <3>2, <4>4
    <3>5. QED
      BY <3>1, <3>2, <3>3, <3>4
  <2>4. QED
    BY <2>2, <2>3
<1>3. CASE \/ \E s \in Sessions, e \in Events : VendorConcludes(s, e)
           \/ \E a \in Apps : MovesOn(a)
           \/ UNCHANGED vars
  BY <1>3, OnceKept DEF VendorConcludes, MovesOn, vars, tables
<1>4. CASE Restart
  BY <1>4, OnceKept DEF Restart, Idle, tables
<1>5. QED
  BY <1>1, <1>2, <1>3, <1>4 DEF Next

LEMMA WrittenNext ==
  ASSUME TypeOK, TypeOK', Shapes, Written, Grows, [Next]_vars
  PROVE  Written'
<1>0. /\ Len(results) \in Nat /\ Len(results') \in Nat /\ Len(results) <= Len(results')
      /\ \A e \in Events : sent[e] # None => sent[e] \in Nat
  BY DEF TypeOK, Grows
<1>1. \A e \in Events : sent[e] # None => sent[e] <= Len(results')
  BY <1>0 DEF Written
<1>2. ASSUME NEW e \in Events, NEW no \in Nat, sent' = [sent EXCEPT ![e] = no],
             no <= Len(results')
      PROVE  \A d \in Events : sent'[d] # None => sent'[d] <= Len(results')
  BY <1>1, <1>2 DEF TypeOK
<1>3. \A d \in Events : sent'[d] # None => sent'[d] <= Len(results')
  <2>1. CASE sent' = sent
    BY <1>1, <2>1
  <2>2. ASSUME NEW r \in Requests, NEW e \in Events, NEW m, Replay(r, e, m)
        PROVE  \A d \in Events : sent'[d] # None => sent'[d] <= Len(results')
    <3>1. sent' = [sent EXCEPT ![e] = 0]
      BY <2>2 DEF Replay
    <3>2. 0 \in Nat /\ 0 <= Len(results')
      BY <1>0
    <3>3. QED
      BY <1>2, <3>1, <3>2
  <2>3. ASSUME NEW r \in Requests, NEW q, NEW e \in Events, Notify(r, q, e)
        PROVE  \A d \in Events : sent'[d] # None => sent'[d] <= Len(results')
    <3>1. req[r].no \in Nat /\ req[r].no <= Len(results)
      BY <2>3 DEF Notify, Shapes, Shape, TypeOK, RequestType
    <3>2. req[r].no <= Len(results')
      BY <1>0, <3>1
    <3>3. QED
      BY <1>2, <2>3, <3>1, <3>2 DEF Notify, Envelope
  <2>4. ASSUME NEW s \in Sessions, NEW e \in Events, VendorConcludes(s, e)
        PROVE  \A d \in Events : sent'[d] # None => sent'[d] <= Len(results')
    <3>1. Len(results') = Len(results) + 1
      BY <2>4, AppendProperties DEF VendorConcludes, TypeOK
    <3>2. sent' = [sent EXCEPT ![e] = Len(results) + 1]
      BY <2>4 DEF VendorConcludes, Envelope
    <3>3. Len(results) + 1 \in Nat /\ Len(results) + 1 <= Len(results')
      BY <1>0, <3>1
    <3>4. QED
      BY <1>2, <3>2, <3>3
  <2>5. CASE \E r \in Requests : Arrival(r)
    <3>1. PICK r \in Requests : Arrival(r)
      BY <2>5
    <3>2. sent' = sent \/ \E e \in Events, m \in Messages : Replay(r, e, m)
      BY <3>1 DEF Arrival, createApplication, StartVerification, OutcomePicker, complete,
         completeVerification, VendorDelivers, Tick, vendor
    <3>3. QED
      BY <2>1, <2>2, <3>2
  <2>6. CASE \E r \in Requests : Step(r)
    <3>1. PICK r \in Requests : Step(r)
      BY <2>6
    <3>2. sent' = sent \/ \E q \in Requests, e \in Events : Notify(r, q, e)
      BY <3>1 DEF Step, Connect, ConnectTimesOut, RollBack, insertApplication, CallSimulator,
         CallVendor, CallFails, RegisterSession, SessionAnswered, RecordSession, Conclude,
         WebhookAnswered, InsertEvent, IgnoreDuplicate, CommitEvent, AnswerEvent, nudgeWorker,
         NextApplicant, RunReviewer, LogTick, vendor
    <3>3. QED
      BY <2>1, <2>3, <3>2
  <2>7. CASE Restart \/ (\E a \in Apps : MovesOn(a)) \/ UNCHANGED vars
    BY <2>1, <2>7 DEF Restart, MovesOn, vars, vendor
  <2>8. QED
    BY <2>4, <2>5, <2>6, <2>7 DEF Next
<1>4. \A e \in stored' : sent'[e] # None
  <2>1. \A e \in stored : e \in Events /\ sent[e] # None
    BY DEF Written, TypeOK
  <2>2. CASE stored' = stored
    BY <2>1, <2>2 DEF Grows
  <2>3. ASSUME NEW r \in Requests, CommitEvent(r) PROVE \A e \in stored' : sent'[e] # None
    <3>1. req[r].event \in Events /\ sent[req[r].event] # None
      BY <2>3 DEF CommitEvent, Shapes, Shape, Delivering, TypeOK
    <3>2. stored' = stored \cup {req[r].event}
      BY <2>3 DEF CommitEvent
    <3>3. QED
      BY <2>1, <3>1, <3>2 DEF Grows
  <2>4. CASE \E r \in Requests : Step(r)
    BY <2>2, <2>3, <2>4, StepStores
  <2>5. CASE \E r \in Requests : Arrival(r)
    BY <2>2, <2>5, ArrivalApart DEF tables
  <2>6. CASE \/ \E s \in Sessions, e \in Events : VendorConcludes(s, e)
             \/ \E a \in Apps : MovesOn(a)
             \/ Restart \/ UNCHANGED vars
    BY <2>2, <2>6 DEF VendorConcludes, MovesOn, Restart, vars, tables
  <2>7. QED
    BY <2>4, <2>5, <2>6 DEF Next
<1>5. QED
  BY <1>3, <1>4 DEF Written

-----------------------------------------------------------------------------
(* What the tables say of applications.                                    *)

AppType == [status : AppStatuses, born : Dates \cup {None},
            session : Sessions \cup {None}, seeded : BOOLEAN]

LEMMA RowKept ==
  ASSUME TypeOK, Grows, NEW a \in Apps, Row(a), apps'[a] = apps[a], trail'[a] = trail[a]
  PROVE  Row(a)'
<1>1. apps[a].session # None => sessions'[apps[a].session] = sessions[apps[a].session]
                                \/ sessions[apps[a].session] = None
  BY DEF Grows, TypeOK
<1>2. a # None
  BY Constants
<1>3. QED
  BY <1>1, <1>2 DEF Row

LEMMA RowCreated ==
  ASSUME TypeOK, TypeOK', Shapes, Registered, NEW r \in Requests, NEW a \in Apps,
         insertApplication(r, a)
  PROVE  Row(a)'
<1> DEFINE born == Head(req[r].todo)
           seeded == req[r].kind = "tick"
           entry == Entry("created", seeded, None, FALSE)
<1>1. trail[a] = <<>>
  BY DEF Registered, Row, insertApplication
<1>2. trail'[a] = <<entry>>
  <2>1. trail' = [trail EXCEPT ![a] = Append(@, entry)]
    BY DEF insertApplication
  <2>2. trail'[a] = Append(<<>>, entry)
    BY <1>1, <2>1 DEF TypeOK
  <2> HIDE DEF entry
  <2>3. QED
    BY <2>2
<1>3. apps'[a] = [status |-> "started", born |-> born, session |-> None, seeded |-> seeded]
  BY DEF insertApplication, TypeOK
<1>4. IsReal(born) /\ validateApplicant(born) /\ born \in Dates
  <2>1. validateApplicant(born) /\ IsReal(born) /\ req[r].todo # <<>>
    BY DEF insertApplication, Shapes, Shape
  <2>2. req[r].todo \in Seq(Dates)
    BY DEF TypeOK, RequestType
  <2>3. QED
    BY <2>1, <2>2, HeadTailProperties
<1>5. /\ entry.action = "created" /\ entry.seeded = seeded /\ entry.moved = FALSE
      /\ entry.session = None
  BY DEF Entry
<1>6. /\ Len(trail'[a]) = 1 /\ DOMAIN trail'[a] = {1} /\ trail'[a][1] = entry
      /\ trail'[a] # <<>>
  <2> HIDE DEF entry
  <2>1. QED
    BY <1>2
<1>7. /\ apps'[a].status = "started" /\ apps'[a].born = born /\ apps'[a].session = None
      /\ apps'[a].seeded = seeded
  BY <1>3
<1> HIDE DEF entry, born, seeded
<1>8. QED
  BY <1>4, <1>5, <1>6, <1>7 DEF Row

LEMMA RowRecorded ==
  ASSUME TypeOK, TypeOK', Shapes, Registered, NEW r \in Requests, RecordSession(r),
         NEW a \in Apps, a = req[r].app
  PROVE  Row(a)'
<1> DEFINE t == trail[a]
           s == req[r].session
           moves == apps[a].status = "started"
           entry == Entry("session", seededMarker(r), s, moves)
<1>1. /\ a \in Apps /\ apps[a].status # "absent"
      /\ s \in Sessions /\ sessions[s] = a /\ s # None
  <2>1. req[r].app \in OnFile /\ req[r].session \in Sessions /\ sessions[req[r].session] = req[r].app
    BY DEF RecordSession, Shapes, Shape
  <2>2. QED
    BY <2>1, Constants DEF OnFile
<1>2. t \in Seq(EntryType) /\ t # <<>> /\ Row(a) /\ apps[a] \in AppType
  BY <1>1 DEF Registered, Row, TypeOK, AppType
<1>3. Len(t) \in Nat \ {0} /\ DOMAIN t = 1..Len(t)
  BY <1>2
<1>4. /\ \A i \in DOMAIN t : /\ (t[i].action = "created") <=> i = 1
                             /\ t[i].seeded = apps[a].seeded
                             /\ t[i].moved => i = 2
      /\ moves => Len(t) = 1
      /\ apps[a].status = "submitted" => 2 \in DOMAIN t /\ t[2].moved
      /\ IsReal(apps[a].born) /\ validateApplicant(apps[a].born)
      /\ apps[a].born \in Dates
  BY <1>1, <1>2 DEF Row
<1>5. seededMarker(r) = apps[a].seeded
  <2>1. seededMarker(r) <=> \E i \in DOMAIN t : t[i].action = "created" /\ t[i].seeded
    BY DEF seededMarker
  <2>2. 1 \in DOMAIN t
    BY <1>3
  <2>3. seededMarker(r) <=> apps[a].seeded
    BY <1>4, <2>1, <2>2
  <2>4. apps[a].seeded \in BOOLEAN /\ seededMarker(r) \in BOOLEAN
    BY <1>2 DEF AppType, seededMarker
  <2>5. QED
    BY <2>3, <2>4
<1>6. /\ trail'[a] = Append(t, entry)
      /\ apps' = [apps EXCEPT ![a].session = s, ![a].status = IF moves THEN "submitted" ELSE @]
      /\ sessions' = sessions
  BY <1>1 DEF RecordSession, TypeOK, vendor
<1>7. /\ apps'[a].session = s /\ apps'[a].status = IF moves THEN "submitted" ELSE apps[a].status
      /\ apps'[a].seeded = apps[a].seeded /\ apps'[a].born = apps[a].born
  BY <1>1, <1>6 DEF TypeOK
<1>8. /\ entry.action = "session" /\ entry.seeded = apps[a].seeded /\ (entry.moved <=> moves)
      /\ entry.session = s
  BY <1>5 DEF Entry
<1> HIDE DEF entry, t, s, moves
<1>9. /\ Len(trail'[a]) = Len(t) + 1 /\ DOMAIN trail'[a] = 1..(Len(t) + 1)
      /\ \A i \in 1..Len(t) : trail'[a][i] = t[i]
      /\ trail'[a][Len(t) + 1] = entry
      /\ trail'[a] # <<>>
  BY <1>2, <1>3, <1>6
<1>10. ASSUME NEW i \in DOMAIN trail'[a]
       PROVE  /\ (trail'[a][i].action = "created") <=> i = 1
              /\ trail'[a][i].seeded = apps'[a].seeded
              /\ trail'[a][i].moved => i = 2
  <2>1. CASE i \in 1..Len(t)
    BY <1>3, <1>4, <1>7, <1>9, <2>1
  <2>2. CASE i = Len(t) + 1
    <3>1. trail'[a][i] = entry /\ i # 1
      BY <1>3, <1>9, <2>2
    <3>2. entry.moved => i = 2
      <4>1. entry.moved => Len(t) = 1
        BY <1>4, <1>8
      <4>2. Len(t) = 1 => i = 2
        BY <2>2
      <4>3. QED
        BY <4>1, <4>2
    <3>3. QED
      BY <1>7, <1>8, <3>1, <3>2
  <2>3. QED
    BY <1>3, <1>9, <2>1, <2>2
<1>11. apps'[a].session = trail'[a][Len(trail'[a])].session
  BY <1>7, <1>8, <1>9
<1>12. apps'[a].status # "started" /\ apps'[a].status # "absent"
  BY <1>1, <1>7 DEF moves
<1>13. apps'[a].status = "submitted" => 2 \in DOMAIN trail'[a] /\ trail'[a][2].moved
  <2>1. CASE moves
    <3>1. Len(t) = 1
      BY <1>4, <2>1
    <3>2. trail'[a][2] = entry /\ 2 \in DOMAIN trail'[a]
      BY <1>9, <3>1
    <3>3. QED
      BY <1>8, <2>1, <3>2
  <2>2. CASE ~moves
    BY <1>3, <1>4, <1>7, <1>9, <2>2
  <2>3. QED
    BY <2>1, <2>2
<1>14. QED
  BY <1>1, <1>4, <1>6, <1>7, <1>9, <1>10, <1>11, <1>12, <1>13 DEF Row

LEMMA RowMovesOn ==
  ASSUME TypeOK, NEW a \in Apps, Row(a), MovesOn(a)
  PROVE  Row(a)'
<1>1. /\ apps'[a].session = apps[a].session /\ apps'[a].status = "beyond"
      /\ apps'[a].seeded = apps[a].seeded /\ apps'[a].born = apps[a].born
      /\ trail'[a] = trail[a] /\ sessions' = sessions /\ apps[a].status # "absent"
  BY DEF MovesOn, TypeOK, vendor
<1>2. QED
  BY <1>1 DEF Row

LEMMA RegisteredNext ==
  ASSUME TypeOK, TypeOK', Shapes, Registered, Grows, [Next]_vars
  PROVE  Registered'
<1> SUFFICES ASSUME NEW a \in Apps PROVE Row(a)'
  BY DEF Registered
<1>0. Row(a)
  BY DEF Registered
<1>1. CASE UNCHANGED <<apps, trail>>
  BY <1>0, <1>1, RowKept
<1>2. ASSUME NEW r \in Requests, NEW b \in Apps, insertApplication(r, b) PROVE Row(a)'
  <2>1. CASE a = b
    BY <1>2, <2>1, RowCreated
  <2>2. CASE a # b
    <3>1. apps'[a] = apps[a] /\ trail'[a] = trail[a]
      BY <1>2, <2>2 DEF insertApplication, TypeOK
    <3>2. QED
      BY <1>0, <3>1, RowKept
  <2>3. QED
    BY <2>1, <2>2
<1>3. ASSUME NEW r \in Requests, RecordSession(r) PROVE Row(a)'
  <2>1. CASE a = req[r].app
    BY <1>3, <2>1, RowRecorded
  <2>2. CASE a # req[r].app
    <3>1. apps'[a] = apps[a] /\ trail'[a] = trail[a]
      BY <1>3, <2>2 DEF RecordSession, TypeOK
    <3>2. QED
      BY <1>0, <3>1, RowKept
  <2>3. QED
    BY <2>1, <2>2
<1>4. ASSUME NEW b \in Apps, MovesOn(b) PROVE Row(a)'
  <2>1. CASE a = b
    BY <1>0, <1>4, <2>1, RowMovesOn
  <2>2. CASE a # b
    <3>1. apps'[a] = apps[a] /\ trail'[a] = trail[a]
      BY <1>4, <2>2 DEF MovesOn, TypeOK
    <3>2. QED
      BY <1>0, <3>1, RowKept
  <2>3. QED
    BY <2>1, <2>2
<1>5. CASE \E r \in Requests : Arrival(r)
  BY <1>1, <1>5, ArrivalApart DEF tables
<1>6. CASE \E r \in Requests : Step(r)
  <2>1. PICK r \in Requests : Step(r)
    BY <1>6
  <2>2. \/ UNCHANGED <<apps, trail>>
        \/ \E b \in Apps : insertApplication(r, b)
        \/ RecordSession(r)
    BY <2>1 DEF Step, Connect, ConnectTimesOut, RollBack, CallSimulator,
       CallVendor, CallFails, RegisterSession, SessionAnswered, Conclude, Notify,
       WebhookAnswered, InsertEvent, IgnoreDuplicate, CommitEvent, AnswerEvent, nudgeWorker,
       NextApplicant, RunReviewer, LogTick, tables
  <2>3. QED
    BY <1>1, <1>2, <1>3, <2>2
<1>7. CASE Restart \/ (\E s \in Sessions, e \in Events : VendorConcludes(s, e)) \/ UNCHANGED vars
  BY <1>1, <1>7 DEF Restart, VendorConcludes, vars, tables
<1>8. QED
  BY <1>4, <1>5, <1>6, <1>7 DEF Next

-----------------------------------------------------------------------------
(* The invariant.                                                          *)

LEMMA InitIInv == Init => IInv
<1> SUFFICES ASSUME Init PROVE IInv
  OBVIOUS
<1> USE DEF Init
<1>1. \A r \in Requests : req[r] = Idle
  OBVIOUS
<1>2. TypeOK
  <2>1. req \in [Requests -> RequestType]
    BY IdleType
  <2>2. apps \in [Apps -> [status : AppStatuses, born : Dates \cup {None},
                           session : Sessions \cup {None}, seeded : BOOLEAN]]
    BY DEF AppStatuses
  <2>3. /\ trail \in [Apps -> Seq(EntryType)] /\ results \in Seq(Sessions)
        /\ sessions \in [Sessions -> Apps \cup {None}]
        /\ sent \in [Events -> Nat \cup {None}]
        /\ stored \subseteq Events /\ jobs \in [Events -> Nat]
        /\ acked \subseteq Events /\ sound \subseteq Events
    OBVIOUS
  <2>4. lent \subseteq Requests /\ Cardinality(lent) <= size
    <3>1. Cardinality({}) = 0
      BY FS_EmptySet, Zenon
    <3>2. MaxSize \in Nat /\ size \in 1..MaxSize /\ lent = {}
      BY IntakeAssumption
    <3>3. QED
      BY <3>1, <3>2
  <2>5. mode \in {"simulator", "live"} /\ size \in 1..MaxSize
    OBVIOUS
  <2>6. QED
    BY <2>1, <2>2, <2>3, <2>4, <2>5 DEF TypeOK
<1>3. Shapes
  BY <1>1, IdleShape DEF Shapes, Shape, Idle, Answering, Delivering
<1>4. Linked /\ Heard /\ OnceOnly
  BY <1>1 DEF Linked, Heard, OnceOnly, Waits, Idle
<1>5. Lent /\ TakenOnce /\ OnlySoundIsStored /\ Written
  BY DEF Lent, TakenOnce, OnlySoundIsStored, Written
<1>6. Registered
  BY DEF Registered, Row
<1>7. QED
  BY <1>2, <1>3, <1>4, <1>5, <1>6 DEF IInv

LEMMA NextIInv == IInv /\ [Next]_vars => IInv'
<1> SUFFICES ASSUME IInv, [Next]_vars PROVE IInv'
  OBVIOUS
<1>1. /\ TypeOK /\ Shapes /\ Linked /\ Heard /\ Lent
      /\ TakenOnce /\ OnlySoundIsStored /\ OnceOnly /\ Written /\ Registered
  BY DEF IInv
<1>2. TypeOK'
  BY <1>1, TypeNext
<1>3. Grows
  BY <1>1, <1>2, GrowsNext
<1>4. Shapes'
  BY <1>1, ShapesNext
<1>5. Linked' /\ Heard'
  BY <1>1, LinkedNext
<1>6. Lent'
  BY <1>1, LentNext
<1>7. TakenOnce' /\ OnlySoundIsStored' /\ OnceOnly'
  BY <1>1, <1>3, OnceNext
<1>8. Written'
  BY <1>1, <1>2, <1>3, WrittenNext
<1>9. Registered'
  BY <1>1, <1>2, <1>3, RegisteredNext
<1>10. QED
  BY <1>2, <1>4, <1>5, <1>6, <1>7, <1>8, <1>9 DEF IInv

\* The inductive invariant holds of every reachable state.
THEOREM IInvCorrect == Spec => []IInv
BY InitIInv, NextIInv, PTL DEF Spec

\* The tables, the pool and the requests keep their types, and no more connections are
\* lent than the pool has, whatever arrives, times out, rolls back or dies.
THEOREM TypeCorrect == Spec => []TypeOK
<1>1. IInv => TypeOK
  BY DEF IInv
<1>2. QED
  BY <1>1, IInvCorrect, PTL

\* A message answered 200 is stored with its one job, however often and however close
\* together its copies come, and whatever rolls back or dies in between.
THEOREM TakenOnceCorrect == Spec => []TakenOnce
<1>1. IInv => TakenOnce
  BY DEF IInv
<1>2. QED
  BY <1>1, IInvCorrect, PTL

\* Nothing is stored of which no sound copy came.
THEOREM OnlySoundCorrect == Spec => []OnlySoundIsStored
<1>1. IInv => OnlySoundIsStored
  BY DEF IInv
<1>2. QED
  BY <1>1, IInvCorrect, PTL

\* For any number of requests and any pool, no request waits with a connection.
THEOREM LentCorrect == Spec => []LentOnlyToTransactions
<1>1. IInv => LentOnlyToTransactions
  BY DEF IInv, Lent, LentOnlyToTransactions, Begun
<1>2. QED
  BY <1>1, IInvCorrect, PTL

\* A stored message never runs ahead of the result it announces.
THEOREM NewsCorrect == Spec => []NewsIsOnRecord
<1>1. IInv => NewsIsOnRecord
  BY DEF IInv, Written, NewsIsOnRecord, TypeOK
<1>2. QED
  BY <1>1, IInvCorrect, PTL

\* Every request that waits for a route of its own instance has one that answers it.
THEOREM AnswersCorrect == Spec => []EveryCallIsAnswered
<1>1. ASSUME IInv PROVE EveryCallIsAnswered
  <2> SUFFICES ASSUME NEW r \in Requests, req[r].at = "called", req[r].got = None
               PROVE  \E q \in Requests :
                        /\ req[q].by = r
                        /\ req[q].at \notin {"idle", "opening", "called", "nudging"}
    BY DEF EveryCallIsAnswered
  <2>1. PICK q \in Requests : req[q].by = r
    BY <1>1 DEF IInv, Heard, Waits
  <2>2. req[q].at \in Answering
    BY <1>1, <2>1, Constants DEF IInv, Shapes, Shape
  <2>3. QED
    BY <2>1, <2>2 DEF Answering
<1>2. QED
  BY <1>1, IInvCorrect, PTL

LEMMA MarkedTrails ==
  ASSUME TypeOK, Registered
  PROVE  unmarkedSeededEvents = {}
<1>1. ASSUME NEW a \in Apps, NEW i \in DOMAIN trail[a],
             trail[a][i].action = "created", trail[a][i].seeded,
             NEW j \in DOMAIN trail[a]
      PROVE  trail[a][j].seeded
  <2>1. trail[a] # <<>>
    BY <1>1
  <2>2. /\ trail[a][i].seeded = apps[a].seeded
        /\ trail[a][j].seeded = apps[a].seeded
    BY <1>1, <2>1 DEF Registered, Row
  <2>3. QED
    BY <1>1, <2>2
<1>2. QED
  BY <1>1 DEF unmarkedSeededEvents

\* The audit trail of every application tells what happened to it, in order, with the
\* seeder's mark throughout, its session, and its move to 'submitted' once.
THEOREM TrailCorrect == Spec => []TrailTellsAll
<1>1. ASSUME IInv PROVE TrailTellsAll
  <2>1. unmarkedSeededEvents = {}
    BY <1>1, MarkedTrails DEF IInv
  <2>2. ASSUME NEW a \in Apps, apps[a].status # "absent"
        PROVE  LET moves == {i \in DOMAIN trail[a] : trail[a][i].moved}
               IN /\ Cardinality(moves) <= 1
                  /\ apps[a].status = "submitted" => moves = {2}
    <3> DEFINE moves == {i \in DOMAIN trail[a] : trail[a][i].moved}
    <3>1. /\ \A i \in DOMAIN trail[a] : trail[a][i].moved => i = 2
          /\ apps[a].status = "submitted" => 2 \in DOMAIN trail[a] /\ trail[a][2].moved
      BY <1>1, <2>2 DEF IInv, Registered, Row
    <3>2. moves \subseteq {2} /\ (apps[a].status = "submitted" => moves = {2})
      BY <3>1
    <3>3. moves = {} \/ moves = {2}
      BY <3>2
    <3>4. Cardinality({}) = 0 /\ Cardinality({2}) = 1
      <4>1. Cardinality({}) = 0
        BY FS_EmptySet, Zenon
      <4>2. Cardinality({2}) = 1
        BY FS_Singleton, Zenon
      <4>3. QED
        BY <4>1, <4>2
    <3>5. Cardinality(moves) = 0 \/ Cardinality(moves) = 1
      <4> HIDE DEF moves
      <4>1. QED
        BY <3>3, <3>4
    <3>6. QED
      BY <3>2, <3>5
  <2>3. ASSUME NEW a \in Apps PROVE Row(a)
    BY <1>1 DEF IInv, Registered
  <2>4. QED
    BY <2>1, <2>2, <2>3 DEF TrailTellsAll, Row
<1>2. QED
  BY <1>1, IInvCorrect, PTL

\* The age that validateApplicant computes is the calendar's.
LEMMA AgeIsTheCalendars ==
  ASSUME NEW d \in Nat \X Nat \X Nat, IsReal(d), validateApplicant(d)
  PROVE  LET Reached(n) == \/ d[1] + n < Today[1]
                           \/ d[1] + n = Today[1] /\ d[2] < Today[2]
                           \/ d[1] + n = Today[1] /\ d[2] = Today[2] /\ d[3] <= Today[3]
         IN Reached(18) /\ ~Reached(121)
<1>1. /\ d[1] \in Nat /\ d[2] \in Nat /\ d[3] \in Nat
      /\ Today[1] \in Nat /\ Today[2] \in Nat /\ Today[3] \in Nat
  BY IntakeAssumption
<1>2. ageOn(d, Today) \in 18..120
  BY DEF validateApplicant, Parsed
<1>3. CASE Today[2] < d[2] \/ (Today[2] = d[2] /\ Today[3] < d[3])
  <2>1. Today[1] - d[1] - 1 \in 18..120
    BY <1>2, <1>3 DEF ageOn
  <2>2. QED
    BY <1>1, <1>3, <2>1
<1>4. CASE ~(Today[2] < d[2] \/ (Today[2] = d[2] /\ Today[3] < d[3]))
  <2>1. Today[1] - d[1] - 0 \in 18..120
    BY <1>2, <1>4 DEF ageOn
  <2>2. QED
    BY <1>1, <1>4, <2>1
<1>5. QED
  BY <1>3, <1>4

\* Whoever has an application is of age by the calendar, whatever dates are typed and
\* whatever day it is.
THEOREM AdultsCorrect == Spec => []AdultsOnly
<1>1. ASSUME IInv PROVE AdultsOnly
  <2>1. ASSUME NEW a \in Apps, apps[a].status # "absent"
        PROVE  /\ IsReal(apps[a].born) /\ validateApplicant(apps[a].born)
               /\ apps[a].born \in Nat \X Nat \X Nat
    BY <1>1, <2>1, IntakeAssumption DEF IInv, Registered, Row
  <2>2. QED
    BY <2>1, AgeIsTheCalendars DEF AdultsOnly
<1>2. QED
  BY <1>1, IInvCorrect, PTL
=============================================================================
