------------------------------- MODULE Login -------------------------------
(***************************************************************************)
(* The one staff account: signing in, the signed session cookie, and the   *)
(* fixed window of failed attempts an instance of the web service keeps    *)
(* for each client.  From the check of the window to the record of the     *)
(* failure nothing is awaited, so a sign-in is one step.  The window is in *)
(* memory and a restart forgets it; the session is in the cookie and       *)
(* survives.                                                               *)
(*                                                                         *)
(* A stopwatch, started at any moment, counts the failures it sees for the *)
(* time of one window.  It starts anew when the right password is given or *)
(* the instance restarts: both allow the client everything again.          *)
(***************************************************************************)
EXTENDS Naturals

CONSTANTS
  MaxAttempts,  \* MAX_ATTEMPTS (8)
  Window        \* ATTEMPT_WINDOW_MS, in units of TimePasses

ASSUME LoginAssumption == MaxAttempts \in Nat \ {0} /\ Window \in Nat \ {0}

VARIABLES
  session,   \* of the officer's browser
  attempts,  \* the client's entry: failures (none: no entry), and the window's age
  watch      \* history: the stopwatch, and the failures since it was started

loginVars == <<session, attempts, watch>>

\* Ages are told apart up to the first that is past the window.
Ages == 0..Window + 1
Older(age) == IF age > Window THEN age ELSE age + 1
Nothing == [count |-> 0, age |-> 0]

LoginTypeOK ==
  /\ session \in {"none", "live", "expired"}
  /\ attempts \in [count : 0..MaxAttempts, age : Ages]
  /\ watch \in [count : Nat, age : Ages]

LoginInit == session = "none" /\ attempts = Nothing /\ watch = Nothing

-----------------------------------------------------------------------------
Passed == attempts.age > Window

\* An entry past its window counts for nothing (it is deleted on the way).
\* (Mutant: one attempt more.)
OneMore == ~Passed /\ attempts.count > MaxAttempts
rateLimitExceeded == ~Passed /\ attempts.count >= MaxAttempts

recordFailure ==
  attempts' = IF attempts = Nothing \/ Passed THEN [count |-> 1, age |-> 0]
              ELSE [attempts EXCEPT !.count = @ + 1]

clearFailures == attempts' = Nothing
startSession == session' = "live"
endSession == session' = "none"

\* The right email and password.
SignIn ==
  /\ ~rateLimitExceeded
  /\ clearFailures /\ startSession
  /\ watch' = Nothing

\* Either is wrong: one answer for both.
SignInFails ==
  /\ ~rateLimitExceeded
  /\ recordFailure
  /\ watch' = IF watch.age > Window THEN watch ELSE [watch EXCEPT !.count = @ + 1]
  /\ UNCHANGED session

SignOut == endSession /\ UNCHANGED <<attempts, watch>>

\* SESSION_HOURS are over: the cookie's signature holds, its date does not.
SessionExpires ==
  /\ session = "live"
  /\ session' = "expired" /\ UNCHANGED <<attempts, watch>>

TimePasses ==
  /\ attempts' = IF attempts = Nothing THEN Nothing ELSE [attempts EXCEPT !.age = Older(@)]
  /\ watch' = [watch EXCEPT !.age = Older(@)]
  /\ UNCHANGED session

RestartInstance == attempts' = Nothing /\ watch' = Nothing /\ UNCHANGED session

StartWatch == watch' = Nothing /\ UNCHANGED <<session, attempts>>

SessionNext == SignIn \/ SignOut \/ SessionExpires
LoginNext == SessionNext \/ SignInFails \/ TimePasses \/ RestartInstance \/ StartWatch
LoginSpec == LoginInit /\ [][LoginNext]_loginVars

-----------------------------------------------------------------------------
\* The window is fixed, not sliding: around its edge a client may fail almost twice
\* as often as the limit says in the time of one window, and never more often.
FailuresAreLimited == watch.age <= Window => watch.count <= 2 * MaxAttempts - 1
=============================================================================
