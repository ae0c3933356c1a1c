----------------------------- MODULE AuthManager -----------------------------
(***************************************************************************)
(* Sessions and login throttling: internal/auth/auth.go, with the handlers *)
(* of internal/server/server.go that call it.                              *)
(*                                                                         *)
(* A login runs in four steps that do not hold the manager's lock together *)
(* (lockout check, password, failure counter, session), and so does the    *)
(* check of a session (lookup, comparison with the clock, deletion); the   *)
(* cleanup goroutine and the clock move in between.  Logins are keyed by   *)
(* r.RemoteAddr, the address and port of a connection, and an HTTP/1       *)
(* connection serves one request at a time: each key has one login under   *)
(* way at most.                                                            *)
(*                                                                         *)
(* Times are kept as the ticks left until them: -1 once the clock is After *)
(* them, 0 at that very instant, positive while the clock is Before them.  *)
(* Go compares monotonic readings, so the clock never steps back.          *)
(***************************************************************************)
EXTENDS Integers

CONSTANTS
  Tokens,            \* session tokens
  Visits,            \* requests for a page that needs a session
  Sources,           \* remote addresses logins come from
  SessionDuration, LockoutDuration, MaxLoginAttempts,
  Enabled            \* a password hash was built in

ASSUME AuthAssumption ==
  /\ SessionDuration \in Nat \ {0}
  /\ LockoutDuration \in Nat \ {0}
  /\ MaxLoginAttempts \in Nat \ {0}
  /\ Enabled \in BOOLEAN

VARIABLES
  sessions,   \* the tokens the session table has
  left,       \* ticks left before the expiry each token was issued with
  failed,     \* failedLogins: count (0: no entry) and ticks left of the lock
  login,      \* per source, the step its login is at
  visit,      \* per request, the step ValidateSession is at, or its answer
  token,      \* the token a request presents
  cleaning    \* the cleanup goroutine runs

vars == <<sessions, left, failed, login, visit, token, cleaning>>
sessionVars == <<sessions, left, visit, token>>
loginVars == <<failed, login>>

Asking == {"lookup", "compare", "delete"}

TypeOK ==
  /\ sessions \subseteq Tokens
  /\ left \in [Tokens -> -1..SessionDuration]
  /\ failed \in [Sources -> [count: 0..MaxLoginAttempts, left: -1..LockoutDuration]]
  /\ login \in [Sources -> {"idle", "password", "record", "clear", "create"}]
  /\ visit \in [Visits -> {"none", "admitted", "refused"} \union Asking]
  /\ token \in [Visits -> Tokens]
  /\ cleaning \in BOOLEAN

\* A source without an entry: the zero value Go's map returns.
NoFailures == [count |-> 0, left |-> -1]

Init ==
  /\ sessions = {}
  /\ left = [t \in Tokens |-> -1]
  /\ failed = [s \in Sources |-> NoFailures]
  /\ login = [s \in Sources |-> "idle"]
  /\ visit = [v \in Visits |-> "none"]
  /\ token \in [Visits -> Tokens]
  /\ cleaning = TRUE

Aged(n) == IF n >= 0 THEN n - 1 ELSE n

\* Time passes for every expiry at once.
Tick ==
  /\ left' = [t \in Tokens |-> Aged(left[t])]
  /\ failed' = [s \in Sources |-> [failed[s] EXCEPT !.left = Aged(failed[s].left)]]
  /\ UNCHANGED <<sessions, login, visit, token, cleaning>>

-----------------------------------------------------------------------------
(* handleLogin.                                                            *)

\* Mutant of LockedOut: one failure too late.
LockedOutLate(s) == failed[s].count > MaxLoginAttempts /\ failed[s].left > 0

\* IsLockedOut.  The entry is read under the lock and compared with the clock
\* after it; nobody else changes an entry that has not expired.
LockedOut(s) == failed[s].count >= MaxLoginAttempts /\ failed[s].left > 0

LoginGoes(s, from, to) == login[s] = from /\ login' = [login EXCEPT ![s] = to]

\* A source that is locked out is redirected, and nothing changes.
CheckLockout(s) ==
  /\ ~LockedOut(s)
  /\ LoginGoes(s, "idle", "password")
  /\ UNCHANGED <<sessionVars, failed, cleaning>>

\* The comparison with the hash takes its time; without a hash it succeeds.
ValidatePassword(s) ==
  /\ \/ LoginGoes(s, "password", "clear")
     \/ Enabled /\ LoginGoes(s, "password", "record")
  /\ UNCHANGED <<sessionVars, failed, cleaning>>

\* An entry with one more failure.  Counts above the limit are all alike, so
\* the count stops there.
Counted(entry) ==
  IF entry.count + 1 >= MaxLoginAttempts
    THEN [count |-> MaxLoginAttempts, left |-> LockoutDuration]
    ELSE [count |-> entry.count + 1, left |-> entry.left]

RecordFailedLogin(s) ==
  /\ LoginGoes(s, "record", "idle")
  /\ failed' = [failed EXCEPT ![s] = Counted(failed[s])]
  /\ UNCHANGED <<sessionVars, cleaning>>

ClearFailedLogins(s) ==
  /\ LoginGoes(s, "clear", "create")
  /\ failed' = [failed EXCEPT ![s] = NoFailures]
  /\ UNCHANGED <<sessionVars, cleaning>>

\* Mutant of CreateSession: a token somebody may still ask for.
CreateStale(s) ==
  /\ LoginGoes(s, "create", "idle")
  /\ \E t \in Tokens \ sessions :
       /\ sessions' = sessions \union {t}
       /\ left' = [left EXCEPT ![t] = SessionDuration]
  /\ UNCHANGED <<failed, visit, token, cleaning>>

\* A random token is new to everybody: a name of the model is used again only
\* when the table and the requests under way have forgotten it.
CreateSession(s) ==
  /\ LoginGoes(s, "create", "idle")
  /\ \E t \in Tokens \ sessions :
       /\ \A v \in Visits : visit[v] \in Asking => token[v] # t
       /\ sessions' = sessions \union {t}
       /\ left' = [left EXCEPT ![t] = SessionDuration]
  /\ UNCHANGED <<failed, visit, token, cleaning>>

Login(s) ==
  \/ CheckLockout(s) \/ ValidatePassword(s) \/ RecordFailedLogin(s)
  \/ ClearFailedLogins(s) \/ CreateSession(s)

-----------------------------------------------------------------------------
(* requireAuth and the login page: GetSessionFromRequest, ValidateSession. *)

VisitGoes(v, from, to) == visit[v] = from /\ visit' = [visit EXCEPT ![v] = to]

\* A request with a cookie.  A build without a hash asks nobody.
Visit(v, t) ==
  /\ Enabled
  /\ visit[v] \notin Asking
  /\ visit' = [visit EXCEPT ![v] = "lookup"]
  /\ token' = [token EXCEPT ![v] = t]
  /\ UNCHANGED <<sessions, left, loginVars, cleaning>>

\* Under the read lock.  An entry's expiry never changes, so the copy the
\* request keeps is left[token].
Lookup(v) ==
  /\ VisitGoes(v, "lookup", IF token[v] \in sessions THEN "compare" ELSE "refused")
  /\ UNCHANGED <<sessions, left, token, loginVars, cleaning>>

\* Mutant of Compare: expired one tick early.
CompareEarly(v) ==
  /\ VisitGoes(v, "compare", IF left[token[v]] <= 0 THEN "delete" ELSE "admitted")
  /\ UNCHANGED <<sessions, left, token, loginVars, cleaning>>

\* time.Now().After(expiry), outside the lock.
Compare(v) ==
  /\ VisitGoes(v, "compare", IF left[token[v]] < 0 THEN "delete" ELSE "admitted")
  /\ UNCHANGED <<sessions, left, token, loginVars, cleaning>>

\* Under the write lock, without another look at the entry.
DeleteExpired(v) ==
  /\ VisitGoes(v, "delete", "refused")
  /\ sessions' = sessions \ {token[v]}
  /\ UNCHANGED <<left, token, loginVars, cleaning>>

Validate(v) == Lookup(v) \/ Compare(v) \/ DeleteExpired(v)

-----------------------------------------------------------------------------
(* cleanupLoop.                                                            *)

\* Mutants of Cleanup: every full entry goes, locked or not; sessions are
\* forgotten.
CleanupUnlocks ==
  /\ cleaning
  /\ sessions' = {t \in sessions : left[t] >= 0}
  /\ failed' = [s \in Sources |->
       IF failed[s].count >= MaxLoginAttempts THEN NoFailures ELSE failed[s]]
  /\ UNCHANGED <<left, login, visit, token, cleaning>>
CleanupLockoutsOnly ==
  /\ cleaning
  /\ failed' = [s \in Sources |->
       IF failed[s].count >= MaxLoginAttempts /\ failed[s].left < 0
         THEN NoFailures ELSE failed[s]]
  /\ UNCHANGED <<sessions, left, login, visit, token, cleaning>>

\* One pass over both tables, under the write lock.  An entry that never
\* reached the limit stays.
Cleanup ==
  /\ cleaning
  /\ sessions' = {t \in sessions : left[t] >= 0}
  /\ failed' = [s \in Sources |->
       IF failed[s].count >= MaxLoginAttempts /\ failed[s].left < 0
         THEN NoFailures ELSE failed[s]]
  /\ UNCHANGED <<left, login, visit, token, cleaning>>

\* The service context is cancelled.
CleanupStops ==
  /\ cleaning
  /\ cleaning' = FALSE
  /\ UNCHANGED <<sessionVars, loginVars>>

Next ==
  \/ Tick \/ Cleanup \/ CleanupStops
  \/ \E s \in Sources : Login(s)
  \/ \E v \in Visits : Validate(v) \/ \E t \in Tokens : Visit(v, t)

Spec == Init /\ [][Next]_vars

\* Time passes, and the ticker of the cleanup loop fires until it is stopped.
\* No client has to send anything.
Fairness == WF_vars(Tick) /\ WF_vars(Cleanup)

FairSpec == Spec /\ Fairness

-----------------------------------------------------------------------------
(* Properties.                                                             *)

\* The deletion of an expired session, decided on what the table said before,
\* and the cleanup that runs meanwhile, never remove a session that is still
\* valid: a token is in the table until its time is over.
SessionKept == \A t \in Tokens : left[t] >= 0 => t \in sessions

\* What a request knows of its token while it is between two locks.
VisitKnows ==
  \A v \in Visits : visit[v] = "delete" => left[token[v]] < 0

\* lockedUntil lies ahead, whatever the counter says.
Locked(s) == failed[s].left > 0

\* Until the lockedUntil of a source has come, no password of it is compared
\* and no session made: the failure that set it was the last login under way,
\* and the check turns every later one away.
NoLoginWhileLocked == \A s \in Sources : Locked(s) => login[s] = "idle"

\* Only a full counter has a lockedUntil.
LockIsFull == \A s \in Sources : failed[s].left >= 0 => failed[s].count = MaxLoginAttempts

AuthInv == TypeOK /\ SessionKept /\ VisitKnows /\ LockIsFull /\ NoLoginWhileLocked

\* A lockout ends by time alone: neither the cleanup nor a login of any source
\* removes, shortens or extends it.
LockoutOnlyAges ==
  [][\A s \in Sources : Locked(s) =>
       \/ failed'[s] = failed[s]
       \/ failed'[s] = [failed[s] EXCEPT !.left = failed[s].left - 1]]_vars

\* Every session leaves the table, the ones nobody presents again included,
\* until the service stops: the table does not grow with the logins ever made.
SessionsCollected == \A t \in Tokens : t \in sessions ~> t \notin sessions \/ ~cleaning

Lease == INSTANCE SessionLease
  WITH verdict <- [v \in Visits |-> IF visit[v] \in Asking THEN "asking" ELSE visit[v]]

\* ValidateSession, in three steps around two locks, answers as a check of the
\* expiry in one step would: admitted exactly while the token is valid.
ImplementsLease == Lease!LeaseSpec
=============================================================================
