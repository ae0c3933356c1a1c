-------------------------- MODULE AuthManagerProofs --------------------------
(***************************************************************************)
(* For every set of tokens, requests and sources and for all durations:    *)
(* sessions live exactly as long as promised, lockouts end by time alone,  *)
(* and ValidateSession in three steps answers as one atomic check would.   *)
(***************************************************************************)
EXTENDS AuthManager, TLAPS

\* The manager starts with empty tables.
LEMMA AuthInit == Init => AuthInv
  BY AuthAssumption DEF Init, AuthInv, TypeOK, SessionKept, VisitKnows, LockIsFull,
     NoLoginWhileLocked, Locked, NoFailures, Asking

\* Every step keeps the types.
LEMMA TypeStep == TypeOK /\ [Next]_vars => TypeOK'
<1> SUFFICES ASSUME TypeOK, [Next]_vars PROVE TypeOK'
  OBVIOUS
<1> USE AuthAssumption DEF TypeOK, Asking, sessionVars, loginVars
<1>1. CASE Tick
  BY <1>1 DEF Tick, Aged
<1>2. CASE Cleanup
  BY <1>2 DEF Cleanup, NoFailures
<1>3. CASE CleanupStops
  BY <1>3 DEF CleanupStops
<1>4. ASSUME NEW s \in Sources, Login(s) PROVE TypeOK'
  <2>1. CASE CheckLockout(s)
    BY <2>1 DEF CheckLockout, LoginGoes
  <2>2. CASE ValidatePassword(s)
    BY <2>2 DEF ValidatePassword, LoginGoes
  <2>3. CASE RecordFailedLogin(s)
    BY <2>3 DEF RecordFailedLogin, Counted, LoginGoes
  <2>4. CASE ClearFailedLogins(s)
    BY <2>4 DEF ClearFailedLogins, LoginGoes, NoFailures
  <2>5. CASE CreateSession(s)
    BY <2>5 DEF CreateSession, LoginGoes
  <2> QED
    BY <1>4, <2>1, <2>2, <2>3, <2>4, <2>5 DEF Login
<1>5. ASSUME NEW v \in Visits, Validate(v) PROVE TypeOK'
  BY <1>5 DEF Validate, Lookup, Compare, DeleteExpired, VisitGoes
<1>6. ASSUME NEW v \in Visits, NEW t \in Tokens, Visit(v, t) PROVE TypeOK'
  BY <1>6 DEF Visit
<1>7. CASE UNCHANGED vars
  BY <1>7 DEF vars
<1> QED
  BY <1>1, <1>2, <1>3, <1>4, <1>5, <1>6, <1>7 DEF Next

\* Every step keeps valid sessions in the table, and what a request that is
\* about to delete knows stays true: its token expired and cannot come back.
LEMMA SessionStep == AuthInv /\ [Next]_vars => SessionKept' /\ VisitKnows'
<1> SUFFICES ASSUME AuthInv, [Next]_vars PROVE SessionKept' /\ VisitKnows'
  OBVIOUS
<1> USE AuthAssumption DEF AuthInv, TypeOK, SessionKept, VisitKnows, Asking,
        sessionVars, loginVars
<1>1. CASE Tick
  BY <1>1 DEF Tick, Aged
<1>2. CASE Cleanup
  BY <1>2 DEF Cleanup
<1>3. CASE CleanupStops
  BY <1>3 DEF CleanupStops
<1>4. ASSUME NEW s \in Sources, Login(s) PROVE SessionKept' /\ VisitKnows'
  <2>1. CASE CreateSession(s)
    <3>1. PICK t \in Tokens \ sessions :
            /\ \A v \in Visits : visit[v] \in Asking => token[v] # t
            /\ sessions' = sessions \union {t}
            /\ left' = [left EXCEPT ![t] = SessionDuration]
      BY <2>1 DEF CreateSession
    <3>2. visit' = visit /\ token' = token
      BY <2>1 DEF CreateSession
    <3>3. SessionKept'
      BY <3>1
    <3>4. VisitKnows'
      BY <3>1, <3>2
    <3> QED
      BY <3>3, <3>4
  <2>2. CASE ~CreateSession(s)
    BY <1>4, <2>2 DEF Login, CheckLockout, ValidatePassword, RecordFailedLogin,
       ClearFailedLogins
  <2> QED
    BY <2>1, <2>2
<1>5. ASSUME NEW v \in Visits, Validate(v) PROVE SessionKept' /\ VisitKnows'
  <2>1. CASE Lookup(v)
    BY <2>1 DEF Lookup, VisitGoes
  <2>2. CASE Compare(v)
    BY <2>2 DEF Compare, VisitGoes
  <2>3. CASE DeleteExpired(v)
    BY <2>3 DEF DeleteExpired, VisitGoes
  <2> QED
    BY <1>5, <2>1, <2>2, <2>3 DEF Validate
<1>6. ASSUME NEW v \in Visits, NEW t \in Tokens, Visit(v, t)
      PROVE SessionKept' /\ VisitKnows'
  BY <1>6 DEF Visit
<1>7. CASE UNCHANGED vars
  BY <1>7 DEF vars
<1> QED
  BY <1>1, <1>2, <1>3, <1>4, <1>5, <1>6, <1>7 DEF Next

\* Every step keeps logins away from a locked source.
LEMMA LockStep == AuthInv /\ [Next]_vars => LockIsFull' /\ NoLoginWhileLocked'
<1> SUFFICES ASSUME AuthInv, [Next]_vars PROVE LockIsFull' /\ NoLoginWhileLocked'
  OBVIOUS
<1> USE AuthAssumption DEF AuthInv, TypeOK, LockIsFull, NoLoginWhileLocked, Locked,
        NoFailures, sessionVars, loginVars
<1>1. CASE Tick
  BY <1>1 DEF Tick, Aged
<1>2. CASE Cleanup
  BY <1>2 DEF Cleanup
<1>3. CASE CleanupStops
  BY <1>3 DEF CleanupStops
<1>4. ASSUME NEW s \in Sources, Login(s) PROVE LockIsFull' /\ NoLoginWhileLocked'
  <2>1. CASE CheckLockout(s)
    BY <2>1 DEF CheckLockout, LoginGoes, LockedOut
  <2>2. CASE ValidatePassword(s)
    BY <2>2 DEF ValidatePassword, LoginGoes
  <2>3. CASE RecordFailedLogin(s)
    BY <2>3 DEF RecordFailedLogin, Counted, LoginGoes
  <2>4. CASE ClearFailedLogins(s)
    BY <2>4 DEF ClearFailedLogins, LoginGoes
  <2>5. CASE CreateSession(s)
    BY <2>5 DEF CreateSession, LoginGoes
  <2> QED
    BY <1>4, <2>1, <2>2, <2>3, <2>4, <2>5 DEF Login
<1>5. ASSUME NEW v \in Visits, Validate(v) PROVE LockIsFull' /\ NoLoginWhileLocked'
  BY <1>5 DEF Validate, Lookup, Compare, DeleteExpired
<1>6. ASSUME NEW v \in Visits, NEW t \in Tokens, Visit(v, t)
      PROVE LockIsFull' /\ NoLoginWhileLocked'
  BY <1>6 DEF Visit
<1>7. CASE UNCHANGED vars
  BY <1>7 DEF vars
<1> QED
  BY <1>1, <1>2, <1>3, <1>4, <1>5, <1>6, <1>7 DEF Next

\* The invariant the theorems below rest on.
THEOREM AuthInvariant == Spec => []AuthInv
<1>1. AuthInv /\ [Next]_vars => AuthInv'
  BY TypeStep, SessionStep, LockStep DEF AuthInv
<1> QED
  BY AuthInit, <1>1, PTL DEF Spec

\* Type correctness of the manager's tables and of the steps under way.
THEOREM AuthTypes == Spec => []TypeOK
<1>1. AuthInv => TypeOK
  BY DEF AuthInv
<1> QED
  BY AuthInvariant, <1>1, PTL

\* No session is removed before its time.
THEOREM SessionsLast == Spec => []SessionKept
<1>1. AuthInv => SessionKept
  BY DEF AuthInv
<1> QED
  BY AuthInvariant, <1>1, PTL

\* No password of a locked source is compared.
THEOREM LockoutHolds == Spec => []NoLoginWhileLocked
<1>1. AuthInv => NoLoginWhileLocked
  BY DEF AuthInv
<1> QED
  BY AuthInvariant, <1>1, PTL

\* A lockout is neither cut short nor extended.
THEOREM LockoutOnlyTime == Spec => LockoutOnlyAges
<1> DEFINE Ages == \A s \in Sources : Locked(s) =>
             \/ failed'[s] = failed[s]
             \/ failed'[s] = [failed[s] EXCEPT !.left = failed[s].left - 1]
<1>1. ASSUME AuthInv, [Next]_vars PROVE Ages
  <2> USE <1>1, AuthAssumption DEF AuthInv, TypeOK, NoLoginWhileLocked, LockIsFull, Locked
  <2>1. CASE Tick
    BY <2>1 DEF Tick, Aged
  <2>2. CASE Cleanup
    BY <2>2 DEF Cleanup
  <2>3. ASSUME NEW s \in Sources, Login(s) PROVE Ages
    BY <2>3 DEF Login, LoginGoes, CheckLockout, ValidatePassword, RecordFailedLogin,
       Counted, ClearFailedLogins, CreateSession
  <2>4. CASE CleanupStops \/ UNCHANGED vars
    BY <2>4 DEF CleanupStops, loginVars, vars
  <2>5. ASSUME NEW v \in Visits, Validate(v) \/ \E t \in Tokens : Visit(v, t) PROVE Ages
    BY <2>5 DEF Validate, Lookup, Compare, DeleteExpired, Visit, loginVars
  <2> QED
    BY <2>1, <2>2, <2>3, <2>4, <2>5 DEF Next
<1>2. AuthInv /\ [Next]_vars => [Ages]_vars
  BY <1>1
<1> QED
  BY AuthInvariant, <1>2, PTL DEF Spec, LockoutOnlyAges

\* ValidateSession and the tables behind it implement the lease of a token.
THEOREM AuthImplementsLease == Spec => ImplementsLease
<1> USE DEF Asking
<1>1. Init => Lease!LeaseInit
  BY DEF Init, Lease!LeaseInit
<1>2. ASSUME AuthInv, [Next]_vars PROVE [Lease!LeaseNext]_Lease!leaseVars
  <2> USE <1>2, AuthAssumption DEF AuthInv, TypeOK
  <2>1. CASE Tick
    BY <2>1 DEF Tick, Aged, Lease!Aged, Lease!LeaseTick, Lease!LeaseNext
  <2>2. CASE Cleanup \/ CleanupStops \/ UNCHANGED vars
    BY <2>2 DEF Cleanup, CleanupStops, sessionVars, vars, Lease!leaseVars
  <2>3. ASSUME NEW s \in Sources, Login(s)
        PROVE [Lease!LeaseNext]_Lease!leaseVars
    <3>1. CASE CreateSession(s)
      <4>1. PICK t \in Tokens \ sessions : left' = [left EXCEPT ![t] = SessionDuration]
        BY <3>1 DEF CreateSession
      <4>2. ~Lease!Valid(t)
        BY DEF SessionKept, Lease!Valid
      <4>3. UNCHANGED <<visit, token>>
        BY <3>1 DEF CreateSession
      <4>4. Lease!Issue(t)
        BY <4>1, <4>2, <4>3 DEF Lease!Issue
      <4> QED
        BY <4>4 DEF Lease!LeaseNext
    <3>2. CASE ~CreateSession(s)
      BY <2>3, <3>2 DEF Login, CheckLockout, ValidatePassword, RecordFailedLogin,
         ClearFailedLogins, sessionVars, Lease!leaseVars
    <3> QED
      BY <3>1, <3>2
  <2>4. ASSUME NEW v \in Visits, Validate(v)
        PROVE [Lease!LeaseNext]_Lease!leaseVars
    <3>1. CASE visit'[v] \in Asking
      BY <2>4, <3>1 DEF Validate, Lookup, Compare, DeleteExpired, VisitGoes,
         Lease!leaseVars
    <3>2. CASE visit'[v] \notin Asking
      <4>1. /\ visit[v] \in Asking
            /\ visit' = [visit EXCEPT ![v] = visit'[v]]
            /\ UNCHANGED <<left, token>>
        BY <2>4 DEF Validate, Lookup, Compare, DeleteExpired, VisitGoes
      <4>2. visit'[v] = IF Lease!Valid(token[v]) THEN "admitted" ELSE "refused"
        BY <2>4, <3>2 DEF Validate, Lookup, Compare, DeleteExpired, VisitGoes,
           SessionKept, VisitKnows, Lease!Valid
      <4>3. Lease!Answer(v)
        BY <4>1, <4>2, <3>2 DEF Lease!Answer
      <4> QED
        BY <4>3 DEF Lease!LeaseNext
    <3> QED
      BY <3>1, <3>2
  <2>5. ASSUME NEW v \in Visits, NEW t \in Tokens, Visit(v, t)
        PROVE [Lease!LeaseNext]_Lease!leaseVars
    <3>1. Lease!Ask(v, t)
      BY <2>5 DEF Visit, Lease!Ask
    <3> QED
      BY <3>1 DEF Lease!LeaseNext
  <2> QED
    BY <2>1, <2>2, <2>3, <2>4, <2>5 DEF Next
<1>3. AuthInv /\ [Next]_vars => [Lease!LeaseNext]_Lease!leaseVars
  BY <1>2
<1> QED
  BY AuthInvariant, <1>1, <1>3, PTL DEF Spec, ImplementsLease, Lease!LeaseSpec
=============================================================================
