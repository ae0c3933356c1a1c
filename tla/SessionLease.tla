---------------------------- MODULE SessionLease ----------------------------
(***************************************************************************)
(* What internal/auth promises of a session: a token is valid from the     *)
(* login that issued it until SessionDuration has passed, for everybody    *)
(* who presents it, whatever is done to the table that remembers it.       *)
(***************************************************************************)
EXTENDS Integers

CONSTANTS
  Tokens,           \* session tokens
  Visits,           \* requests that present a token
  SessionDuration   \* life of a session, in ticks of the clock

VARIABLES
  left,      \* ticks left before each token expires, negative when it has
  token,     \* the token a request presents
  verdict    \* "none", "asking", then what the request was told

leaseVars == <<left, token, verdict>>

Valid(t) == left[t] >= 0

\* The clock moves on; a token that has expired stays expired.
Aged(n) == IF n >= 0 THEN n - 1 ELSE n

LeaseInit ==
  /\ left = [t \in Tokens |-> -1]
  /\ token \in [Visits -> Tokens]
  /\ verdict = [v \in Visits |-> "none"]

LeaseTick ==
  /\ left' = [t \in Tokens |-> Aged(left[t])]
  /\ UNCHANGED <<token, verdict>>

Issue(t) ==
  /\ ~Valid(t)
  /\ left' = [left EXCEPT ![t] = SessionDuration]
  /\ UNCHANGED <<token, verdict>>

Ask(v, t) ==
  /\ verdict[v] # "asking"
  /\ token' = [token EXCEPT ![v] = t]
  /\ verdict' = [verdict EXCEPT ![v] = "asking"]
  /\ UNCHANGED left

\* The answer is right at the instant it is given.
Answer(v) ==
  /\ verdict[v] = "asking"
  /\ verdict' = [verdict EXCEPT ![v] = IF Valid(token[v]) THEN "admitted" ELSE "refused"]
  /\ UNCHANGED <<left, token>>

LeaseNext ==
  \/ LeaseTick
  \/ \E t \in Tokens : Issue(t)
  \/ \E v \in Visits : Answer(v) \/ \E t \in Tokens : Ask(v, t)

LeaseSpec == LeaseInit /\ [][LeaseNext]_leaseVars
=============================================================================
