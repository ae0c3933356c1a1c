-------------------------- MODULE ConfigRateLimiter --------------------------
(***************************************************************************)
(* The limiter in front of configuration messages                          *)
(* (internal/server/rate_limit.go): a sliding window of one minute per     *)
(* client address.  Allow runs under a mutex and is one action.            *)
(*                                                                         *)
(* The time of a request is a tick of the clock, and several requests may  *)
(* fall on one tick, so an entry also carries its number.  The slice of    *)
(* entries is a set here: its order is never used.                         *)
(***************************************************************************)
EXTENDS Naturals, FiniteSets

CONSTANTS
  Addrs,       \* client addresses (the %p of the connection)
  maxPerMin,   \* ConfigRateLimiter.maxPerMin
  Minute       \* one minute, in ticks

ASSUME LimiterAssumption == maxPerMin \in Nat \ {0} /\ Minute \in Nat \ {0}

VARIABLES
  now,        \* the clock
  attempts,   \* per address: the entries kept
  accepted,   \* history: per address, every entry ever accepted
  served,     \* history: number of requests accepted so far, by any address
  refused     \* history: the last request refused, or nothing

vars == <<now, attempts, accepted, served, refused>>

Entries == [at : Nat, n : Nat]

TypeOK ==
  /\ now \in Nat /\ served \in Nat
  /\ attempts \in [Addrs -> SUBSET Entries]
  /\ \A a \in Addrs : Cardinality(attempts[a]) <= maxPerMin
  /\ accepted \in [Addrs -> SUBSET Entries]
  /\ refused \subseteq [addr : Addrs, at : Nat, n : Nat]

Init ==
  /\ now = 0 /\ served = 0
  /\ attempts = [a \in Addrs |-> {}]
  /\ accepted = [a \in Addrs |-> {}]
  /\ refused = {}

-----------------------------------------------------------------------------

\* Mutant of After: the window one tick longer.
AfterOrAt(t, d) == t + Minute >= d

\* t.After(cutoff), where cutoff is one minute before d.
After(t, d) == t + Minute > d

\* The entries of a request's own window, pruned of the older ones.
Recent(es, d) == {e \in es : After(e.at, d)}

\* Mutant of Accept: entries are never pruned.
AcceptUnpruned(a) ==
  /\ Cardinality(Recent(attempts[a], now)) < maxPerMin
  /\ attempts' = [attempts EXCEPT ![a] = @ \union {[at |-> now, n |-> served]}]
  /\ accepted' = [accepted EXCEPT ![a] = @ \union {[at |-> now, n |-> served]}]
  /\ served' = served + 1
  /\ UNCHANGED <<now, refused>>

\* Mutant of Accept: only the pruned entries are stored.
AcceptForgetful(a) ==
  /\ Cardinality(Recent(attempts[a], now)) < maxPerMin
  /\ attempts' = [attempts EXCEPT ![a] = Recent(attempts[a], now)]
  /\ accepted' = [accepted EXCEPT ![a] = @ \union {[at |-> now, n |-> served]}]
  /\ served' = served + 1
  /\ UNCHANGED <<now, refused>>

\* Allow returns true: the pruned entries and the new one are stored.
Accept(a) ==
  /\ Cardinality(Recent(attempts[a], now)) < maxPerMin
  /\ attempts' = [attempts EXCEPT
       ![a] = Recent(attempts[a], now) \union {[at |-> now, n |-> served]}]
  /\ accepted' = [accepted EXCEPT ![a] = @ \union {[at |-> now, n |-> served]}]
  /\ served' = served + 1
  /\ UNCHANGED <<now, refused>>

\* Allow returns false: it stores nothing, not even the pruning.
Refuse(a) ==
  /\ Cardinality(Recent(attempts[a], now)) >= maxPerMin
  /\ refused' = {[addr |-> a, at |-> now, n |-> served]}
  /\ UNCHANGED <<now, attempts, accepted, served>>

Allow(a) == Accept(a) \/ Refuse(a)

Tick ==
  /\ now' = now + 1
  /\ UNCHANGED <<attempts, accepted, served, refused>>

Next == Tick \/ \E a \in Addrs : Allow(a)

Spec == Init /\ [][Next]_vars

-----------------------------------------------------------------------------
(* Properties.                                                             *)

\* The accepted requests of the minute that ends with the request e, e among
\* them.
Window(a, e) == {f \in accepted[a] : f.n <= e.n /\ f.at + Minute > e.at}

\* No minute that ends with an accepted request contains more than maxPerMin
\* of them: pruning never forgets an entry that still counts.
WindowBounded ==
  \A a \in Addrs : \A e \in accepted[a] :
    Cardinality(Window(a, e)) <= maxPerMin

\* The same for every minute, wherever it begins.
AnyMinuteBounded ==
  \A a \in Addrs : \A t \in 0..now :
    Cardinality({f \in accepted[a] : t <= f.at /\ f.at < t + Minute}) <= maxPerMin

\* A request is refused only when maxPerMin requests really were accepted from
\* its address in the minute before: an entry never counts for longer, and
\* refused requests do not count.
RefusedForCause ==
  \A r \in refused :
    Cardinality({f \in accepted[r.addr] : f.n < r.n /\ f.at + Minute > r.at})
      >= maxPerMin

\* What is stored is exactly what can still count, since the last accepted
\* request of the address.
StoredIsRecent ==
  \A a \in Addrs :
    /\ attempts[a] \subseteq accepted[a]
    /\ \A e \in accepted[a] : e.at + Minute > now => e \in attempts[a]

\* Entries are numbered in the order of acceptance.
Numbered ==
  /\ \A a \in Addrs : \A e \in accepted[a] : e.n < served
  /\ \A r \in refused : r.n <= served

\* The inductive invariant: what is stored decides both properties.
LimiterInv ==
  /\ TypeOK
  /\ \A a \in Addrs : IsFiniteSet(attempts[a])
  /\ Numbered
  /\ StoredIsRecent
  /\ WindowBounded
  /\ RefusedForCause
=============================================================================
