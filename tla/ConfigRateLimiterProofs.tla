----------------------- MODULE ConfigRateLimiterProofs -----------------------
(***************************************************************************)
(* The rate limit, for any addresses, any limit and any window length.     *)
(*                                                                         *)
(* The argument: an address stores every accepted entry that can still     *)
(* count (StoredIsRecent), so the pruned slice Allow counts is exactly the *)
(* minute before the request; and an entry accepted later has a larger     *)
(* number, so it never enters the window of an earlier one.  A minute that *)
(* begins anywhere is part of the window of the last request accepted in   *)
(* it.                                                                     *)
(***************************************************************************)
EXTENDS ConfigRateLimiter, Integers, FiniteSetTheorems, WellFoundedInduction, TLAPS

\* What Allow counts is the minute before the request.
LEMMA RecentIsWindow ==
  ASSUME LimiterInv, NEW a \in Addrs
  PROVE  Recent(attempts[a], now) = {f \in accepted[a] : f.at + Minute > now}
BY DEF LimiterInv, StoredIsRecent, Recent, After

\* Pruning keeps the slice finite and within the limit.
LEMMA RecentSize ==
  ASSUME LimiterInv, NEW a \in Addrs
  PROVE  /\ IsFiniteSet(Recent(attempts[a], now))
         /\ Cardinality(Recent(attempts[a], now)) \in Nat
<1>1. Recent(attempts[a], now) \in SUBSET attempts[a]
  BY DEF Recent
<1>2. IsFiniteSet(attempts[a])
  BY DEF LimiterInv
<1>3. IsFiniteSet(Recent(attempts[a], now))
  BY <1>1, <1>2, FS_Subset
<1> QED BY <1>3, FS_CardinalityType

LEMMA InitLimiter == Init => LimiterInv
<1> SUFFICES ASSUME Init PROVE LimiterInv
  OBVIOUS
<1>1. TypeOK /\ \A a \in Addrs : IsFiniteSet(attempts[a])
  BY LimiterAssumption, FS_EmptySet DEF Init, TypeOK, Entries
<1> QED
  BY <1>1 DEF Init, LimiterInv, Numbered, StoredIsRecent, WindowBounded, RefusedForCause

-----------------------------------------------------------------------------
(* A request that is accepted.                                             *)

LEMMA AcceptStep ==
  ASSUME LimiterInv, NEW a \in Addrs, Accept(a)
  PROVE  LimiterInv'
<1> DEFINE new == [at |-> now, n |-> served]
<1> DEFINE kept == Recent(attempts[a], now)
<1> USE LimiterAssumption
<1>1. /\ attempts' = [attempts EXCEPT ![a] = kept \union {new}]
      /\ accepted' = [accepted EXCEPT ![a] = accepted[a] \union {new}]
      /\ served' = served + 1 /\ now' = now /\ refused' = refused
      /\ Cardinality(kept) < maxPerMin
  BY DEF Accept
<1>2. TypeOK /\ Numbered /\ StoredIsRecent /\ WindowBounded /\ RefusedForCause
  BY DEF LimiterInv
<1>3. new \in Entries /\ kept \subseteq attempts[a]
  BY <1>2 DEF TypeOK, Entries, Recent
<1>4. /\ attempts'[a] = kept \union {new}
      /\ accepted'[a] = accepted[a] \union {new}
      /\ \A b \in Addrs \ {a} : attempts'[b] = attempts[b] /\ accepted'[b] = accepted[b]
  BY <1>1, <1>2 DEF TypeOK
<1>5. new \notin accepted[a]
  BY <1>2 DEF Numbered, TypeOK
<1>6. /\ IsFiniteSet(kept \union {new})
      /\ Cardinality(kept \union {new}) <= maxPerMin
  <2>1. IsFiniteSet(kept) /\ Cardinality(kept) \in Nat
    BY RecentSize
  <2>2. /\ IsFiniteSet(kept \union {new})
        /\ Cardinality(kept \union {new}) = IF new \in kept THEN Cardinality(kept)
                                                         ELSE Cardinality(kept) + 1
    <3> HIDE DEF kept, new
    <3> QED BY <2>1, FS_AddElement
  <2>3. Cardinality(kept) < maxPerMin /\ maxPerMin \in Nat
    BY <1>1
  <2> HIDE DEF kept, new
  <2> QED BY <2>1, <2>2, <2>3
<1>7. TypeOK'
  <2>1. attempts' \in [Addrs -> SUBSET Entries]
    BY <1>1, <1>2, <1>3 DEF TypeOK
  <2>2. accepted' \in [Addrs -> SUBSET Entries]
    BY <1>1, <1>2, <1>3 DEF TypeOK
  <2>3. \A b \in Addrs : Cardinality(attempts'[b]) <= maxPerMin
    BY <1>2, <1>4, <1>6 DEF TypeOK
  <2>4. now' \in Nat /\ served' \in Nat /\ refused' \subseteq [addr : Addrs, at : Nat, n : Nat]
    BY <1>1, <1>2 DEF TypeOK
  <2> QED BY <2>1, <2>2, <2>3, <2>4 DEF TypeOK
<1>8. \A b \in Addrs : IsFiniteSet(attempts'[b])
  BY <1>4, <1>6 DEF LimiterInv
<1>9. Numbered'
  <2>1. \A b \in Addrs : \A e \in accepted'[b] : e.n < served + 1
    <3> SUFFICES ASSUME NEW b \in Addrs, NEW e \in accepted'[b]
                 PROVE  e.n < served + 1
      OBVIOUS
    <3>1. CASE e = new
      BY <3>1, <1>2 DEF TypeOK
    <3>2. CASE e # new
      <4>1. e \in accepted[b]
        BY <3>2, <1>4
      <4>2. e.n \in Nat /\ served \in Nat /\ e.n < served
        BY <4>1, <1>2 DEF TypeOK, Entries, Numbered
      <4> QED BY <4>2
    <3> QED BY <3>1, <3>2
  <2>2. \A r \in refused : r.n <= served + 1
    BY <1>2 DEF TypeOK, Numbered
  <2> QED BY <2>1, <2>2, <1>1 DEF Numbered
<1>10. StoredIsRecent'
  <2>1. \A e \in accepted[a] : e.at + Minute > now => e \in kept
    BY RecentIsWindow
  <2> QED BY <2>1, <1>1, <1>2, <1>3, <1>4 DEF StoredIsRecent
<1>11. WindowBounded'
  <2> SUFFICES ASSUME NEW b \in Addrs, NEW e \in accepted'[b]
               PROVE  Cardinality(Window(b, e)') <= maxPerMin
    BY DEF WindowBounded
  <2>1. CASE b = a /\ e = new
    \* The window of the new entry is what was kept, and the new entry.
    <3>1. Window(b, e)' = kept \union {new}
      <4>1. \A f \in accepted[a] : f.n <= served
        BY <1>2 DEF TypeOK, Entries, Numbered
      <4>2. new.n <= served /\ new.at + Minute > now
        BY <1>2 DEF TypeOK
      <4>3. kept = {f \in accepted[a] : f.at + Minute > now}
        BY RecentIsWindow
      <4> QED BY <2>1, <1>4, <4>1, <4>2, <4>3 DEF Window
    <3> QED BY <3>1, <1>6
  <2>2. CASE ~(b = a /\ e = new)
    \* The new entry has a larger number than an old one.
    <3>1. e \in accepted[b]
      BY <2>2, <1>4
    <3>2. ~(served <= e.n)
      BY <3>1, <1>2 DEF TypeOK, Entries, Numbered
    <3>3. Window(b, e)' = Window(b, e)
      BY <3>2, <1>4 DEF Window
    <3> QED BY <3>1, <3>3, <1>2 DEF WindowBounded
  <2> QED BY <2>1, <2>2
<1>12. RefusedForCause'
  <2> SUFFICES ASSUME NEW r \in refused
               PROVE  Cardinality({f \in accepted'[r.addr] : f.n < r.n /\ f.at + Minute > r.at})
                        >= maxPerMin
    BY <1>1 DEF RefusedForCause
  <2>1. r.addr \in Addrs /\ ~(served < r.n)
    BY <1>2 DEF TypeOK, Numbered
  <2>2. {f \in accepted'[r.addr] : f.n < r.n /\ f.at + Minute > r.at}
          = {f \in accepted[r.addr] : f.n < r.n /\ f.at + Minute > r.at}
    BY <2>1, <1>4
  <2> QED BY <2>2, <1>2 DEF RefusedForCause
<1> QED BY <1>7, <1>8, <1>9, <1>10, <1>11, <1>12 DEF LimiterInv

-----------------------------------------------------------------------------
(* A request that is refused, and the clock.                               *)

LEMMA RefuseStep ==
  ASSUME LimiterInv, NEW a \in Addrs, Refuse(a)
  PROVE  LimiterInv'
<1>1. /\ UNCHANGED <<now, attempts, accepted, served>>
      /\ refused' = {[addr |-> a, at |-> now, n |-> served]}
      /\ Cardinality(Recent(attempts[a], now)) >= maxPerMin
  BY DEF Refuse
<1>2. TypeOK' /\ Numbered'
  BY <1>1 DEF LimiterInv, TypeOK, Numbered
<1>3. RefusedForCause'
  <2>1. \A f \in accepted[a] : f.n < served
    BY DEF LimiterInv, Numbered
  <2>2. {f \in accepted[a] : f.n < served /\ f.at + Minute > now}
          = Recent(attempts[a], now)
    BY <2>1, RecentIsWindow
  <2> QED BY <1>1, <2>2 DEF RefusedForCause
<1>4. StoredIsRecent' /\ WindowBounded' /\ \A b \in Addrs : IsFiniteSet(attempts'[b])
  BY <1>1 DEF LimiterInv, StoredIsRecent, WindowBounded, Window
<1> QED BY <1>2, <1>3, <1>4 DEF LimiterInv

LEMMA TickStep == LimiterInv /\ Tick => LimiterInv'
<1> SUFFICES ASSUME LimiterInv, Tick PROVE LimiterInv'
  OBVIOUS
<1>1. now' = now + 1 /\ UNCHANGED <<attempts, accepted, served, refused>>
  BY DEF Tick
<1>2. TypeOK' /\ Numbered' /\ \A b \in Addrs : IsFiniteSet(attempts'[b])
  BY <1>1 DEF LimiterInv, TypeOK, Numbered
<1>3. StoredIsRecent'
  \* What can count after the tick could count before.
  <2>1. \A a \in Addrs : \A e \in accepted[a] : e.at + Minute > now + 1 => e.at + Minute > now
    BY LimiterAssumption DEF LimiterInv, TypeOK, Entries
  <2> QED BY <1>1, <2>1 DEF LimiterInv, StoredIsRecent
<1>4. WindowBounded' /\ RefusedForCause'
  BY <1>1 DEF LimiterInv, WindowBounded, Window, RefusedForCause
<1> QED BY <1>2, <1>3, <1>4 DEF LimiterInv

\* LimiterInv is inductive.
THEOREM LimiterInvariant == Spec => []LimiterInv
<1>1. LimiterInv /\ [Next]_vars => LimiterInv'
  <2> SUFFICES ASSUME LimiterInv, [Next]_vars PROVE LimiterInv'
    OBVIOUS
  <2>1. CASE Tick
    BY <2>1, TickStep
  <2>2. ASSUME NEW a \in Addrs, Allow(a) PROVE LimiterInv'
    BY <2>2, AcceptStep, RefuseStep DEF Allow
  <2>3. CASE UNCHANGED vars
    BY <2>3 DEF vars, LimiterInv, TypeOK, Numbered, StoredIsRecent, WindowBounded,
                Window, RefusedForCause
  <2> QED BY <2>1, <2>2, <2>3 DEF Next
<1> QED BY <1>1, InitLimiter, PTL DEF Spec

\* Every variable keeps its type, and no stored list outgrows the limit.
THEOREM LimiterTypes == Spec => []TypeOK
<1>1. LimiterInv => TypeOK
  BY DEF LimiterInv
<1> QED BY <1>1, LimiterInvariant, PTL

\* No minute holds more accepted requests of an address than the limit.
THEOREM LimitIsKept == Spec => []WindowBounded
<1>1. LimiterInv => WindowBounded
  BY DEF LimiterInv
<1> QED BY <1>1, LimiterInvariant, PTL

\* Nobody is refused without maxPerMin accepted requests in the minute before.
THEOREM RefusalIsJustified == Spec => []RefusedForCause
<1>1. LimiterInv => RefusedForCause
  BY DEF LimiterInv
<1> QED BY <1>1, LimiterInvariant, PTL

-----------------------------------------------------------------------------
(* Every minute, wherever it begins.                                       *)

\* A set of numbers below a bound has a greatest one: its distance from the
\* bound is the least.
LEMMA Greatest ==
  ASSUME NEW b \in Nat, NEW S \in SUBSET (0..b), S # {}
  PROVE  \E m \in S : \A k \in S : k <= m
<1> DEFINE R == {ss \in Nat \X Nat : ss[1] < ss[2]}
           D == {b - k : k \in S}
<1>1. IsWellFoundedOn(R, Nat)
  BY NatLessThanWellFounded DEF OpToRel
<1>2. D \in SUBSET Nat /\ D # {}
  OBVIOUS
<1>3. \E x \in D : \A y \in D : ~ (<<y, x>> \in R)
  BY <1>1, <1>2, WFMin
<1>4. PICK m \in S : \A y \in D : ~ (<<y, b - m>> \in R)
  BY <1>3
<1>5. ASSUME NEW k \in S PROVE k <= m
  <2>1. b - k \in Nat /\ b - m \in Nat /\ b - k \in D
    OBVIOUS
  <2>2. ~ (b - k < b - m)
    BY <1>4, <2>1
  <2> QED
    BY <2>2
<1> QED BY <1>5

\* What has been accepted is finite at any time.
AcceptedInv == \A a \in Addrs : IsFiniteSet(accepted[a])

LEMMA StepAccepted == LimiterInv /\ AcceptedInv /\ [Next]_vars => AcceptedInv'
<1> SUFFICES ASSUME LimiterInv, AcceptedInv, [Next]_vars PROVE AcceptedInv'
  OBVIOUS
<1> USE DEF AcceptedInv
<1>1. ASSUME NEW a \in Addrs, Accept(a) PROVE AcceptedInv'
  <2>1. accepted' = [accepted EXCEPT ![a] = accepted[a] \union {[at |-> now, n |-> served]}]
    BY <1>1 DEF Accept
  <2>2. IsFiniteSet(accepted[a] \union {[at |-> now, n |-> served]})
    BY FS_AddElement
  <2> QED BY <2>1, <2>2 DEF LimiterInv, TypeOK
<1>2. ASSUME NEW a \in Addrs, Refuse(a) PROVE AcceptedInv'
  BY <1>2 DEF Refuse
<1>3. CASE Tick
  BY <1>3 DEF Tick
<1>4. CASE UNCHANGED vars
  BY <1>4 DEF vars
<1> QED BY <1>1, <1>2, <1>3, <1>4 DEF Next, Allow

\* A minute's last accepted request has all of them in its own window.
LEMMA MinuteInWindow ==
  ASSUME LimiterInv, AcceptedInv, NEW a \in Addrs, NEW t \in Nat
  PROVE  Cardinality({f \in accepted[a] : t <= f.at /\ f.at < t + Minute}) <= maxPerMin
<1> DEFINE minute == {f \in accepted[a] : t <= f.at /\ f.at < t + Minute}
<1> SUFFICES Cardinality(minute) <= maxPerMin
  OBVIOUS
<1> USE LimiterAssumption
<1>1. /\ served \in Nat
      /\ \A f \in accepted[a] : f.at \in Nat /\ f.n \in Nat /\ f.n < served
  BY DEF LimiterInv, TypeOK, Entries, Numbered
<1>2. CASE minute = {}
  BY <1>2, FS_EmptySet
<1>3. CASE minute # {}
  <2> DEFINE numbers == {f.n : f \in minute}
  <2>1. numbers \in SUBSET (0..served) /\ numbers # {}
    BY <1>1, <1>3
  <2>2. \E m \in numbers : \A k \in numbers : k <= m
    <3> HIDE DEF numbers
    <3> QED BY <1>1, <2>1, Greatest
  <2>3. PICK e \in minute : \A f \in minute : f.n <= e.n
    BY <2>2
  <2>4. minute \in SUBSET Window(a, e)
    BY <1>1, <2>3 DEF Window
  <2>5. IsFiniteSet(Window(a, e)) /\ Cardinality(Window(a, e)) \in Nat
    <3>1. Window(a, e) \in SUBSET accepted[a]
      BY DEF Window
    <3>2. IsFiniteSet(Window(a, e))
      BY <3>1, FS_Subset DEF AcceptedInv
    <3> QED BY <3>2, FS_CardinalityType
  <2>6. IsFiniteSet(minute) /\ Cardinality(minute) <= Cardinality(Window(a, e))
    <3> HIDE DEF minute
    <3> QED BY <2>4, <2>5, FS_Subset
  <2>7. Cardinality(minute) \in Nat
    <3> HIDE DEF minute
    <3> QED BY <2>6, FS_CardinalityType
  <2>8. Cardinality(Window(a, e)) <= maxPerMin
    BY <2>3 DEF LimiterInv, WindowBounded
  <2> HIDE DEF minute
  <2> QED BY <2>5, <2>6, <2>7, <2>8
<1> QED BY <1>2, <1>3

\* No minute at all, with or without an accepted request at its end, holds more
\* accepted requests of an address than the limit.
THEOREM EveryMinuteIsBounded == Spec => []AnyMinuteBounded
<1>1. Init => AcceptedInv
  BY FS_EmptySet DEF Init, AcceptedInv
<1>2. LimiterInv /\ AcceptedInv => AnyMinuteBounded
  BY MinuteInWindow DEF AnyMinuteBounded
<1> QED BY <1>1, <1>2, StepAccepted, LimiterInvariant, PTL DEF Spec
=============================================================================
