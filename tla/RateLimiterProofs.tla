-------------------------- MODULE RateLimiterProofs --------------------------
(***************************************************************************)
(* What the limiter guarantees for every set of users, limit and window.   *)
(* Redis keeps two numbers for a user; the argument is that they tell all  *)
(* of the history that matters: the counter is the length of the burst the *)
(* user is in, and the expiry is one window after the last counted call.   *)
(***************************************************************************)
EXTENDS RateLimiter, TLAPS, FiniteSetTheorems, SequenceTheorems

Call == [user: Users, at: 0 .. MaxNow, outcome: Outcomes]

CountedOutcomes == {"allowed", "limited", "unanswered"}

(* The calls of a user that Redis counted since it last lost its keys.     *)
CountedOf(u) ==
  {j \in 1 .. Len(calls) : calls[j].user = u /\ calls[j].outcome \in CountedOutcomes}

(* Those after the last pause of a whole window.                           *)
Burst(u) ==
  {j \in CountedOf(u) :
     \A m \in CountedOf(u) :
       j < m => \E l \in CountedOf(u) :
                  j <= l /\ l < m /\ calls[m].at - calls[l].at < Window}

(* The history is in the order of the clock.                               *)
TimeOrdered ==
  /\ \A i, j \in 1 .. Len(calls) : i <= j => calls[i].at <= calls[j].at
  /\ \A i \in 1 .. Len(calls) : calls[i].at <= now

(* The two numbers of a key and the history.                               *)
KeyTellsBurst(u) ==
  /\ count[u] = Cardinality(Burst(u))
  /\ CountedOf(u) = {} => expiresAt[u] = 0
  /\ CountedOf(u) # {} =>
       \E j \in CountedOf(u) :
         /\ \A m \in CountedOf(u) : m <= j
         /\ expiresAt[u] = calls[j].at + Window

(* Neither promise is inductive by itself: both follow from the keys.      *)
IInv ==
  /\ TypeOK
  /\ TimeOrdered
  /\ \A u \in Users : KeyTellsBurst(u)
  /\ AtMostLimitPerWindow
  /\ RefusedInOneBurst

-----------------------------------------------------------------------------
(* A call is appended to the history and changes nothing of what is there. *)
LEMMA Appended ==
  ASSUME TypeOK, NEW u \in Users, NEW o \in Outcomes, Decided(u, o)
  PROVE  LET n == Len(calls) + 1
         IN  /\ n \in 1 .. MaxCalls /\ Len(calls') = n
             /\ calls' \in Seq(Call)
             /\ \A i \in 1 .. Len(calls) : calls'[i] = calls[i]
             /\ calls'[n].user = u /\ calls'[n].at = now /\ calls'[n].outcome = o
<1> DEFINE c == [user |-> u, at |-> now, outcome |-> o]
<1>1. c \in Call /\ c.user = u /\ c.at = now /\ c.outcome = o
  BY DEF TypeOK, Call
<1>2. calls \in Seq(Call) /\ Len(calls) \in Nat
  BY LenProperties DEF TypeOK, Call
<1>3. calls' = Append(calls, c) /\ Len(calls) < MaxCalls
  BY DEF Decided
<1> HIDE DEF c
<1>4. /\ Append(calls, c) \in Seq(Call)
      /\ Len(Append(calls, c)) = Len(calls) + 1
      /\ \A i \in 1 .. Len(calls) : Append(calls, c)[i] = calls[i]
      /\ Append(calls, c)[Len(calls) + 1] = c
  BY <1>1, <1>2, AppendProperties
<1> QED
  BY <1>1, <1>2, <1>3, <1>4, LimiterAssumption

(* The history as a sequence of typed calls.                               *)
LEMMA CallsTyped ==
  ASSUME TypeOK
  PROVE  /\ Len(calls) \in Nat
         /\ DOMAIN calls = 1 .. Len(calls)
         /\ now \in Int
         /\ \A i \in 1 .. Len(calls) :
              /\ calls[i].user \in Users /\ calls[i].at \in Int
              /\ calls[i].at \in 0 .. MaxNow
              /\ calls[i].outcome \in Outcomes
<1>1. calls \in Seq(Call) /\ now \in 0 .. MaxNow
  BY DEF TypeOK, Call
<1>2. Len(calls) \in Nat /\ DOMAIN calls = 1 .. Len(calls)
  BY <1>1, LenProperties
<1>3. \A i \in 1 .. Len(calls) : calls[i] \in Call
  BY <1>1, ElementOfSeq
<1> QED
  BY <1>1, <1>2, <1>3 DEF Call

(* A burst is a finite set, no larger than the history.                    *)
LEMMA BurstIsFinite ==
  ASSUME Len(calls) \in Nat, NEW u
  PROVE  /\ IsFiniteSet(Burst(u))
         /\ Cardinality(Burst(u)) \in 0 .. Len(calls)
<1>1. Burst(u) \in SUBSET (1 .. Len(calls))
  BY DEF Burst, CountedOf
<1>2. IsFiniteSet(1 .. Len(calls)) /\ Cardinality(1 .. Len(calls)) = Len(calls)
  <2>1. PICK n : n = Len(calls) /\ n \in Nat
    OBVIOUS
  <2>2. n \in Int /\ 1 \in Int
    BY <2>1
  <2>3. IsFiniteSet(1 .. n) /\ Cardinality(1 .. n) = IF 1 > n THEN 0 ELSE n - 1 + 1
    BY <2>2, FS_Interval
  <2>4. (IF 1 > n THEN 0 ELSE n - 1 + 1) = n
    BY <2>1
  <2> QED
    BY <2>1, <2>3, <2>4
<1>3. IsFiniteSet(Burst(u)) /\ Cardinality(Burst(u)) <= Len(calls)
  BY <1>1, <1>2, FS_Subset
<1> QED
  BY <1>3, FS_CardinalityType

(* A call that is not counted leaves every burst as it is.                 *)
LEMMA UncountedCall ==
  ASSUME TypeOK, NEW u \in Users, NEW o \in Outcomes \ CountedOutcomes,
         Decided(u, o), NEW v
  PROVE  CountedOf(v)' = CountedOf(v) /\ Burst(v)' = Burst(v)
<1>1. CountedOf(v)' = CountedOf(v)
  BY Appended, CallsTyped DEF CountedOf
<1>2. \A j \in CountedOf(v) : calls'[j] = calls[j]
  BY Appended DEF CountedOf
<1> QED
  BY <1>1, <1>2 DEF Burst

(* Another user's call does too.                                           *)
LEMMA CallOfAnother ==
  ASSUME TypeOK, NEW u \in Users, NEW o \in Outcomes, Decided(u, o),
         NEW v, v # u
  PROVE  CountedOf(v)' = CountedOf(v) /\ Burst(v)' = Burst(v)
<1>1. CountedOf(v)' = CountedOf(v)
  BY Appended, CallsTyped DEF CountedOf
<1>2. \A j \in CountedOf(v) : calls'[j] = calls[j]
  BY Appended DEF CountedOf
<1> QED
  BY <1>1, <1>2 DEF Burst

(* A counted call joins the burst of its user while the key lives, and     *)
(* begins one after it expired.                                            *)
LEMMA CountedCall ==
  ASSUME TypeOK, TimeOrdered, NEW u \in Users, KeyTellsBurst(u),
         NEW o \in CountedOutcomes, Decided(u, o)
  PROVE  LET n == Len(calls) + 1
         IN  /\ CountedOf(u)' = CountedOf(u) \cup {n}
             /\ Burst(u)' = IF now < expiresAt[u] THEN Burst(u) \cup {n} ELSE {n}
<1> DEFINE n == Len(calls) + 1
           old == CountedOf(u)
<1>1. /\ Len(calls) \in Nat /\ Len(calls') = n
      /\ \A i \in 1 .. Len(calls) : calls'[i] = calls[i] /\ calls[i].at \in Int
      /\ calls'[n].user = u /\ calls'[n].at = now /\ calls'[n].outcome = o
      /\ now \in Int
  <2>1. o \in Outcomes
    BY DEF Outcomes, CountedOutcomes
  <2> QED
    BY <2>1, Appended, CallsTyped
<1>2. CountedOf(u)' = old \cup {n}
  BY <1>1 DEF CountedOf
<1>3. old \subseteq 1 .. Len(calls) /\ Window \in Int
  BY LimiterAssumption DEF CountedOf
<1>4. \A j \in old : calls'[j].at = calls[j].at /\ calls[j].at \in Int /\ j \in Nat /\ j < n
  BY <1>1, <1>3
<1>5. n \in Burst(u)'
  BY <1>1, <1>2, <1>4 DEF Burst
<1>6. CASE now < expiresAt[u]
  <2>1. PICK last \in old :
          /\ \A m \in old : m <= last
          /\ now - calls[last].at < Window
    <3>1. old # {}
      BY <1>6, LimiterAssumption DEF KeyTellsBurst, TypeOK
    <3>2. PICK last \in old : /\ \A m \in old : m <= last
                              /\ expiresAt[u] = calls[last].at + Window
      BY <3>1 DEF KeyTellsBurst
    <3> QED
      BY <1>1, <1>3, <1>4, <1>6, <3>2
  <2>2. ASSUME NEW j \in Burst(u)
        PROVE  j \in Burst(u)'
    <3>1. j \in old
      BY DEF Burst
    <3> SUFFICES ASSUME NEW m \in old \cup {n}, j < m
                 PROVE  \E l \in old \cup {n} :
                          j <= l /\ l < m /\ calls'[m].at - calls'[l].at < Window
      BY <1>2, <3>1 DEF Burst
    <3>2. CASE m = n
      BY <1>1, <1>4, <2>1, <3>1, <3>2
    <3>3. CASE m \in old
      BY <1>4, <3>3 DEF Burst
    <3> QED
      BY <3>2, <3>3
  <2>3. ASSUME NEW j \in Burst(u)', j # n
        PROVE  j \in Burst(u)
    <3>1. j \in old
      BY <1>2, <2>3 DEF Burst
    <3> SUFFICES ASSUME NEW m \in old, j < m
                 PROVE  \E l \in old :
                          j <= l /\ l < m /\ calls[m].at - calls[l].at < Window
      BY <3>1 DEF Burst
    <3>2. PICK l \in old \cup {n} :
            j <= l /\ l < m /\ calls'[m].at - calls'[l].at < Window
      BY <1>2 DEF Burst
    <3>3. l \in old
      BY <1>4, <1>1, <3>2
    <3> QED
      BY <1>4, <3>2, <3>3
  <2> QED
    BY <1>2, <1>5, <1>6, <2>2, <2>3
<1>7. CASE ~(now < expiresAt[u])
  <2>1. \A l \in old : ~(now - calls[l].at < Window)
    <3> SUFFICES ASSUME NEW l \in old
                 PROVE  now - calls[l].at >= Window
      BY <1>1, <1>3, <1>4
    <3>1. PICK last \in old : /\ \A m \in old : m <= last
                              /\ expiresAt[u] = calls[last].at + Window
      BY DEF KeyTellsBurst
    <3>2. calls[l].at <= calls[last].at
      BY <1>3, <3>1 DEF TimeOrdered
    <3> QED
      BY <1>1, <1>3, <1>4, <1>7, <3>1, <3>2
  <2>2. ASSUME NEW j \in Burst(u)', j # n
        PROVE  FALSE
    <3>1. j \in old
      BY <1>2, <2>2 DEF Burst
    <3>2. PICK l \in old \cup {n} :
            j <= l /\ l < n /\ calls'[n].at - calls'[l].at < Window
      BY <1>2, <1>4, <3>1 DEF Burst
    <3>3. l \in old
      BY <1>1, <3>2
    <3> QED
      BY <1>1, <1>4, <2>1, <3>2, <3>3
  <2>3. Burst(u)' = {n}
    <3> HIDE DEF n
    <3> QED
      BY <1>5, <2>2
  <2> QED
    BY <1>2, <1>7, <2>3
<1> QED
  BY <1>2, <1>6, <1>7

(* What INCR answers is the length of the burst with this call.            *)
LEMMA IncrementedIsBurst ==
  ASSUME TypeOK, TimeOrdered, NEW u \in Users, KeyTellsBurst(u),
         NEW o \in CountedOutcomes, Decided(u, o)
  PROVE  /\ IsFiniteSet(Burst(u)')
         /\ Incremented(u) = Cardinality(Burst(u)')
         /\ Incremented(u) \in Nat /\ Incremented(u) <= Len(calls')
         /\ Cardinality(Burst(u)' \ {Len(calls')}) = Incremented(u) - 1
<1> DEFINE n == Len(calls) + 1
<1>1. Len(calls) \in Nat /\ Len(calls') = n
  <2>1. o \in Outcomes
    BY DEF Outcomes, CountedOutcomes
  <2> QED
    BY <2>1, Appended, CallsTyped
<1>2. /\ IsFiniteSet(Burst(u)) /\ Cardinality(Burst(u)) \in 0 .. Len(calls)
      /\ n \notin Burst(u)
  <2>1. n \notin CountedOf(u)
    BY <1>1 DEF CountedOf
  <2>2. n \notin Burst(u)
    BY <2>1 DEF Burst
  <2> QED
    BY <1>1, <2>2, BurstIsFinite
<1>3. Burst(u)' = IF now < expiresAt[u] THEN Burst(u) \cup {n} ELSE {n}
  BY CountedCall
<1>4. Incremented(u) = (IF now < expiresAt[u] THEN Cardinality(Burst(u)) ELSE 0) + 1
  BY DEF Incremented, KeyTellsBurst
<1> HIDE DEF n
<1>5. /\ IsFiniteSet(Burst(u) \cup {n})
      /\ Cardinality(Burst(u) \cup {n}) = Cardinality(Burst(u)) + 1
  BY <1>2, FS_AddElement
<1>6. IsFiniteSet({n}) /\ Cardinality({n}) = 1 /\ Cardinality({}) = 0
  BY FS_Singleton, FS_EmptySet
<1>7. CASE now < expiresAt[u]
  <2>1. Burst(u)' \ {n} = Burst(u)
    BY <1>2, <1>3, <1>7
  <2>2. n = Len(calls) + 1
    BY DEF n
  <2>3. /\ Incremented(u) = Cardinality(Burst(u)) + 1
        /\ Cardinality(Burst(u)') = Cardinality(Burst(u)) + 1
        /\ IsFiniteSet(Burst(u)')
    BY <1>3, <1>4, <1>5, <1>7
  <2>4. Cardinality(Burst(u)' \ {Len(calls')}) = Cardinality(Burst(u))
    BY <1>1, <2>1
  <2> QED
    BY <1>1, <1>2, <2>2, <2>3, <2>4
<1>8. CASE ~(now < expiresAt[u])
  <2>1. Burst(u)' \ {n} = {}
    BY <1>3, <1>8
  <2>2. n = Len(calls) + 1
    BY DEF n
  <2>3. Incremented(u) = 1 /\ Cardinality(Burst(u)') = 1 /\ IsFiniteSet(Burst(u)')
    BY <1>3, <1>4, <1>6, <1>8
  <2>4. Cardinality(Burst(u)' \ {Len(calls')}) = 0
    BY <1>1, <1>6, <2>1
  <2> QED
    BY <1>1, <2>2, <2>3, <2>4
<1> QED
  BY <1>7, <1>8

(* What was said of earlier calls stays said.                              *)
LEMMA HistoryKept ==
  ASSUME TypeOK, NEW u \in Users, NEW o \in Outcomes, Decided(u, o),
         NEW i \in 1 .. Len(calls)
  PROVE  /\ Counted(i)' = Counted(i)
         /\ Counted(i) \subseteq 1 .. Len(calls)
         /\ \A j \in Counted(i) : NoPause(j, i)' = NoPause(j, i)
<1>1. \A j \in 1 .. Len(calls) : calls'[j] = calls[j]
  BY Appended
<1>2. Len(calls) \in Nat
  BY CallsTyped
<1>3. \A j \in 1 .. i : j \in 1 .. Len(calls)
  BY <1>2
<1>4. Counted(i)' = Counted(i) /\ Counted(i) \subseteq 1 .. Len(calls)
  BY <1>1, <1>3 DEF Counted
<1> QED
  BY <1>1, <1>4 DEF NoPause

(* The calls the new one is counted with are its user's, and those it      *)
(* follows without a pause are the burst it found.                         *)
LEMMA NewestCall ==
  ASSUME TypeOK, NEW u \in Users, NEW o \in CountedOutcomes, Decided(u, o),
         NEW n, n = Len(calls) + 1
  PROVE  /\ Counted(n)' = CountedOf(u)'
         /\ {j \in Counted(n)' \ {n} : NoPause(j, n)'} = Burst(u)' \ {n}
<1>1. Len(calls') = n /\ calls'[n].user = u
  <2>1. o \in Outcomes
    BY DEF Outcomes, CountedOutcomes
  <2> QED
    BY <2>1, Appended
<1>2. Counted(n)' = CountedOf(u)'
  BY <1>1 DEF Counted, CountedOf, CountedOutcomes
<1>3. \A j \in Counted(n)' : NoPause(j, n)' <=> j \in Burst(u)'
  BY <1>2 DEF NoPause, Burst
<1>4. Burst(u)' \subseteq Counted(n)'
  BY <1>2 DEF Burst
<1> QED
  BY <1>2, <1>3, <1>4

-----------------------------------------------------------------------------
(* The clock only moves forward, so a call appended now is the latest.     *)
LEMMA TimeStep ==
  ASSUME TypeOK, TimeOrdered, [Next]_vars
  PROVE  TimeOrdered'
<1>1. ASSUME NEW u \in Users, NEW o \in Outcomes, Decided(u, o)
      PROVE  TimeOrdered'
  <2> DEFINE n == Len(calls) + 1
  <2>1. /\ Len(calls) \in Nat /\ Len(calls') = n /\ now' = now
        /\ \A i \in 1 .. Len(calls) : calls'[i] = calls[i] /\ calls[i].at \in Int
        /\ calls'[n].at = now /\ now \in Int
    BY <1>1, Appended, CallsTyped DEF Decided
  <2>2. \A i \in 1 .. n : i \in 1 .. Len(calls) \/ i = n
    BY <2>1
  <2> HIDE DEF n
  <2>3. \A i \in 1 .. n : calls'[i].at <= now
    BY <2>1, <2>2 DEF TimeOrdered
  <2>4. ASSUME NEW i \in 1 .. n, NEW j \in 1 .. n, i <= j
        PROVE  calls'[i].at <= calls'[j].at
    <3>1. CASE j = n
      BY <2>1, <2>3, <3>1
    <3>2. CASE i \in 1 .. Len(calls) /\ j \in 1 .. Len(calls)
      BY <2>1, <2>4, <3>2 DEF TimeOrdered
    <3>3. CASE i = n /\ j \in 1 .. Len(calls)
      BY <2>1, <2>4, <3>3 DEF n
    <3> QED
      BY <2>2, <3>1, <3>2, <3>3
  <2> QED
    BY <2>1, <2>3, <2>4 DEF TimeOrdered
<1>2. CASE RedisRestart
  BY <1>2 DEF RedisRestart, TimeOrdered
<1>3. CASE Tick
  BY <1>3, CallsTyped DEF Tick, TimeOrdered
<1>4. CASE UNCHANGED vars
  BY <1>4 DEF vars, TimeOrdered
<1>5. ASSUME NEW u \in Users, Allow(u) \/ AllowOnError(u) \/ AllowOff(u)
      PROVE  \E o \in Outcomes : Decided(u, o)
  BY <1>5 DEF Allow, AllowOnError, AllowOff, Outcomes
<1> QED
  BY <1>1, <1>2, <1>3, <1>4, <1>5 DEF Next

(* A counted call moves its user's key along with the burst.               *)
LEMMA HitStep ==
  ASSUME TypeOK, TimeOrdered, \A v \in Users : KeyTellsBurst(v),
         NEW u \in Users, NEW o \in CountedOutcomes, Hit(u), Decided(u, o)
  PROVE  TypeOK' /\ \A v \in Users : KeyTellsBurst(v)'
<1> DEFINE n == Len(calls) + 1
<1>1. o \in Outcomes
  BY DEF Outcomes, CountedOutcomes
<1>2. /\ Len(calls) \in Nat /\ Len(calls') = n /\ n \in 1 .. MaxCalls
      /\ \A i \in 1 .. Len(calls) : calls'[i] = calls[i]
      /\ calls'[n].at = now /\ now \in Int
  BY <1>1, Appended, CallsTyped
<1>3. /\ Incremented(u) = Cardinality(Burst(u)')
      /\ Incremented(u) \in Nat /\ Incremented(u) <= Len(calls')
  BY IncrementedIsBurst
<1>4. /\ count' = [count EXCEPT ![u] = Incremented(u)]
      /\ expiresAt' = [expiresAt EXCEPT ![u] = now + Window]
  BY DEF Hit
<1>5. TypeOK'
  <2>1. calls' \in Seq([user: Users, at: 0 .. MaxNow, outcome: Outcomes])
    BY <1>1, Appended DEF Call
  <2>2. Incremented(u) \in 0 .. MaxCalls
    BY <1>2, <1>3, LimiterAssumption
  <2>3. now + Window \in 0 .. MaxNow + Window
    BY LimiterAssumption DEF TypeOK
  <2>4. limit' \in Limits /\ now' \in 0 .. MaxNow
    BY DEF TypeOK, Decided
  <2>5. Len(calls') <= MaxCalls
    BY <1>2, LimiterAssumption
  <2> QED
    BY <1>4, <2>1, <2>2, <2>3, <2>4, <2>5 DEF TypeOK
<1>6. KeyTellsBurst(u)'
  <2>1. count'[u] = Cardinality(Burst(u)') /\ expiresAt'[u] = now + Window
    BY <1>3, <1>4 DEF TypeOK
  <2>2. CountedOf(u)' = CountedOf(u) \cup {n}
    BY CountedCall
  <2>3. \A m \in CountedOf(u)' : m <= n
    BY <1>2, <2>2 DEF CountedOf
  <2>4. n \in CountedOf(u)' /\ expiresAt'[u] = calls'[n].at + Window
    BY <1>2, <2>1, <2>2
  <2> HIDE DEF n
  <2> QED
    BY <2>1, <2>3, <2>4 DEF KeyTellsBurst
<1>7. ASSUME NEW v \in Users, v # u
      PROVE  KeyTellsBurst(v)'
  <2>1. CountedOf(v)' = CountedOf(v) /\ Burst(v)' = Burst(v)
    BY <1>1, <1>7, CallOfAnother
  <2>2. count'[v] = count[v] /\ expiresAt'[v] = expiresAt[v]
    BY <1>4, <1>7 DEF TypeOK
  <2>3. \A j \in CountedOf(v) : calls'[j] = calls[j]
    BY <1>2 DEF CountedOf
  <2>4. KeyTellsBurst(v)
    OBVIOUS
  <2> QED
    BY <2>1, <2>2, <2>3, <2>4 DEF KeyTellsBurst
<1> QED
  BY <1>5, <1>6, <1>7

(* A call Redis does not see moves no key.                                 *)
LEMMA UncountedStep ==
  ASSUME TypeOK, \A v \in Users : KeyTellsBurst(v),
         NEW u \in Users, NEW o \in Outcomes \ CountedOutcomes,
         UNCHANGED <<count, expiresAt>>, Decided(u, o)
  PROVE  TypeOK' /\ \A v \in Users : KeyTellsBurst(v)'
<1>1. \A i \in 1 .. Len(calls) : calls'[i] = calls[i]
  BY Appended
<1>2. TypeOK'
  <2>1. calls' \in Seq([user: Users, at: 0 .. MaxNow, outcome: Outcomes])
    BY Appended DEF Call
  <2>2. Len(calls') <= MaxCalls
    BY Appended, LimiterAssumption
  <2> QED
    BY <2>1, <2>2 DEF TypeOK, Decided
<1>3. ASSUME NEW v \in Users
      PROVE  KeyTellsBurst(v)'
  <2>1. CountedOf(v)' = CountedOf(v) /\ Burst(v)' = Burst(v)
    BY UncountedCall
  <2>2. \A j \in CountedOf(v) : calls'[j] = calls[j]
    BY <1>1 DEF CountedOf
  <2>3. KeyTellsBurst(v)
    OBVIOUS
  <2> QED
    BY <2>1, <2>2, <2>3 DEF KeyTellsBurst
<1> QED
  BY <1>2, <1>3

(* The key decides what the limiter promises: the calls of a user allowed  *)
(* within a window of the new one are all in its burst.                    *)
LEMMA AtMostLimitStep ==
  ASSUME TypeOK, TimeOrdered, AtMostLimitPerWindow,
         NEW u \in Users, KeyTellsBurst(u), NEW o \in Outcomes, Decided(u, o),
         o = "allowed" => Incremented(u) <= limit
  PROVE  AtMostLimitPerWindow'
<1> DEFINE n == Len(calls) + 1
           Near(i) == {j \in Counted(i) \cap With("allowed") :
                         calls[i].at - calls[j].at < Window}
<1>1. /\ Len(calls) \in Nat /\ Len(calls') = n /\ n \in Nat /\ limit' = limit
      /\ DOMAIN calls' = 1 .. n /\ DOMAIN calls = 1 .. Len(calls)
      /\ \A i \in 1 .. Len(calls) : calls'[i] = calls[i] /\ calls[i].at \in Int
      /\ calls'[n].at = now /\ calls'[n].outcome = o /\ now \in Int
      /\ limit \in Int
  <2>1. calls' \in Seq(Call)
    BY Appended
  <2>2. DOMAIN calls' = 1 .. Len(calls')
    BY <2>1, LenProperties
  <2>3. limit \in Int
    BY LimiterAssumption DEF TypeOK
  <2> QED
    BY <2>2, <2>3, Appended, CallsTyped DEF Decided
<1>2. SUFFICES ASSUME NEW i \in 1 .. n, calls'[i].outcome = "allowed"
               PROVE  Cardinality(Near(i)') <= limit
  BY <1>1 DEF AtMostLimitPerWindow, With
<1>3. CASE i \in 1 .. Len(calls)
  <2>1. Counted(i)' = Counted(i) /\ Counted(i) \subseteq 1 .. Len(calls)
    BY <1>3, HistoryKept
  <2>2. Near(i)' = Near(i)
    BY <1>1, <1>3, <2>1 DEF With
  <2>3. i \in With("allowed")
    BY <1>1, <1>2, <1>3 DEF With
  <2> QED
    BY <2>2, <2>3 DEF AtMostLimitPerWindow
<1>4. CASE i = n
  <2>1. o = "allowed" /\ o \in CountedOutcomes
    BY <1>1, <1>2, <1>4 DEF CountedOutcomes
  <2>2. Counted(i)' = CountedOf(u)'
    BY <1>4, <2>1, NewestCall
  <2>3. CountedOf(u)' \subseteq 1 .. n
    BY <1>1 DEF CountedOf
  <2>4. \A m \in 1 .. n : calls'[m].at \in Int /\ calls'[m].at <= now
    BY <1>1 DEF TimeOrdered
  <2>5. ASSUME NEW j \in Near(i)'
        PROVE  j \in Burst(u)'
    <3>1. j \in CountedOf(u)' /\ now - calls'[j].at < Window
      BY <1>1, <1>4, <2>2
    <3>2. ASSUME NEW m \in CountedOf(u)', j < m
          PROVE  \E l \in CountedOf(u)' :
                   j <= l /\ l < m /\ calls'[m].at - calls'[l].at < Window
      <4>1. j \in 1 .. n /\ m \in 1 .. n
        BY <2>3, <3>1
      <4>2. calls'[m].at - calls'[j].at < Window /\ j \in Nat
        BY <1>1, <2>4, <3>1, <4>1, LimiterAssumption
      <4> QED
        BY <3>1, <3>2, <4>2
    <3> QED
      BY <3>1, <3>2 DEF Burst
  <2>6. /\ IsFiniteSet(Burst(u)') /\ Cardinality(Burst(u)') = Incremented(u)
        /\ Incremented(u) \in Nat
    BY <2>1, IncrementedIsBurst
  <2>7. Near(i)' \in SUBSET Burst(u)'
    BY <2>5
  <2> HIDE DEF Near
  <2>8. IsFiniteSet(Near(i)') /\ Cardinality(Near(i)') <= Cardinality(Burst(u)')
    BY <2>6, <2>7, FS_Subset
  <2>9. Cardinality(Near(i)') \in Int
    BY <2>8, FS_CardinalityType
  <2> QED
    BY <1>1, <2>1, <2>6, <2>8, <2>9
<1> QED
  BY <1>1, <1>3, <1>4

(* And it decides by the burst alone.                                      *)
LEMMA RefusedStep ==
  ASSUME TypeOK, TimeOrdered, RefusedInOneBurst,
         NEW u \in Users, KeyTellsBurst(u), NEW o \in Outcomes, Decided(u, o),
         o \in {"allowed", "limited"} =>
           limit > 0 /\ (o = "limited" <=> Incremented(u) > limit),
         o = "off" => ~(limit > 0)
  PROVE  RefusedInOneBurst'
<1> DEFINE n == Len(calls) + 1
           Before(i) == {j \in Counted(i) \ {i} : NoPause(j, i)}
           Judged == With("limited") \cup With("allowed") \cup With("off")
<1>1. /\ Len(calls) \in Nat /\ Len(calls') = n /\ limit' = limit
      /\ DOMAIN calls' = 1 .. n /\ DOMAIN calls = 1 .. Len(calls)
      /\ \A i \in 1 .. Len(calls) : calls'[i] = calls[i]
      /\ calls'[n].outcome = o /\ limit \in Int
  <2>1. calls' \in Seq(Call)
    BY Appended
  <2>2. DOMAIN calls' = 1 .. Len(calls')
    BY <2>1, LenProperties
  <2>3. limit \in Int
    BY LimiterAssumption DEF TypeOK
  <2> QED
    BY <2>2, <2>3, Appended, CallsTyped DEF Decided
<1>2. SUFFICES ASSUME NEW i \in 1 .. n,
                      calls'[i].outcome \in {"limited", "allowed", "off"}
               PROVE  calls'[i].outcome = "limited" <=>
                        limit > 0 /\ Cardinality(Before(i)') >= limit
  BY <1>1 DEF RefusedInOneBurst, With
<1>3. CASE i \in 1 .. Len(calls)
  <2>1. /\ Counted(i)' = Counted(i)
        /\ \A j \in Counted(i) : NoPause(j, i)' = NoPause(j, i)
    BY <1>3, HistoryKept
  <2>2. Before(i)' = Before(i)
    BY <2>1
  <2>3. i \in Judged /\ calls'[i] = calls[i]
    BY <1>1, <1>2, <1>3 DEF With
  <2> QED
    BY <2>2, <2>3 DEF RefusedInOneBurst
<1>4. CASE i = n /\ o \in {"allowed", "limited"}
  <2>1. o \in CountedOutcomes
    BY <1>4 DEF CountedOutcomes
  <2>2. Before(i)' = Burst(u)' \ {i}
    BY <1>4, <2>1, NewestCall
  <2>3. /\ Incremented(u) \in Nat
        /\ Cardinality(Burst(u)' \ {Len(calls')}) = Incremented(u) - 1
    BY <2>1, IncrementedIsBurst
  <2>4. Cardinality(Before(i)') = Incremented(u) - 1
    BY <1>1, <1>4, <2>2, <2>3
  <2> HIDE DEF Before
  <2> QED
    BY <1>1, <1>4, <2>3, <2>4
<1>5. CASE i = n /\ o = "off"
  BY <1>1, <1>5
<1> QED
  BY <1>1, <1>2, <1>3, <1>4, <1>5

-----------------------------------------------------------------------------
(* As the server starts, and as Redis leaves it when it restarts.          *)
NothingYet ==
  /\ calls = <<>>
  /\ count = [u \in Users |-> 0]
  /\ expiresAt = [u \in Users |-> 0]
  /\ limit \in Limits
  /\ now \in 0 .. MaxNow

(* Without calls the keys are absent and nothing has been promised.        *)
LEMMA NoCalls == NothingYet => IInv
<1> SUFFICES ASSUME NothingYet PROVE IInv
  OBVIOUS
<1> USE DEF NothingYet
<1>1. Len(calls) = 0 /\ DOMAIN calls = {}
  OBVIOUS
<1>2. TypeOK
  BY <1>1, LimiterAssumption DEF TypeOK
<1>3. TimeOrdered /\ AtMostLimitPerWindow /\ RefusedInOneBurst
  BY <1>1 DEF TimeOrdered, AtMostLimitPerWindow, RefusedInOneBurst, With
<1>4. ASSUME NEW u \in Users
      PROVE  KeyTellsBurst(u)
  <2>1. CountedOf(u) = {}
    BY <1>1 DEF CountedOf
  <2>2. Burst(u) = {}
    BY <2>1 DEF Burst
  <2> QED
    BY <2>1, <2>2, FS_EmptySet DEF KeyTellsBurst
<1> QED
  BY <1>2, <1>3, <1>4 DEF IInv

(* Every step keeps the numbers of the keys and the history together.      *)
LEMMA IInvStep == IInv /\ [Next]_vars => IInv'
<1> SUFFICES ASSUME IInv, [Next]_vars
             PROVE  IInv'
  OBVIOUS
<1>1. /\ TypeOK /\ TimeOrdered /\ \A u \in Users : KeyTellsBurst(u)
      /\ AtMostLimitPerWindow /\ RefusedInOneBurst
  BY DEF IInv
<1>2. TimeOrdered'
  BY <1>1, TimeStep
<1>3. ASSUME NEW u \in Users, Allow(u)
      PROVE  IInv'
  <2>1. PICK o \in {"allowed", "limited"} :
          /\ Decided(u, o)
          /\ o = "allowed" <=> Incremented(u) <= limit
    BY <1>3 DEF Allow
  <2>2. o \in CountedOutcomes /\ o \in Outcomes /\ o # "off"
    BY DEF CountedOutcomes, Outcomes
  <2>3. limit > 0 /\ Hit(u) /\ KeyTellsBurst(u)
    BY <1>1, <1>3 DEF Allow
  <2>4. Incremented(u) \in Nat /\ limit \in Int
    <3>1. limit \in Int
      BY <1>1, LimiterAssumption DEF TypeOK
    <3> QED
      BY <1>1, <2>1, <2>2, <2>3, <3>1, IncrementedIsBurst
  <2>5. o = "limited" <=> Incremented(u) > limit
    BY <2>1, <2>4
  <2>6. TypeOK' /\ \A v \in Users : KeyTellsBurst(v)'
    BY <1>1, <2>1, <2>2, <2>3, HitStep
  <2>7. AtMostLimitPerWindow'
    BY <1>1, <2>1, <2>2, <2>3, AtMostLimitStep
  <2>8. RefusedInOneBurst'
    BY <1>1, <2>1, <2>2, <2>3, <2>5, RefusedStep
  <2> QED
    BY <1>2, <2>6, <2>7, <2>8 DEF IInv
<1>4. ASSUME NEW u \in Users, AllowOnError(u)
      PROVE  IInv'
  <2>1. PICK o \in {"unanswered", "unreached"} :
          /\ Decided(u, o)
          /\ o = "unanswered" => Hit(u)
          /\ o = "unreached" => UNCHANGED <<count, expiresAt>>
    BY <1>4 DEF AllowOnError
  <2>2. o \in Outcomes /\ o \notin {"allowed", "limited", "off"}
    BY DEF Outcomes
  <2>3. TypeOK' /\ \A v \in Users : KeyTellsBurst(v)'
    <3>1. CASE o = "unanswered"
      BY <1>1, <2>1, <3>1, HitStep DEF CountedOutcomes
    <3>2. CASE o = "unreached"
      <4>1. o \in Outcomes \ CountedOutcomes
        BY <3>2 DEF Outcomes, CountedOutcomes
      <4> QED
        BY <1>1, <2>1, <3>2, <4>1, UncountedStep
    <3> QED
      BY <2>1, <3>1, <3>2
  <2>4. AtMostLimitPerWindow'
    BY <1>1, <2>1, <2>2, AtMostLimitStep
  <2>5. RefusedInOneBurst'
    BY <1>1, <2>1, <2>2, RefusedStep
  <2> QED
    BY <1>2, <2>3, <2>4, <2>5 DEF IInv
<1>5. ASSUME NEW u \in Users, AllowOff(u)
      PROVE  IInv'
  <2>1. /\ Decided(u, "off") /\ UNCHANGED <<count, expiresAt>>
        /\ limit <= 0 /\ limit \in Int
    BY <1>1, <1>5, LimiterAssumption DEF AllowOff, TypeOK
  <2>2. "off" \in Outcomes \ CountedOutcomes /\ ~(limit > 0)
    BY <2>1 DEF Outcomes, CountedOutcomes
  <2>3. TypeOK' /\ \A v \in Users : KeyTellsBurst(v)'
    BY <1>1, <2>1, <2>2, UncountedStep
  <2>4. AtMostLimitPerWindow'
    BY <1>1, <2>1, <2>2, AtMostLimitStep
  <2>5. RefusedInOneBurst'
    BY <1>1, <2>1, <2>2, RefusedStep
  <2> QED
    BY <1>2, <2>3, <2>4, <2>5 DEF IInv
<1>6. CASE RedisRestart
  <2>1. NothingYet'
    BY <1>1, <1>6 DEF RedisRestart, TypeOK, NothingYet
  <2>2. NothingYet' => IInv'
    BY NoCalls, PTL
  <2> QED
    BY <2>1, <2>2
<1>7. CASE Tick \/ UNCHANGED vars
  <2>1. UNCHANGED <<limit, count, expiresAt, calls>> /\ now' \in 0 .. MaxNow
    BY <1>1, <1>7, LimiterAssumption DEF Tick, vars, TypeOK
  <2>2. TypeOK'
    BY <1>1, <2>1 DEF TypeOK
  <2>3. \A u \in Users : KeyTellsBurst(u)'
    BY <1>1, <2>1 DEF KeyTellsBurst, Burst, CountedOf
  <2>4. AtMostLimitPerWindow' /\ RefusedInOneBurst'
    BY <1>1, <2>1
       DEF AtMostLimitPerWindow, RefusedInOneBurst, With, Counted, NoPause
  <2> QED
    BY <1>2, <2>2, <2>3, <2>4 DEF IInv
<1> QED
  BY <1>3, <1>4, <1>5, <1>6, <1>7 DEF Next

(* The limiter's state and its history agree in every behaviour, across    *)
(* errors, restarts of Redis and expiring keys.                            *)
THEOREM LimiterInvariance == Spec => []IInv
<1>1. Init => IInv
  <2> SUFFICES ASSUME Init PROVE IInv
    OBVIOUS
  <2>1. now \in 0 .. MaxNow
    BY LimiterAssumption DEF Init
  <2> QED
    BY <2>1, NoCalls DEF Init, NothingYet
<1> QED
  BY <1>1, IInvStep, PTL DEF Spec

(* The limiter's counter never outgrows the number of calls.               *)
THEOREM LimiterTypes == Spec => []TypeOK
  BY LimiterInvariance, PTL DEF IInv

(* In no span of one window, wherever it starts, is a user allowed more    *)
(* than the limit by a Redis that answers (redisx.go, Allow).              *)
THEOREM LimitHolds == Spec => []AtMostLimitPerWindow
  BY LimiterInvariance, PTL DEF IInv

(* A call is refused exactly when the limit is used up since the user last *)
(* paused for a window (INCR and EXPIRE on every call, redisx.go).         *)
THEOREM RefusalsExplained == Spec => []RefusedInOneBurst
  BY LimiterInvariance, PTL DEF IInv
=============================================================================
