----------------------------- MODULE RateLimiter -----------------------------
(***************************************************************************)
(* The per-user limiter of write requests: redisx.Client.Allow, called by  *)
(* the rateLimit middleware.  Each call sends INCR and EXPIRE to Redis as  *)
(* one MULTI/EXEC transaction and compares the count with the limit; with  *)
(* any error the call is let through.                                      *)
(*                                                                         *)
(* calls is history: what was decided since Redis last lost its keys.      *)
(***************************************************************************)
EXTENDS Integers, Sequences, FiniteSets

CONSTANTS
  Users,
  Limits,    \* values of RATE_LIMIT_PER_MINUTE; none or less is no limiter
  Window,    \* time.Minute, in clock units
  MaxNow,    \* bound: the clock stops here
  MaxCalls   \* bound: calls remembered

ASSUME LimiterAssumption ==
  /\ Limits \subseteq Int
  /\ Window \in Nat \ {0}
  /\ MaxNow \in Nat
  /\ MaxCalls \in Nat

VARIABLES
  limit,      \* as configured when the server started
  now,
  count,      \* Redis: the counter of each user's key, 0 when there is none
  expiresAt,  \* Redis: when that key expires
  calls

vars == <<limit, now, count, expiresAt, calls>>

Outcomes == {"allowed", "limited", "unanswered", "unreached", "off"}

TypeOK ==
  /\ limit \in Limits
  /\ now \in 0 .. MaxNow
  /\ count \in [Users -> 0 .. MaxCalls]
  /\ expiresAt \in [Users -> 0 .. MaxNow + Window]
  /\ calls \in Seq([user: Users, at: 0 .. MaxNow, outcome: Outcomes])
  /\ Len(calls) <= MaxCalls

Init ==
  /\ limit \in Limits
  /\ now = 0
  /\ count = [u \in Users |-> 0]
  /\ expiresAt = [u \in Users |-> 0]
  /\ calls = <<>>

Decided(u, outcome) ==
  /\ Len(calls) < MaxCalls
  /\ calls' = Append(calls, [user |-> u, at |-> now, outcome |-> outcome])
  /\ UNCHANGED <<limit, now>>

(* What INCR answers.                                                      *)
Incremented(u) == (IF now < expiresAt[u] THEN count[u] ELSE 0) + 1

(* Mutants: the window added to the old expiry; EXPIRE only for a new key. *)
HitExtended(u) ==
  /\ count' = [count EXCEPT ![u] = Incremented(u)]
  /\ expiresAt' = [expiresAt EXCEPT ![u] = @ + Window]

HitFixedWindow(u) ==
  /\ count' = [count EXCEPT ![u] = Incremented(u)]
  /\ expiresAt' = [expiresAt EXCEPT ![u] = IF now < @ THEN @ ELSE now + Window]

(* INCR, then EXPIRE whether or not the key is new.                        *)
Hit(u) ==
  /\ count' = [count EXCEPT ![u] = Incremented(u)]
  /\ expiresAt' = [expiresAt EXCEPT ![u] = now + Window]

(* Mutant: the call that reaches the limit is refused.                     *)
AllowBelow(u) ==
  /\ limit > 0
  /\ Hit(u)
  /\ Decided(u, IF Incremented(u) < limit THEN "allowed" ELSE "limited")

Allow(u) ==
  /\ limit > 0
  /\ Hit(u)
  /\ Decided(u, IF Incremented(u) <= limit THEN "allowed" ELSE "limited")

(* Exec failed, after or before Redis ran the transaction: fail open.      *)
AllowOnError(u) ==
  /\ limit > 0
  /\ \/ Hit(u) /\ Decided(u, "unanswered")
     \/ UNCHANGED <<count, expiresAt>> /\ Decided(u, "unreached")

(* config.go: "(0 disables)".                                              *)
AllowOff(u) ==
  /\ limit <= 0
  /\ UNCHANGED <<count, expiresAt>>
  /\ Decided(u, "off")

(* Redis restarts without its keys (nothing is persisted for it).          *)
RedisRestart ==
  /\ count' = [u \in Users |-> 0]
  /\ expiresAt' = [u \in Users |-> 0]
  /\ calls' = <<>>
  /\ UNCHANGED <<limit, now>>

Tick ==
  /\ now < MaxNow
  /\ now' = now + 1
  /\ UNCHANGED <<limit, count, expiresAt, calls>>

Next ==
  \/ \E u \in Users : Allow(u) \/ AllowOnError(u) \/ AllowOff(u)
  \/ RedisRestart
  \/ Tick

Spec == Init /\ [][Next]_vars

-----------------------------------------------------------------------------
With(outcome) == {i \in DOMAIN calls : calls[i].outcome = outcome}

(* The calls of the user of call i that Redis counted, up to call i.       *)
Counted(i) ==
  {j \in 1 .. i : /\ calls[j].user = calls[i].user
                  /\ calls[j].outcome \in {"allowed", "limited", "unanswered"}}

(* What the limiter does promise (redisx.go: "at most limit events per     *)
(* window"): in no span of one window, wherever it starts, does a user get *)
(* more than limit calls allowed by a Redis that answers.                  *)
AtMostLimitPerWindow ==
  \A i \in With("allowed") :
    Cardinality({j \in Counted(i) \cap With("allowed") :
                   calls[i].at - calls[j].at < Window}) <= limit

(* From counted call j to call i the user never paused for a window.       *)
NoPause(j, i) ==
  \A m \in Counted(i) :
    j < m => \E l \in Counted(i) :
               j <= l /\ l < m /\ calls[m].at - calls[l].at < Window

(* How it decides, told from the history alone: a call is refused exactly  *)
(* when limit calls of the same user precede it without a pause, whether   *)
(* those were allowed, refused or let through on a lost answer.  Another   *)
(* user's calls and calls Redis never saw do not matter, and without a     *)
(* limit nobody is refused.                                                *)
RefusedInOneBurst ==
  \A i \in With("limited") \cup With("allowed") \cup With("off") :
    calls[i].outcome = "limited" <=>
      /\ limit > 0
      /\ Cardinality({j \in Counted(i) \ {i} : NoPause(j, i)}) >= limit

(* redisx.go calls it a fixed-window limiter: a refused call finds limit   *)
(* calls that were let through in the window before it.                    *)
RefusedOnlyInFullWindow ==
  \A i \in With("limited") :
    Cardinality({j \in Counted(i) \ With("limited") :
                   calls[i].at - calls[j].at < Window}) >= limit
=============================================================================
