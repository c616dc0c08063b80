----------------------------- MODULE RateLimiter -----------------------------
(***************************************************************************)
(* The token bucket of one key (api-gateway/internal/ratelimit/bucket.go). *)
(* Handlers run concurrently: each reads the clock, then finds or stores   *)
(* the bucket, then holds its mutex; nothing makes them reach the mutex in *)
(* the order of their clock reads, so the time that has elapsed may come   *)
(* out negative.  Tokens are counted in the time it takes to refill them:  *)
(* one request costs Cost units of time, and a full bucket holds Capacity. *)
(***************************************************************************)
EXTENDS Integers

CONSTANTS
  Callers,   \* calls of Allow
  Capacity,  \* maxTokens, 60 s in the code
  Cost,      \* one token, 6 s in the code
  MaxTime    \* bound of the clock

ASSUME LimiterAssumption ==
  /\ Capacity \in Nat /\ Cost \in Nat \ {0} /\ Cost <= Capacity
  /\ MaxTime \in Nat

NoBucket == [stored |-> FALSE, tokens |-> 0, lastRefill |-> 0]

VARIABLES
  clock,
  bucket,     \* the entry of the key in the map
  call,       \* caller -> "out" | "read" | "allowed" | "refused"
  now,        \* caller -> what it read from the clock
  \* history
  from,       \* where the window looked at begins
  spent       \* what was admitted since, in units of time

limiterVars == <<clock, bucket, call, now, from, spent>>

LimiterInit ==
  /\ clock = 0 /\ bucket = NoBucket
  /\ call = [c \in Callers |-> "out"] /\ now = [c \in Callers |-> 0]
  /\ from = 0 /\ spent = 0

Ended(c) == call[c] \in {"allowed", "refused"}

(* Time matters to the calls to come only. *)
Tick ==
  /\ clock < MaxTime /\ \E c \in Callers : ~Ended(c)
  /\ clock' = clock + 1
  /\ UNCHANGED <<bucket, call, now, from, spent>>

(* now := l.clock(), outside the mutex. *)
ReadClock(c) ==
  /\ call[c] = "out"
  /\ call' = [call EXCEPT ![c] = "read"]
  /\ now' = [now EXCEPT ![c] = clock]
  /\ UNCHANGED <<clock, bucket, from, spent>>

(* LoadOrStore of the first caller to get there. *)
Store(c) ==
  /\ call[c] = "read" /\ ~bucket.stored
  /\ bucket' = [stored |-> TRUE, tokens |-> Capacity, lastRefill |-> now[c]]
  /\ UNCHANGED <<clock, call, now, from, spent>>

Refilled(c) ==
  LET sum == bucket.tokens + (now[c] - bucket.lastRefill)
  IN  IF sum > Capacity THEN Capacity ELSE sum

(* Mutant of Allow: a refusal leaves before lastRefill is set. *)
AllowKeepsTime(c) ==
  /\ call[c] = "read" /\ bucket.stored
  /\ \/ /\ Refilled(c) < Cost
        /\ bucket' = [bucket EXCEPT !.tokens = Refilled(c)]
        /\ call' = [call EXCEPT ![c] = "refused"]
        /\ UNCHANGED spent
     \/ /\ Refilled(c) >= Cost
        /\ bucket' = [bucket EXCEPT !.tokens = Refilled(c) - Cost, !.lastRefill = now[c]]
        /\ call' = [call EXCEPT ![c] = "allowed"]
        /\ spent' = spent + Cost
  /\ UNCHANGED <<clock, now, from>>

(* What is done with the mutex held. *)
Allow(c) ==
  /\ call[c] = "read" /\ bucket.stored
  /\ \/ /\ Refilled(c) < Cost
        /\ bucket' = [bucket EXCEPT !.tokens = Refilled(c), !.lastRefill = now[c]]
        /\ call' = [call EXCEPT ![c] = "refused"]
        /\ UNCHANGED spent
     \/ /\ Refilled(c) >= Cost
        /\ bucket' = [bucket EXCEPT !.tokens = Refilled(c) - Cost, !.lastRefill = now[c]]
        /\ call' = [call EXCEPT ![c] = "allowed"]
        /\ spent' = spent + Cost
  /\ UNCHANGED <<clock, now, from>>

(* Calls that read the clock and have yet to reach the mutex. *)
Pending == {c \in Callers : call[c] = "read"}

(* The window begins anew: now, or at the oldest clock read that is still to  *)
(* be used.  Only the history changes.                                     *)
StartWindow ==
  /\ \E c \in Callers : ~Ended(c)
  /\ from' \in {clock} \cup {now[c] : c \in Pending}
  /\ \A c \in Pending : from' <= now[c]
  /\ spent' = 0
  /\ UNCHANGED <<clock, bucket, call, now>>

LimiterNext ==
  \/ Tick \/ StartWindow
  \/ \E c \in Callers : ReadClock(c) \/ Store(c) \/ Allow(c)

LimiterSpec == LimiterInit /\ [][LimiterNext]_limiterVars

-----------------------------------------------------------------------------
LimiterTypeOK ==
  /\ clock \in Nat /\ from \in Nat /\ spent \in Nat
  /\ bucket \in [stored : BOOLEAN, tokens : Int, lastRefill : Nat]
  /\ call \in [Callers -> {"out", "read", "allowed", "refused"}]
  /\ now \in [Callers -> Nat]

(* Over any window no more is admitted than a full bucket and what the     *)
(* window's time refills, in whatever order the calls reach the mutex: a   *)
(* clock read that is late takes time off the bucket, and the next one     *)
(* puts no more than that back (maxTokens and refillRate, bucket.go).      *)
WithinRate == spent <= Capacity + (clock - from)
=============================================================================
