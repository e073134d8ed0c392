----------------------------- MODULE RateLimit ------------------------------
(***************************************************************************)
(* The two brakes on a login: the token bucket of the rate limiter and the *)
(* lock after too many failures, for one address and one account.          *)
(*                                                                         *)
(* Both live in Redis and are changed by Lua scripts, each a step.  The    *)
(* limiter works with the time its server read before the call, so calls   *)
(* that overtake each other bring an older time after a newer one; ages    *)
(* (how long ago) stand for times.  The lock lives by the expiry of its    *)
(* key, which Redis reports in rounded seconds.                            *)
(***************************************************************************)
EXTENDS Integers, FiniteSets

CONSTANTS Procs,
          TickMs,         \* milliseconds in a tick
          Capacity,       \* tokens of a full bucket
          BucketTTL,      \* lifetime of an unused bucket, in ticks; a tick refills one token
          MaxDelay,       \* the longest a request is under way to Redis, in ticks
          MaxFailures,    \* failures until the lock
          FailureWindow,  \* lifetime of the count of failures, in ticks
          LockDuration,   \* lifetime of the lock, in ticks
          MaxBegun        \* bound: requests

ASSUME ProcsAssumption == IsFiniteSet(Procs)
\* The lifetime is at least twice the time to fill the bucket, and a minute; a
\* call to Redis is given up after REDIS_OPERATION_TIMEOUT, half a minute at most.
ASSUME BucketAssumption ==
  /\ Capacity \in Nat \ {0} /\ MaxDelay \in Nat /\ BucketTTL \in Nat
  /\ BucketTTL >= 2 * Capacity /\ BucketTTL >= 2 * MaxDelay
ASSUME LockAssumption ==
  /\ MaxFailures \in Nat \ {0} /\ FailureWindow \in Nat \ {0} /\ LockDuration \in Nat \ {0}
  /\ TickMs \in Nat \ {0}
ASSUME BoundsAssumption == MaxBegun \in Nat

VARIABLES tokens, age,       \* the bucket: its tokens and the age of updated_at
          bucketTTL,         \* what is left of its lifetime, 0: there is none
          failures, failuresTTL,
          lockTTL,           \* what is left of the lock, 0: none
          proc, begun,
          level,             \* history: requests granted and not yet made up for
          setBack,           \* history: how far updated_at went back, in tokens
          guesses,           \* history: wrong passwords since the count last began
          unseen             \* history: of these, made in the last moment of a lock

bucket == <<tokens, age, bucketTTL>>
login == <<failures, failuresTTL, lockTTL>>
history == <<level, setBack, guesses, unseen>>
vars == <<bucket, login, proc, begun, history>>

Idle == [step |-> "idle", age |-> 0]
At(p, step) == proc[p].step = step
Finish(p) == proc' = [proc EXCEPT ![p] = Idle]

Least(a, b) == IF a < b THEN a ELSE b
Most(a, b) == IF a < b THEN b ELSE a

Init ==
  /\ tokens = 0 /\ age = 0 /\ bucketTTL = 0
  /\ failures = 0 /\ failuresTTL = 0 /\ lockTTL = 0
  /\ proc = [p \in Procs |-> Idle]
  /\ begun = 0
  /\ level = 0 /\ setBack = 0 /\ guesses = 0 /\ unseen = 0
----------------------------------------------------------------------------
(***************************************************************************)
(* The rate limiter.                                                       *)
(***************************************************************************)
\* The middleware reads the clock of its server.
Arrive(p) ==
  /\ proc[p] = Idle
  /\ begun < MaxBegun
  /\ begun' = begun + 1
  /\ proc' = [proc EXCEPT ![p] = [step |-> "stamped", age |-> 0]]
  /\ UNCHANGED <<bucket, login, history>>

\* Mutant: no math.min(capacity, ...).
FilledUncapped(elapsed) == tokens + elapsed

Filled(elapsed) == Least(Capacity, tokens + elapsed)

\* tokenBucketScript; updated_at becomes the time of the call, older or not.
Allow(p) ==
  /\ At(p, "stamped")
  /\ LET available == IF bucketTTL = 0 THEN Capacity
                      ELSE Filled(Most(0, age - proc[p].age))
     IN IF available >= 1
        THEN /\ tokens' = available - 1
             /\ level' = level + 1
             /\ proc' = [proc EXCEPT ![p] = [step |-> "admitted", age |-> 0]]
        ELSE /\ tokens' = available
             /\ Finish(p)
             /\ UNCHANGED level
  /\ setBack' = setBack + (IF bucketTTL = 0 THEN 0 ELSE Most(0, proc[p].age - age))
  /\ age' = proc[p].age
  /\ bucketTTL' = BucketTTL
  /\ UNCHANGED <<login, begun, guesses, unseen>>
----------------------------------------------------------------------------
(***************************************************************************)
(* Login.                                                                  *)
(***************************************************************************)
\* What TTL reports: seconds, rounded.
Seconds(ticks) == (ticks * TickMs + 500) \div 1000

IsLoginLocked(p) ==
  /\ At(p, "admitted")
  /\ IF Seconds(lockTTL) > 0 THEN Finish(p) ELSE proc' = [proc EXCEPT ![p].step = "comparing"]
  /\ UNCHANGED <<bucket, login, begun, history>>

\* Mutant: ">" for ">=".
TooManyLate(n) == n > MaxFailures

TooMany(n) == n >= MaxFailures

\* The password is wrong: loginFailureScript.
RecordLoginFailure(p) ==
  /\ At(p, "comparing")
  /\ guesses' = guesses + 1
  /\ IF lockTTL > 0
     THEN /\ unseen' = IF Seconds(lockTTL) = 0 THEN unseen + 1 ELSE unseen
          /\ UNCHANGED login
     ELSE /\ IF TooMany(failures + 1)
             THEN failures' = 0 /\ failuresTTL' = 0 /\ lockTTL' = LockDuration
             ELSE /\ failures' = failures + 1
                  /\ failuresTTL' = IF failures = 0 THEN FailureWindow ELSE failuresTTL
                  /\ UNCHANGED lockTTL
          /\ UNCHANGED unseen
  /\ Finish(p)
  /\ UNCHANGED <<bucket, begun, level, setBack>>

\* The password is right: both keys are deleted, the lock too if there is one.
ResetLoginFailures(p) ==
  /\ At(p, "comparing")
  /\ failures' = 0 /\ failuresTTL' = 0 /\ lockTTL' = 0
  /\ guesses' = 0 /\ unseen' = 0
  /\ Finish(p)
  /\ UNCHANGED <<bucket, begun, level, setBack>>
----------------------------------------------------------------------------
Less(ticks) == IF ticks = 0 THEN 0 ELSE ticks - 1

Tick ==
  /\ \A p \in Procs : At(p, "stamped") => proc[p].age < MaxDelay
  /\ bucketTTL + failuresTTL + lockTTL + level > 0 \/ \E p \in Procs : At(p, "stamped")
  /\ bucketTTL' = Less(bucketTTL)
  /\ tokens' = IF bucketTTL <= 1 THEN 0 ELSE tokens
  /\ age' = IF bucketTTL <= 1 THEN 0 ELSE age + 1
  /\ failuresTTL' = Less(failuresTTL)
  /\ failures' = IF failuresTTL = 1 THEN 0 ELSE failures
  /\ lockTTL' = Less(lockTTL)
  /\ IF failuresTTL = 1 \/ lockTTL = 1 THEN guesses' = 0 /\ unseen' = 0
                                       ELSE UNCHANGED <<guesses, unseen>>
  /\ level' = Less(level)
  /\ proc' = [p \in Procs |-> IF At(p, "stamped") THEN [proc[p] EXCEPT !.age = @ + 1]
                                                  ELSE proc[p]]
  /\ UNCHANGED <<begun, setBack>>

Next ==
  \/ \E p \in Procs : \/ Arrive(p) \/ Allow(p) \/ IsLoginLocked(p)
                      \/ RecordLoginFailure(p) \/ ResetLoginFailures(p)
  \/ Tick

Spec == Init /\ [][Next]_vars
----------------------------------------------------------------------------
(***************************************************************************)
(* In any stretch of time no more requests are let through than the bucket *)
(* holds and the time refills, but for what requests bring along that were *)
(* under way, and for every step back of the bucket's time: the script     *)
(* never refills less than 0, but it takes the older time as the new one.  *)
(* ("level" is what a meter in real time would show.)                      *)
(***************************************************************************)
BurstIsBounded == level <= Capacity + MaxDelay + setBack

(***************************************************************************)
(* From the first failure to the end of the lock, at most MaxFailures wrong*)
(* passwords are compared, and one more for every other login at the same  *)
(* time that had passed IsLoginLocked; except in the last half second of a *)
(* lock, in which it reads as none and failures are not counted.           *)
(***************************************************************************)
GuessesAreBounded == guesses <= MaxFailures + Cardinality(Procs) - 1 + unseen
=============================================================================
