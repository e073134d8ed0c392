-------------------------- MODULE RateLimitProofs ---------------------------
(***************************************************************************)
(* Both brakes hold for any number of requests at once, any sizes of the   *)
(* bucket and of the windows, and any delay that the timeouts allow.       *)
(***************************************************************************)
EXTENDS RateLimit, FiniteSetTheorems, TLAPS

TypeOK ==
  /\ tokens \in 0..Capacity /\ age \in Nat /\ bucketTTL \in 0..BucketTTL
  /\ failures \in Nat /\ failuresTTL \in Nat /\ lockTTL \in Nat
  /\ proc \in [Procs -> [step : {"idle", "stamped", "admitted", "comparing"},
                         age : 0..MaxDelay]]
  /\ begun \in Nat
  /\ level \in Nat /\ setBack \in Nat /\ guesses \in Nat /\ unseen \in Nat

LEMMA Lesser == \A n \in Nat : Less(n) \in Nat /\ Less(n) <= n /\ (n > 0 => Less(n) = n - 1)
  BY DEF Less

LEMMA TypeHolds == TypeOK /\ [Next]_vars => TypeOK'
<1> SUFFICES ASSUME TypeOK, [Next]_vars PROVE TypeOK'
  OBVIOUS
<1> USE BucketAssumption, LockAssumption, BoundsAssumption DEF TypeOK
<1>1. ASSUME NEW p \in Procs, Arrive(p) PROVE TypeOK'
  BY <1>1 DEF Arrive, bucket, login, history
<1>2. ASSUME NEW p \in Procs, Allow(p) PROVE TypeOK'
  <2> DEFINE available == IF bucketTTL = 0 THEN Capacity ELSE Filled(Most(0, age - proc[p].age))
  <2>1. proc[p].age \in 0..MaxDelay
    OBVIOUS
  <2>2. available \in 0..Capacity
    BY <2>1 DEF Filled, Most, Least
  <2>3. tokens' \in 0..Capacity /\ level' \in Nat
    <3> HIDE DEF available
    <3>1. CASE available >= 1
      BY <1>2, <2>2, <3>1 DEF Allow, available
    <3>2. CASE ~(available >= 1)
      BY <1>2, <2>2, <3>2 DEF Allow, available
    <3>3. QED
      BY <3>1, <3>2
  <2>4. setBack' \in Nat
    BY <1>2, <2>1 DEF Allow, Most
  <2>5. proc' \in [Procs -> [step : {"idle", "stamped", "admitted", "comparing"},
                             age : 0..MaxDelay]]
    BY <1>2 DEF Allow, Finish, Idle
  <2>6. QED
    BY <1>2, <2>1, <2>3, <2>4, <2>5 DEF Allow, login
<1>3. ASSUME NEW p \in Procs, IsLoginLocked(p) PROVE TypeOK'
  BY <1>3 DEF IsLoginLocked, Finish, Idle, bucket, login, history
<1>4. ASSUME NEW p \in Procs, RecordLoginFailure(p) PROVE TypeOK'
  BY <1>4 DEF RecordLoginFailure, Finish, Idle, bucket, login
<1>5. ASSUME NEW p \in Procs, ResetLoginFailures(p) PROVE TypeOK'
  BY <1>5 DEF ResetLoginFailures, Finish, Idle, bucket
<1>6. CASE Tick
  <2>1. /\ bucketTTL' \in 0..BucketTTL /\ level' \in Nat
        /\ failuresTTL' \in Nat /\ lockTTL' \in Nat
    BY <1>6, Lesser DEF Tick
  <2>2. ASSUME NEW p \in Procs, At(p, "stamped")
        PROVE  proc[p].age + 1 \in 0..MaxDelay
    BY <1>6, <2>2 DEF Tick
  <2>3. proc' \in [Procs -> [step : {"idle", "stamped", "admitted", "comparing"},
                             age : 0..MaxDelay]]
    BY <1>6, <2>2 DEF Tick
  <2>4. QED
    BY <1>6, <2>1, <2>3 DEF Tick
<1>7. CASE UNCHANGED vars
  BY <1>7 DEF vars, bucket, login, history
<1>8. QED
  BY <1>1, <1>2, <1>3, <1>4, <1>5, <1>6, <1>7 DEF Next
----------------------------------------------------------------------------
(***************************************************************************)
(* The bucket.  What the meter shows and what the bucket will give at once *)
(* for the time since its own are bounded together; so a bucket is only    *)
(* lost when the meter is back at what requests from before have taken     *)
(* twice, and the full one that takes its place gives nothing away.        *)
(***************************************************************************)
Limit == Capacity + MaxDelay

BurstInv ==
  IF bucketTTL = 0
  THEN level <= setBack
  ELSE /\ age >= BucketTTL - bucketTTL
       /\ level + Least(Limit, tokens + age) <= Limit + setBack

LEMMA LeastFacts ==
  \A m, n \in Int : /\ Least(m, n) \in Int /\ Least(m, n) <= m
                    /\ Least(m, n + 1) \in Int /\ Least(m, n + 1) <= m
                    /\ Least(m, n + 1) <= Least(m, n) + 1
  BY DEF Least

\* What the bucket holds for a request with time a, and what is left of it.
LEMMA Taken ==
  ASSUME TypeOK, NEW a \in 0..MaxDelay, bucketTTL > 0,
         NEW available, available = Filled(Most(0, age - a))
  PROVE  /\ available \in 0..Capacity
         /\ Least(Limit, available + a) <= Least(Limit, tokens + age) + Most(0, a - age)
         /\ available >= 1
              => Least(Limit, available - 1 + a) + 1
                   <= Least(Limit, tokens + age) + Most(0, a - age)
<1> USE BucketAssumption DEF TypeOK, Filled, Least, Most, Limit
<1>1. CASE a <= age
  BY <1>1
<1>2. CASE a > age
  BY <1>2
<1>3. QED
  BY <1>1, <1>2

LEMMA BurstHolds == TypeOK /\ BurstInv /\ [Next]_vars => BurstInv'
<1> SUFFICES ASSUME TypeOK, BurstInv, [Next]_vars PROVE BurstInv'
  OBVIOUS
<1>1. TypeOK'
  BY TypeHolds
<1>2. CASE UNCHANGED <<bucket, level, setBack>>
  BY <1>2 DEF BurstInv, bucket
<1>3. ASSUME NEW p \in Procs, Allow(p) PROVE BurstInv'
  <2> DEFINE a == proc[p].age
             available == IF bucketTTL = 0 THEN Capacity ELSE Filled(Most(0, age - a))
             back == IF bucketTTL = 0 THEN 0 ELSE Most(0, a - age)
  <2>1. a \in 0..MaxDelay
    BY DEF TypeOK
  <2>2. \/ available >= 1 /\ tokens' = available - 1 /\ level' = level + 1
        \/ ~(available >= 1) /\ tokens' = available /\ level' = level
    BY <1>3 DEF Allow
  <2>3. age' = a /\ bucketTTL' = BucketTTL /\ setBack' = setBack + back
    BY <1>3 DEF Allow
  <2>4. BucketTTL > 0
    BY BucketAssumption
  <2>5. level' + Least(Limit, tokens' + a) <= Limit + setBack'
    <3>1. CASE bucketTTL = 0
      BY <2>1, <2>2, <2>3, <3>1, BucketAssumption DEF BurstInv, TypeOK, Least, Limit
    <3>2. CASE bucketTTL > 0
      <4>1. /\ available \in 0..Capacity
            /\ Least(Limit, available + a) <= Least(Limit, tokens + age) + back
            /\ available >= 1
                 => Least(Limit, available - 1 + a) + 1 <= Least(Limit, tokens + age) + back
        BY <2>1, <3>2, Taken DEF TypeOK
      <4>2. level + Least(Limit, tokens + age) <= Limit + setBack
        BY <3>2 DEF BurstInv
      <4> HIDE DEF available, back, a
      <4>3. /\ Limit \in Int /\ tokens + age \in Int /\ back \in Int
            /\ level \in Int /\ setBack \in Int
        BY <2>1, BucketAssumption DEF TypeOK, Limit, back, a, Most
      <4>4. /\ Least(Limit, tokens + age) \in Int
            /\ Least(Limit, available + a) \in Int
            /\ Least(Limit, available - 1 + a) \in Int
        <5>1. available + a \in Int /\ available - 1 + a \in Int
          BY <2>1, <4>1, BucketAssumption
        <5>2. QED
          BY <4>3, <5>1, LeastFacts
      <4>5. QED
        BY <2>2, <2>3, <4>1, <4>2, <4>3, <4>4
    <3>3. QED
      BY <3>1, <3>2 DEF TypeOK
  <2>6. QED
    BY <2>1, <2>3, <2>4, <2>5, BucketAssumption DEF BurstInv
<1>4. CASE Tick
  <2>1. level' \in Nat /\ level' <= level /\ (level > 0 => level' = level - 1)
    BY <1>4, Lesser DEF Tick, TypeOK
  <2>2. /\ bucketTTL' \in Nat /\ (bucketTTL > 0 => bucketTTL' = bucketTTL - 1)
        /\ (bucketTTL = 0 => bucketTTL' = 0)
        /\ setBack' = setBack
        /\ bucketTTL > 1 => tokens' = tokens /\ age' = age + 1
    BY <1>4 DEF Tick, TypeOK, Less
  <2>3. CASE bucketTTL = 0
    BY <2>1, <2>2, <2>3 DEF BurstInv, TypeOK
  <2>4. CASE bucketTTL = 1
    <3>1. age >= BucketTTL - 1 /\ level + Least(Limit, tokens + age) <= Limit + setBack
      BY <2>4 DEF BurstInv
    <3>2. tokens + age >= Limit - 1
      BY <3>1, BucketAssumption DEF TypeOK, Limit
    <3>3. level <= setBack + 1
      BY <3>1, <3>2, BucketAssumption DEF TypeOK, Least, Limit
    <3>4. level' <= setBack
      BY <2>1, <3>3 DEF TypeOK
    <3>5. QED
      BY <2>2, <2>4, <3>4 DEF BurstInv
  <2>5. CASE bucketTTL > 1
    <3>1. /\ age >= BucketTTL - bucketTTL
          /\ level + Least(Limit, tokens + age) <= Limit + setBack
      BY <2>5 DEF BurstInv, TypeOK
    <3>2. level' + Least(Limit, tokens + age + 1) <= Limit + setBack
      <4>1. Limit \in Int /\ tokens + age \in Int
        BY BucketAssumption DEF TypeOK, Limit
      <4>2. /\ Least(Limit, tokens + age) \in Int
            /\ Least(Limit, tokens + age + 1) \in Int
            /\ Least(Limit, tokens + age + 1) <= Limit
            /\ Least(Limit, tokens + age + 1) <= Least(Limit, tokens + age) + 1
        BY <4>1, LeastFacts
      <4>3. level \in Nat /\ setBack \in Nat
        BY DEF TypeOK
      <4>4. QED
        BY <2>1, <3>1, <4>1, <4>2, <4>3
    <3>3. tokens' + age' = tokens + age + 1
      BY <2>2, <2>5 DEF TypeOK
    <3>4. age' >= BucketTTL - bucketTTL' /\ bucketTTL' # 0
      <4>1. bucketTTL \in Nat /\ age \in Nat /\ BucketTTL \in Nat
        BY BucketAssumption DEF TypeOK
      <4>2. bucketTTL' = bucketTTL - 1 /\ age' = age + 1
        BY <2>2, <2>5, <4>1
      <4>3. QED
        BY <2>5, <3>1, <4>1, <4>2
    <3>5. QED
      BY <2>2, <3>2, <3>3, <3>4 DEF BurstInv
  <2>6. QED
    BY <2>3, <2>4, <2>5 DEF TypeOK
<1>5. QED
  BY <1>2, <1>3, <1>4
  DEF Next, Arrive, IsLoginLocked, RecordLoginFailure, ResetLoginFailures, vars, bucket, history

(***************************************************************************)
(* In any stretch of time no more requests are let through than the bucket *)
(* holds, the time refills, and requests bring along that were under way,  *)
(* whatever order tokenBucketScript gets their times in and however often  *)
(* the bucket is lost.                                                     *)
(***************************************************************************)
THEOREM BurstStaysBounded == Spec => []BurstIsBounded
<1>1. Init => TypeOK /\ BurstInv
  BY BucketAssumption DEF Init, TypeOK, BurstInv, Idle
<1>2. TypeOK /\ BurstInv /\ [Next]_vars => TypeOK' /\ BurstInv'
  BY TypeHolds, BurstHolds
<1>3. TypeOK /\ BurstInv => BurstIsBounded
  BY BucketAssumption DEF TypeOK, BurstInv, BurstIsBounded, Least, Limit
<1>4. QED
  BY <1>1, <1>2, <1>3, PTL DEF Spec
----------------------------------------------------------------------------
(***************************************************************************)
(* The lock.  While there is none, the count of failures is exact.  When it*)
(* is set the wrong passwords are MaxFailures; from then on only the logins*)
(* that had passed IsLoginLocked before can add to them, each once, until  *)
(* the lock reads as none.                                                 *)
(***************************************************************************)
Comparing == {p \in Procs : At(p, "comparing")}

\* Logins that will still compare a password, though the lock can be read.
Passed == IF Seconds(lockTTL) > 0 THEN Cardinality(Comparing) ELSE 0

LoginInv ==
  /\ lockTTL = 0 => /\ guesses = failures /\ unseen = 0 /\ failures < MaxFailures
                    /\ failuresTTL = 0 => failures = 0
  /\ lockTTL > 0 => /\ failures = 0 /\ failuresTTL = 0
                    /\ guesses + Passed <= MaxFailures + Cardinality(Procs) - 1 + unseen

LEMMA SecondsFall ==
  /\ Seconds(0) = 0
  /\ \A n \in Nat : Seconds(n) \in Nat /\ (Seconds(n) = 0 => Seconds(Less(n)) = 0)
<1>1. ASSUME NEW n \in Nat
      PROVE  Seconds(n) \in Nat /\ (Seconds(n) = 0 => Seconds(Less(n)) = 0)
  <2> DEFINE ms == n * TickMs
             less == Less(n) * TickMs
  <2>1. TickMs \in Nat /\ Less(n) \in Nat
    BY LockAssumption, Lesser
  <2>2. ms \in Nat /\ less \in Nat
    BY <2>1
  <2>3. less <= ms
    <3>1. CASE n = 0
      <4>1. Less(n) = n
        BY <3>1 DEF Less
      <4>2. QED
        BY <2>2, <4>1
    <3>2. CASE n # 0
      <4>1. (n - 1) * TickMs = n * TickMs - TickMs
        BY <2>1
      <4>2. Less(n) = n - 1
        BY <3>2 DEF Less
      <4>3. less = ms - TickMs
        BY <4>1, <4>2
      <4> HIDE DEF less, ms
      <4>4. QED
        BY <2>1, <2>2, <4>3
    <3>3. QED
      BY <3>1, <3>2
  <2>4. Seconds(n) = (ms + 500) \div 1000 /\ Seconds(Less(n)) = (less + 500) \div 1000
    BY DEF Seconds
  <2> HIDE DEF ms, less
  <2>5. QED
    BY <2>2, <2>3, <2>4
<1>2. Seconds(0) = 0
  BY LockAssumption DEF Seconds
<1>3. QED
  BY <1>1, <1>2

LEMMA ComparingCount ==
  /\ Cardinality(Procs) \in Nat
  /\ \A S \in SUBSET Procs : IsFiniteSet(S) /\ Cardinality(S) \in 0..Cardinality(Procs)
  /\ Comparing \in SUBSET Procs /\ Comparing' \in SUBSET Procs
<1>1. \A S \in SUBSET Procs : IsFiniteSet(S) /\ Cardinality(S) <= Cardinality(Procs)
  BY ProcsAssumption, FS_Subset
<1>2. \A S \in SUBSET Procs : Cardinality(S) \in Nat
  BY <1>1, FS_CardinalityType
<1>3. Comparing \in SUBSET Procs /\ Comparing' \in SUBSET Procs
  BY DEF Comparing
<1>4. QED
  BY <1>1, <1>2, <1>3

\* A login that is over is one less.
LEMMA OneLess ==
  ASSUME TypeOK, NEW p \in Procs, At(p, "comparing"), Finish(p)
  PROVE  /\ Cardinality(Comparing') = Cardinality(Comparing) - 1
         /\ Cardinality(Comparing') <= Cardinality(Procs) - 1
<1>1. Comparing' = Comparing \ {p} /\ p \in Comparing
  BY DEF Comparing, At, Finish, Idle, TypeOK
<1>2. QED
  BY <1>1, ComparingCount, FS_RemoveElement

LEMMA LoginHolds == TypeOK /\ LoginInv /\ [Next]_vars => LoginInv'
<1> SUFFICES ASSUME TypeOK, LoginInv, [Next]_vars PROVE LoginInv'
  OBVIOUS
<1>1. /\ Cardinality(Procs) \in Nat /\ Cardinality(Comparing) \in Nat
      /\ Cardinality(Comparing') \in Nat /\ Seconds(lockTTL) \in Nat
      /\ failures \in Nat /\ failuresTTL \in Nat /\ lockTTL \in Nat
      /\ guesses \in Nat /\ unseen \in Nat
  BY ComparingCount, SecondsFall DEF TypeOK
<1>2. CASE UNCHANGED <<login, guesses, unseen, Comparing>>
  BY <1>2 DEF LoginInv, Passed, login, Seconds
<1>3. ASSUME NEW p \in Procs, IsLoginLocked(p) PROVE LoginInv'
  <2>1. UNCHANGED <<failures, failuresTTL, lockTTL, guesses, unseen>>
    BY <1>3 DEF IsLoginLocked, login, history
  <2>2. CASE Seconds(lockTTL) > 0
    <3>1. Finish(p) /\ proc[p].step = "admitted"
      BY <1>3, <2>2 DEF IsLoginLocked, At
    <3>2. Comparing' = Comparing
      BY <3>1 DEF Comparing, At, Finish, Idle, TypeOK
    <3>3. QED
      BY <1>2, <2>1, <3>2 DEF login
  <2>3. CASE Seconds(lockTTL) = 0
    <3>1. Seconds(lockTTL)' = 0
      BY <2>1, <2>3 DEF Seconds
    <3>2. QED
      BY <2>1, <2>3, <3>1 DEF LoginInv, Passed
  <2>4. QED
    BY <1>1, <2>2, <2>3
<1>4. ASSUME NEW p \in Procs, RecordLoginFailure(p) PROVE LoginInv'
  <2>1. /\ Cardinality(Comparing') = Cardinality(Comparing) - 1
        /\ Cardinality(Comparing') <= Cardinality(Procs) - 1
    BY <1>4, OneLess DEF RecordLoginFailure
  <2>2. guesses' = guesses + 1
    BY <1>4 DEF RecordLoginFailure
  <2>3. CASE lockTTL > 0
    <3>1. /\ UNCHANGED <<failures, failuresTTL, lockTTL>>
          /\ unseen' = IF Seconds(lockTTL) = 0 THEN unseen + 1 ELSE unseen
      BY <1>4, <2>3 DEF RecordLoginFailure, login
    <3>2. Seconds(lockTTL)' = Seconds(lockTTL)
      BY <3>1 DEF Seconds
    <3>3. guesses' + Passed' <= MaxFailures + Cardinality(Procs) - 1 + unseen'
      BY <1>1, <2>1, <2>2, <2>3, <3>1, <3>2, LockAssumption DEF LoginInv, Passed
    <3>4. QED
      BY <2>3, <3>1, <3>3 DEF LoginInv
  <2>4. CASE lockTTL = 0 /\ failures + 1 >= MaxFailures
    <3>1. failures' = 0 /\ failuresTTL' = 0 /\ lockTTL' = LockDuration /\ unseen' = unseen
      BY <1>1, <1>4, <2>4 DEF RecordLoginFailure, TooMany
    <3>2. guesses' = MaxFailures
      BY <1>1, <2>2, <2>4, LockAssumption DEF LoginInv
    <3>3. Passed' \in Int /\ Passed' <= Cardinality(Procs) - 1
      BY <1>1, <2>1, ComparingCount DEF Passed
    <3>4. QED
      BY <1>1, <3>1, <3>2, <3>3, LockAssumption DEF LoginInv
  <2>5. CASE lockTTL = 0 /\ ~(failures + 1 >= MaxFailures)
    <3>1. /\ failures' = failures + 1 /\ lockTTL' = 0 /\ unseen' = unseen
          /\ failuresTTL' = IF failures = 0 THEN FailureWindow ELSE failuresTTL
      BY <1>1, <1>4, <2>5 DEF RecordLoginFailure, TooMany
    <3>2. QED
      BY <1>1, <2>2, <2>5, <3>1, LockAssumption DEF LoginInv
  <2>6. QED
    BY <1>1, <2>3, <2>4, <2>5
<1>5. ASSUME NEW p \in Procs, ResetLoginFailures(p) PROVE LoginInv'
  BY <1>5, LockAssumption DEF ResetLoginFailures, LoginInv
<1>6. CASE Tick
  <2>1. /\ failuresTTL' = Less(failuresTTL) /\ lockTTL' = Less(lockTTL)
        /\ failures' = IF failuresTTL = 1 THEN 0 ELSE failures
        /\ IF failuresTTL = 1 \/ lockTTL = 1 THEN guesses' = 0 /\ unseen' = 0
                                             ELSE UNCHANGED <<guesses, unseen>>
    BY <1>6 DEF Tick
  <2>2. Comparing' = Comparing
    BY <1>6 DEF Tick, Comparing, At, TypeOK
  <2>3. CASE lockTTL = 0
    BY <1>1, <2>1, <2>3, LockAssumption DEF LoginInv, Less
  <2>4. CASE lockTTL = 1
    BY <1>1, <2>1, <2>4, LockAssumption DEF LoginInv, Less
  <2>5. CASE lockTTL > 1
    <3>1. Seconds(lockTTL) = 0 => Seconds(lockTTL)' = 0
      BY <1>1, <2>1, SecondsFall DEF Seconds
    <3>2. Passed' \in Nat /\ Passed \in Nat /\ Passed' <= Passed
      BY <1>1, <2>2, <3>1 DEF Passed
    <3>3. /\ failures' = 0 /\ failuresTTL' = 0 /\ lockTTL' > 0
          /\ guesses' = guesses /\ unseen' = unseen
      BY <1>1, <2>1, <2>5 DEF LoginInv, Less
    <3>4. guesses + Passed <= MaxFailures + Cardinality(Procs) - 1 + unseen
      BY <1>1, <2>5 DEF LoginInv
    <3>5. QED
      BY <1>1, <3>2, <3>3, <3>4, LockAssumption DEF LoginInv
  <2>6. QED
    BY <1>1, <2>3, <2>4, <2>5
<1>7. ASSUME NEW p \in Procs, Arrive(p) \/ Allow(p) PROVE LoginInv'
  <2>1. UNCHANGED <<login, guesses, unseen>>
    BY <1>7 DEF Arrive, Allow, history
  <2>2. Comparing' = Comparing
    BY <1>7 DEF Arrive, Allow, Finish, Idle, Comparing, At, TypeOK
  <2>3. QED
    BY <1>2, <2>1, <2>2
<1>8. CASE UNCHANGED vars
  BY <1>2, <1>8 DEF vars, history, Comparing, At
<1>9. QED
  BY <1>3, <1>4, <1>5, <1>6, <1>7, <1>8 DEF Next

(***************************************************************************)
(* From the first failure to the end of the lock no more wrong passwords   *)
(* are compared than MaxFailures and one for every other login under way,  *)
(* but for the last half second of a lock, in which IsLoginLocked reads it *)
(* as none; for any number of logins at once and any lifetimes.            *)
(***************************************************************************)
THEOREM GuessesStayBounded == Spec => []GuessesAreBounded
<1>1. Init => TypeOK /\ LoginInv
  BY BucketAssumption, LockAssumption DEF Init, TypeOK, LoginInv, Idle
<1>2. TypeOK /\ LoginInv /\ [Next]_vars => TypeOK' /\ LoginInv'
  BY TypeHolds, LoginHolds
<1>3. TypeOK /\ LoginInv => GuessesAreBounded
  <2> SUFFICES ASSUME TypeOK, LoginInv PROVE GuessesAreBounded
    OBVIOUS
  <2>1. Cardinality(Procs) \in Nat /\ Passed \in Nat
    BY ComparingCount DEF Passed
  <2>2. QED
    BY <2>1, LockAssumption DEF TypeOK, LoginInv, GuessesAreBounded
<1>4. QED
  BY <1>1, <1>2, <1>3, PTL DEF Spec
=============================================================================
