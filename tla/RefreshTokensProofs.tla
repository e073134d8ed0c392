------------------------ MODULE RefreshTokensProofs ------------------------
(***************************************************************************)
(* What holds of RefreshTokens for any number of goroutines, tokens,       *)
(* operations and failures.                                                *)
(***************************************************************************)
EXTENDS RefreshTokens, FiniteSetTheorems, TLAPS

(***************************************************************************)
(* What a goroutine with task t knows, when u is the row of the user, rs   *)
(* are the rows of its tokens, and n tokens were handed out.               *)
(***************************************************************************)

\* It only deals with tokens that were handed out.
KnownTokens(t, n) ==
  /\ t.token <= n /\ t.seen <= n
  /\ t.op = "refresh" => t.token # NoToken
  /\ t.step \in {"logoutTx", "revokeAccess"} => t.op = "logout" /\ t.access \in 1..n
  /\ t.held \subseteq 1..n /\ t.rows \subseteq 1..n

\* A login or a refresh has read the user at some earlier version.
HasRead(t, u) == t.op \in {"login", "refresh"} => t.read.authVersion <= u.authVersion

\* A refresh past FindByHashForUpdate holds its token, which is active.
HoldsActive(t, rs) ==
  t.step \in {"findUser", "exchange"} =>
    /\ t.op = "refresh"
    /\ t.held = {t.token}
    /\ rs[t.token].status = "active"

\* A suspension or deletion holds the user from its SELECT to its commit.
Suspending(t) == t.op \in {"suspend", "delete"} /\ t.step \in {"update", "lockRows"}

HoldsTheUser(t, u) ==
  /\ t.step = "update" => t.op \in {"suspend", "delete"}
  /\ Suspending(t) <=> t.holdsUser
  /\ t.holdsUser => t.read.authVersion = u.authVersion + 1

\* Every active token its UPDATE saw is locked or still to be locked.
Covers(t, rs) ==
  Suspending(t) /\ t.step = "lockRows" =>
    \A i \in 1..t.seen : rs[i].status = "active" => i \in t.rows \cup t.held

GoodTask(t, u, rs, n) ==
  /\ KnownTokens(t, n)
  /\ HasRead(t, u)
  /\ HoldsActive(t, rs)
  /\ HoldsTheUser(t, u)
  /\ Covers(t, rs)

(***************************************************************************)
(* The rows and what was handed out.                                       *)
(***************************************************************************)
SharedTypes ==
  /\ user \in Users
  /\ tokens \in [TokenIds -> Rows]
  /\ issued \in 0..MaxTokens
  /\ families \in 0..MaxTokens
  /\ late \subseteq TokenIds
  /\ access \in [TokenIds -> Nat]
  /\ revoked \subseteq TokenIds
  /\ begun \in Nat
  /\ faults \in Nat

NotYetIssued == \A t \in TokenIds : t > issued => tokens[t] = NoRow /\ access[t] = 0
KnownFamilies == families <= issued /\ \A t \in TokenIds : tokens[t].family <= families
NotAhead == \A t \in TokenIds : access[t] <= user.authVersion

SharedInv ==
  /\ SharedTypes
  /\ NotYetIssued
  /\ KnownFamilies
  /\ NotAhead
  /\ OneActivePerFamily

(***************************************************************************)
(* The goroutines: each knows what it should, no two hold the same row,    *)
(* and the tokens they may still hand out fit.                             *)
(***************************************************************************)
Exclusive ==
  \A p, q \in Processes : p # q =>
    /\ task[p].held \cap task[q].held = {}
    /\ ~(task[p].holdsUser /\ task[q].holdsUser)

TasksInv ==
  /\ task \in [Processes -> Tasks]
  /\ \A p \in Processes : GoodTask(task[p], user, tokens, issued)
  /\ Exclusive
  /\ issued + Expected <= MaxTokens

TokensInv == SharedInv /\ TasksInv
----------------------------------------------------------------------------
LEMMA IdleIsGood ==
  /\ Idle \in Tasks
  /\ \A u, rs : \A n \in Nat : GoodTask(Idle, u, rs, n)
<1>1. Idle \in Tasks
  BY BoundsAssumption DEF Idle, Tasks, Operations, Steps, Users, UserStatuses, NoUser, NoToken
<1>2. \A u, rs : \A n \in Nat : GoodTask(Idle, u, rs, n)
  BY DEF Idle, NoToken, GoodTask, KnownTokens, HasRead, HoldsActive, HoldsTheUser,
         Suspending, Covers
<1>3. QED
  BY <1>1, <1>2

\* How the number of tokens still to be handed out moves with one task.
Hands(t) == t.op \in {"login", "refresh"}

LEMMA ExpectedMoves ==
  ASSUME task \in [Processes -> Tasks],
         NEW p \in Processes, NEW t \in Tasks,
         task' = [task EXCEPT ![p] = t]
  PROVE  /\ Expected \in Nat /\ Expected' \in Nat
         /\ Expected' <= Expected + 1
         /\ Hands(task[p]) \/ ~Hands(t) => Expected' <= Expected
         /\ Hands(task[p]) /\ ~Hands(t) => Expected' = Expected - 1
<1> DEFINE H == {q \in Processes : task[q].op \in {"login", "refresh"}}
           K == {q \in Processes : task'[q].op \in {"login", "refresh"}}
<1>1. IsFiniteSet(H) /\ IsFiniteSet(K)
  BY ProcessesAssumption, FS_Subset
<1>2. Cardinality(H) \in Nat /\ Cardinality(K) \in Nat
  BY <1>1, FS_CardinalityType
<1>3. task'[p] = t /\ \A q \in Processes \ {p} : task'[q] = task[q]
  OBVIOUS
<1>4. CASE Hands(t)
  <2>1. K = H \cup {p}
    BY <1>3, <1>4 DEF Hands
  <2>2. p \in H <=> Hands(task[p])
    BY DEF Hands
  <2>3. Cardinality(K) = IF p \in H THEN Cardinality(H) ELSE Cardinality(H) + 1
    BY <2>1, <1>1, FS_AddElement
  <2> HIDE DEF H, K
  <2>4. QED
    BY <2>2, <2>3, <1>2, <1>4 DEF Expected, H, K
<1>5. CASE ~Hands(t)
  <2>1. K = H \ {p}
    BY <1>3, <1>5 DEF Hands
  <2>2. p \in H <=> Hands(task[p])
    BY DEF Hands
  <2>3. Cardinality(K) = IF p \in H THEN Cardinality(H) - 1 ELSE Cardinality(H)
    BY <2>1, <1>1, FS_RemoveElement
  <2>4. QED
    BY <2>2, <2>3, <1>2, <1>5 DEF Expected
<1>6. QED
  BY <1>4, <1>5
----------------------------------------------------------------------------
(***************************************************************************)
(* How a step looks to the goroutines that do not take it.                 *)
(***************************************************************************)

\* Tokens that were handed out do not become active; the versions move on.
Onward ==
  /\ issued <= issued' /\ issued' \in Nat
  /\ user' \in Users /\ user.authVersion <= user'.authVersion
  /\ \A i \in 1..issued : tokens'[i].status = "active" => tokens[i].status = "active"

\* What goroutine q has locked stays as it is.
LeavesLocked(q) ==
  /\ \A i \in task[q].held : tokens'[i] = tokens[i]
  /\ task[q].holdsUser => user' = user

LEMMA OthersStayGood ==
  ASSUME TokensInv, NEW q \in Processes, Onward, LeavesLocked(q)
  PROVE  GoodTask(task[q], user', tokens', issued')
<1> DEFINE t == task[q]
<1>1. /\ t \in Tasks /\ GoodTask(t, user, tokens, issued)
      /\ user \in Users /\ issued \in Nat /\ issued' \in Nat /\ user' \in Users
  BY DEF TokensInv, TasksInv, SharedInv, SharedTypes, Onward
<1>2. /\ t.token \in Nat /\ t.seen \in Nat /\ t.read.authVersion \in Nat
      /\ user.authVersion \in Nat /\ user'.authVersion \in Nat
  BY <1>1 DEF Tasks, Users
<1>3. KnownTokens(t, issued')
  BY <1>1, <1>2 DEF GoodTask, KnownTokens, Onward
<1>4. HasRead(t, user')
  BY <1>1, <1>2 DEF GoodTask, HasRead, Onward
<1>5. HoldsActive(t, tokens')
  BY <1>1 DEF GoodTask, HoldsActive, LeavesLocked
<1>6. HoldsTheUser(t, user')
  BY <1>1 DEF GoodTask, HoldsTheUser, LeavesLocked
<1>7. Covers(t, tokens')
  BY <1>1, <1>2 DEF GoodTask, Covers, KnownTokens, Onward
<1>8. QED
  BY <1>3, <1>4, <1>5, <1>6, <1>7 DEF GoodTask

\* A step changes the task of one goroutine.
LEMMA OneTask ==
  ASSUME TokensInv, NEW p \in Processes, NEW t \in Tasks,
         task' = [task EXCEPT ![p] = t],
         GoodTask(t, user', tokens', issued'),
         Onward, \A q \in Processes \ {p} : LeavesLocked(q),
         \A q \in Processes \ {p} : t.held \cap task[q].held = {},
         t.holdsUser => \A q \in Processes \ {p} : ~task[q].holdsUser,
         issued' + Expected' <= MaxTokens
  PROVE  TasksInv'
<1>1. task \in [Processes -> Tasks] /\ Exclusive
  BY DEF TokensInv, TasksInv
<1>2. task' \in [Processes -> Tasks]
  BY <1>1
<1>3. task'[p] = t /\ \A q \in Processes \ {p} : task'[q] = task[q]
  BY <1>1
<1>4. \A q \in Processes : GoodTask(task'[q], user', tokens', issued')
  BY <1>3, OthersStayGood
<1>5. Exclusive'
  BY <1>1, <1>3 DEF Exclusive
<1>6. QED
  BY <1>2, <1>4, <1>5 DEF TasksInv

\* The common case: nothing but the task changes that tasks care about.
LEMMA QuietStep ==
  ASSUME TokensInv, NEW p \in Processes, NEW t \in Tasks,
         task' = [task EXCEPT ![p] = t],
         GoodTask(t, user, tokens, issued),
         UNCHANGED <<account, handedOut>>,
         late' \subseteq TokenIds, revoked' \subseteq TokenIds,
         begun' \in Nat, faults' \in Nat,
         \A q \in Processes \ {p} : t.held \cap task[q].held = {},
         t.holdsUser => \A q \in Processes \ {p} : ~task[q].holdsUser,
         issued + Expected' <= MaxTokens
  PROVE  TokensInv'
<1>1. user' = user /\ tokens' = tokens /\ issued' = issued /\ families' = families
      /\ access' = access
  BY DEF account, handedOut
<1>2. SharedInv
  BY DEF TokensInv
<1>3. SharedInv'
  BY <1>1, <1>2 DEF SharedInv, SharedTypes, NotYetIssued, KnownFamilies, NotAhead,
                    OneActivePerFamily, IsActive
<1>4. Onward /\ \A q \in Processes : LeavesLocked(q)
  BY <1>1, <1>2 DEF SharedInv, SharedTypes, Users, Onward, LeavesLocked
<1>5. TasksInv'
  BY <1>1, <1>4, OneTask
<1>6. QED
  BY <1>3, <1>5 DEF TokensInv

\* Ending an operation releases what it holds.
LEMMA QuietFinish ==
  ASSUME TokensInv, NEW p \in Processes, Finish(p),
         UNCHANGED <<account, handedOut>>,
         late' \subseteq TokenIds, revoked' \subseteq TokenIds,
         begun' \in Nat, faults' \in Nat
  PROVE  TokensInv'
<1>1. task' = [task EXCEPT ![p] = Idle]
  BY DEF Finish
<1>2. issued \in Nat /\ MaxTokens \in Nat /\ task \in [Processes -> Tasks]
      /\ issued + Expected <= MaxTokens
  BY BoundsAssumption DEF TokensInv, TasksInv, SharedInv, SharedTypes
<1>3. Expected' <= Expected /\ Expected \in Nat /\ Expected' \in Nat
  BY <1>1, <1>2, IdleIsGood, ExpectedMoves DEF Hands, Idle
<1>4. issued + Expected' <= MaxTokens
  <2>1. \A a, b, c, d \in Nat : a + b <= c /\ d <= b => a + d <= c
    OBVIOUS
  <2>2. QED
    BY <1>2, <1>3, <2>1
<1>5. GoodTask(Idle, user, tokens, issued)
  BY <1>2, IdleIsGood
<1>6. Idle.held = {} /\ ~Idle.holdsUser
  BY DEF Idle
<1>7. QED
  BY <1>1, <1>4, <1>5, <1>6, IdleIsGood, QuietStep

\* Rows that were handed out stop being active, or are deleted.
LEMMA FadingKeepsShared ==
  ASSUME SharedInv,
         tokens' \in [TokenIds -> Rows],
         \A i \in TokenIds : tokens'[i] = tokens[i] \/
            (i <= issued /\ tokens'[i].status # "active" /\ tokens'[i].family <= families),
         user' \in Users, user.authVersion <= user'.authVersion,
         UNCHANGED handedOut,
         late' \subseteq TokenIds, revoked' \subseteq TokenIds,
         begun' \in Nat, faults' \in Nat
  PROVE  SharedInv' /\ Onward
<1>1. issued' = issued /\ families' = families /\ access' = access
  BY DEF handedOut
<1>2. /\ SharedTypes /\ user.authVersion \in Nat /\ user'.authVersion \in Nat
      /\ issued \in Nat /\ families \in Nat
  BY DEF SharedInv, SharedTypes, Users
<1>3. SharedTypes'
  BY <1>1, <1>2 DEF SharedTypes
<1>4. NotYetIssued'
  BY <1>1, <1>2 DEF SharedInv, SharedTypes, NotYetIssued, TokenIds
<1>5. KnownFamilies'
  BY <1>1, <1>2 DEF SharedInv, KnownFamilies
<1>6. NotAhead'
  BY <1>1, <1>2 DEF SharedInv, SharedTypes, NotAhead
<1>7. OneActivePerFamily'
  BY DEF SharedInv, OneActivePerFamily, IsActive
<1>8. Onward
  BY <1>1, <1>2, BoundsAssumption DEF Onward, SharedTypes, TokenIds
<1>9. QED
  BY <1>3, <1>4, <1>5, <1>6, <1>7, <1>8 DEF SharedInv
----------------------------------------------------------------------------
(***************************************************************************)
(* The beginning of an operation.                                          *)
(***************************************************************************)
LEMMA Facts ==
  ASSUME TokensInv, NEW p \in Processes
  PROVE  /\ task \in [Processes -> Tasks] /\ task[p] \in Tasks
         /\ GoodTask(task[p], user, tokens, issued)
         /\ SharedInv /\ SharedTypes
         /\ issued \in Nat /\ MaxTokens \in Nat /\ issued <= MaxTokens
         /\ Expected \in Nat /\ issued + Expected <= MaxTokens
<1>1. task \in [Processes -> Tasks] /\ task[p] \in Tasks
  BY DEF TokensInv, TasksInv
<1>2. task = [task EXCEPT ![p] = task[p]]
  BY <1>1
<1>3. Expected \in Nat
  <2>1. IsFiniteSet({q \in Processes : task[q].op \in {"login", "refresh"}})
    BY ProcessesAssumption, FS_Subset
  <2>2. QED
    BY <2>1, FS_CardinalityType DEF Expected
<1>4. QED
  BY <1>1, <1>3, BoundsAssumption DEF TokensInv, TasksInv, SharedInv, SharedTypes

LEMMA BeginStep ==
  ASSUME TokensInv, NEW p \in Processes, NEW t \in Tasks, Begin(p, t),
         GoodTask(t, user, tokens, issued), t.held = {}, ~t.holdsUser,
         ~Hands(t) \/ issued + Expected < MaxTokens
  PROVE  TokensInv'
<1>1. task' = [task EXCEPT ![p] = t] /\ begun' = begun + 1
      /\ UNCHANGED <<account, handedOut, late, revoked, faults>>
  BY DEF Begin
<1>2. begun' \in Nat /\ late' \subseteq TokenIds /\ revoked' \subseteq TokenIds /\ faults' \in Nat
  BY <1>1, Facts DEF SharedTypes
<1>3. /\ Expected' \in Nat /\ Expected' <= Expected + 1
      /\ ~Hands(t) => Expected' <= Expected
  BY <1>1, Facts, ExpectedMoves
<1>4. issued + Expected' <= MaxTokens
  <2>1. \A a, b, c, d \in Nat : (a + b <= c /\ d <= b) \/ (a + b < c /\ d <= b + 1)
          => a + d <= c
    OBVIOUS
  <2>2. QED
    BY <1>3, <2>1, Facts
<1>5. QED
  BY <1>1, <1>2, <1>4, QuietStep

LEMMA StartStep ==
  ASSUME TokensInv, NEW p \in Processes, Start(p)
  PROVE  TokensInv'
<1> USE DEF GoodTask, KnownTokens, HasRead, HoldsActive, HoldsTheUser, Suspending, Covers
<1>1. CASE Login(p)
  <2> DEFINE t == [Idle EXCEPT !.op = "login", !.step = "create", !.read = user]
  <2>1. t \in Tasks
    BY IdleIsGood, Facts DEF Tasks, Operations, Steps, SharedTypes
  <2>2. GoodTask(t, user, tokens, issued) /\ t.held = {} /\ ~t.holdsUser
    BY Facts DEF Idle, NoToken, SharedTypes, Users
  <2>3. Begin(p, t) /\ issued + Expected < MaxTokens
    BY <1>1 DEF Login
  <2> HIDE DEF t
  <2>4. QED
    BY <2>1, <2>2, <2>3, BeginStep
<1>2. CASE Refresh(p)
  <2>1. PICK i \in 1..issued :
          Begin(p, [Idle EXCEPT !.op = "refresh", !.step = "find", !.token = i,
                                !.wasLate = i \in late])
    BY <1>2 DEF Refresh
  <2> DEFINE t == [Idle EXCEPT !.op = "refresh", !.step = "find", !.token = i,
                               !.wasLate = i \in late]
  <2>2. i \in Nat /\ i <= issued /\ i \in 0..MaxTokens
    BY Facts
  <2>3. t \in Tasks
    <3>1. \A b \in BOOLEAN :
            [Idle EXCEPT !.op = "refresh", !.step = "find", !.token = i,
                         !.wasLate = b] \in Tasks
      BY <2>2, IdleIsGood DEF Tasks, Operations, Steps
    <3>2. (i \in late) \in BOOLEAN
      OBVIOUS
    <3>3. QED
      BY <3>1, <3>2
  <2>4. GoodTask(t, user, tokens, issued) /\ t.held = {} /\ ~t.holdsUser
    BY <2>2, Facts DEF Idle, NoUser, NoToken, SharedTypes, Users
  <2>5. issued + Expected < MaxTokens
    BY <1>2 DEF Refresh
  <2> HIDE DEF t
  <2>6. QED
    BY <2>1, <2>3, <2>4, <2>5, BeginStep DEF t
<1>3. CASE Logout(p)
  <2>1. PICK a \in 1..issued, i \in 0..issued :
          Begin(p, [Idle EXCEPT !.op = "logout", !.access = a, !.token = i,
                                !.step = IF i = NoToken THEN "revokeAccess" ELSE "logoutTx"])
    BY <1>3 DEF Logout
  <2> DEFINE t == [Idle EXCEPT !.op = "logout", !.access = a, !.token = i,
                               !.step = IF i = NoToken THEN "revokeAccess" ELSE "logoutTx"]
  <2>2. a \in 0..MaxTokens /\ i \in Nat /\ i <= issued /\ i \in 0..MaxTokens
    BY Facts
  <2>3. t \in Tasks
    BY <2>2, IdleIsGood DEF Tasks, Operations, Steps
  <2>4. GoodTask(t, user, tokens, issued) /\ t.held = {} /\ ~t.holdsUser /\ ~Hands(t)
    BY <2>2, Facts DEF Idle, Hands
  <2> HIDE DEF t
  <2>5. QED
    BY <2>1, <2>3, <2>4, BeginStep DEF t
<1>4. CASE ChangeAccount(p)
  <2>1. PICK op \in {"suspend", "reactivate", "delete"} :
          Begin(p, [Idle EXCEPT !.op = op, !.step = "lockUser"])
    BY <1>4 DEF ChangeAccount
  <2> DEFINE t == [Idle EXCEPT !.op = op, !.step = "lockUser"]
  <2>2. t \in Tasks
    BY IdleIsGood DEF Tasks, Operations, Steps
  <2>3. GoodTask(t, user, tokens, issued) /\ t.held = {} /\ ~t.holdsUser /\ ~Hands(t)
    BY Facts DEF Idle, Hands, NoToken
  <2> HIDE DEF t
  <2>4. QED
    BY <2>1, <2>2, <2>3, BeginStep DEF t
<1>5. CASE MarkExpiredBefore(p)
  <2> DEFINE t == [Idle EXCEPT !.op = "markExpired", !.step = "lockRows",
                               !.rows = late \cap ActiveOrRotated, !.seen = issued]
  <2>1. late \cap ActiveOrRotated \subseteq 1..issued
    BY Facts DEF SharedInv, NotYetIssued, ActiveOrRotated, NoRow, TokenIds
  <2>2. t \in Tasks
    <3>1. \A R \in SUBSET TokenIds : \A n \in 0..MaxTokens :
            [Idle EXCEPT !.op = "markExpired", !.step = "lockRows",
                         !.rows = R, !.seen = n] \in Tasks
      BY IdleIsGood DEF Tasks, Operations, Steps
    <3>2. late \cap ActiveOrRotated \in SUBSET TokenIds /\ issued \in 0..MaxTokens
      BY Facts DEF ActiveOrRotated
    <3>3. QED
      BY <3>1, <3>2
  <2>3. GoodTask(t, user, tokens, issued) /\ t.held = {} /\ ~t.holdsUser /\ ~Hands(t)
    BY <2>1, Facts DEF Idle, Hands, NoToken
  <2>4. Begin(p, t)
    BY <1>5 DEF MarkExpiredBefore
  <2> HIDE DEF t
  <2>5. QED
    BY <2>2, <2>3, <2>4, BeginStep
<1>6. QED
  BY <1>1, <1>2, <1>3, <1>4, <1>5 DEF Start
----------------------------------------------------------------------------
(***************************************************************************)
(* The steps of an operation that leave the rows alone.                    *)
(***************************************************************************)
LEMMA GoOn ==
  ASSUME TokensInv, NEW p \in Processes, NEW t \in Tasks,
         task' = [task EXCEPT ![p] = t],
         GoodTask(t, user, tokens, issued),
         UNCHANGED <<account, handedOut, late, revoked, begun, faults>>,
         \A q \in Processes \ {p} : t.held \cap task[q].held = {},
         t.holdsUser => \A q \in Processes \ {p} : ~task[q].holdsUser,
         Hands(task[p]) \/ ~Hands(t)
  PROVE  TokensInv'
<1>1. Expected' \in Nat /\ Expected' <= Expected
  BY Facts, ExpectedMoves
<1>2. issued + Expected' <= MaxTokens
  <2>1. \A a, b, c, d \in Nat : a + b <= c /\ d <= b => a + d <= c
    OBVIOUS
  <2>2. QED
    BY <1>1, <2>1, Facts
<1>3. late' \subseteq TokenIds /\ revoked' \subseteq TokenIds /\ begun' \in Nat /\ faults' \in Nat
  BY Facts DEF SharedTypes
<1>4. QED
  BY <1>2, <1>3, QuietStep

\* Nobody else holds what p holds.
LEMMA OthersHoldOther ==
  ASSUME TokensInv, NEW p \in Processes
  PROVE  \A q \in Processes \ {p} :
           /\ task[p].held \cap task[q].held = {}
           /\ ~(task[p].holdsUser /\ task[q].holdsUser)
BY DEF TokensInv, TasksInv, Exclusive

\* The rows that an UPDATE looks for were handed out.
LEMMA OnlyIssuedHaveRows ==
  ASSUME SharedInv
  PROVE  /\ \A i \in TokenIds : tokens[i].status # "none" => i \in 1..issued
         /\ ActiveOrRotated \subseteq 1..issued
         /\ \A f : ActiveInFamily(f) \subseteq 1..issued
<1>1. \A i \in TokenIds : tokens[i].status # "none" => i \in 1..issued
  BY BoundsAssumption DEF SharedInv, SharedTypes, NotYetIssued, NoRow, TokenIds
<1>2. QED
  BY <1>1 DEF ActiveOrRotated, ActiveInFamily, IsActive

LEMMA RefreshFindStep ==
  ASSUME TokensInv, NEW p \in Processes, RefreshFind(p)
  PROVE  TokensInv'
<1> DEFINE i == task[p].token
<1>1. /\ task[p].op = "refresh" /\ task[p].step = "find" /\ Free(i, p)
      /\ UNCHANGED <<account, handedOut, late, revoked, begun, faults>>
  BY DEF RefreshFind, At
<1>2. i \in 1..issued /\ i \in TokenIds /\ ~task[p].holdsUser
  BY <1>1, Facts DEF Tasks, GoodTask, KnownTokens, HoldsTheUser, Suspending, NoToken, TokenIds
<1>3. CASE Finish(p)
  BY <1>1, <1>3, Facts, QuietFinish DEF SharedTypes
<1>4. CASE task' = [task EXCEPT ![p].op = "reuse", ![p].step = "lockRows",
                                ![p].held = {i}, ![p].seen = issued,
                                ![p].rows = ActiveInFamily(tokens[i].family)]
  <2> DEFINE t == [task[p] EXCEPT !.op = "reuse", !.step = "lockRows",
                                  !.held = {i}, !.seen = issued,
                                  !.rows = ActiveInFamily(tokens[i].family)]
  <2>1. ActiveInFamily(tokens[i].family) \in SUBSET TokenIds
        /\ ActiveInFamily(tokens[i].family) \subseteq 1..issued
    BY Facts, OnlyIssuedHaveRows DEF ActiveInFamily
  <2>2. t \in Tasks
    <3>1. \A R, H \in SUBSET TokenIds : \A n \in 0..MaxTokens :
            [task[p] EXCEPT !.op = "reuse", !.step = "lockRows",
                            !.held = H, !.seen = n, !.rows = R] \in Tasks
      BY Facts DEF Tasks, Operations, Steps
    <3>2. {i} \in SUBSET TokenIds /\ issued \in 0..MaxTokens
      BY <1>2, Facts
    <3>3. QED
      BY <2>1, <3>1, <3>2
  <2>3. task' = [task EXCEPT ![p] = t]
    BY <1>4, Facts
  <2>4. t.op = "reuse" /\ t.step = "lockRows" /\ t.held = {i} /\ t.seen = issued
        /\ t.rows = ActiveInFamily(tokens[i].family) /\ t.token = i /\ ~t.holdsUser
    BY <1>2, Facts DEF Tasks
  <2> HIDE DEF t
  <2>5. GoodTask(t, user, tokens, issued)
    BY <1>2, <2>1, <2>4, Facts
    DEF GoodTask, KnownTokens, HasRead, HoldsActive, HoldsTheUser, Suspending, Covers
  <2>6. \A q \in Processes \ {p} : t.held \cap task[q].held = {}
    BY <1>1, <2>4 DEF Free
  <2>7. QED
    BY <1>1, <2>2, <2>3, <2>4, <2>5, <2>6, GoOn DEF Hands
<1>5. CASE /\ task' = [task EXCEPT ![p].step = "findUser", ![p].held = {i}]
           /\ Exchangeable(i)
  <2> DEFINE t == [task[p] EXCEPT !.step = "findUser", !.held = {i}]
  <2>1. t \in Tasks
    BY <1>2, Facts DEF Tasks, Steps
  <2>2. task' = [task EXCEPT ![p] = t]
    BY <1>5, Facts
  <2>3. t.step = "findUser" /\ t.held = {i} /\ t.op = "refresh" /\ t.token = i
        /\ ~t.holdsUser /\ t.read = task[p].read /\ t.rows = task[p].rows /\ t.seen = task[p].seen
    BY <1>1, <1>2, Facts DEF Tasks
  <2>4. tokens[i].status = "active"
    BY <1>5 DEF Exchangeable, IsActive
  <2> HIDE DEF t
  <2>5. GoodTask(t, user, tokens, issued)
    BY <1>1, <1>2, <2>3, <2>4, Facts
    DEF GoodTask, KnownTokens, HasRead, HoldsActive, HoldsTheUser, Suspending, Covers
  <2>6. \A q \in Processes \ {p} : t.held \cap task[q].held = {}
    BY <1>1, <2>3 DEF Free
  <2>7. QED
    BY <1>1, <2>1, <2>2, <2>3, <2>5, <2>6, GoOn DEF Hands
<1>6. QED
  BY <1>3, <1>4, <1>5 DEF RefreshFind

LEMMA RefreshFindUserStep ==
  ASSUME TokensInv, NEW p \in Processes, RefreshFindUser(p)
  PROVE  TokensInv'
<1>1. task[p].step = "findUser"
      /\ UNCHANGED <<account, handedOut, late, revoked, begun, faults>>
  BY DEF RefreshFindUser, At
<1>2. CASE Finish(p)
  BY <1>1, <1>2, Facts, QuietFinish DEF SharedTypes
<1>3. CASE task' = [task EXCEPT ![p].step = "exchange", ![p].read = user]
  <2> DEFINE t == [task[p] EXCEPT !.step = "exchange", !.read = user]
  <2>1. t \in Tasks
    BY Facts DEF Tasks, Steps, SharedTypes
  <2>2. task' = [task EXCEPT ![p] = t]
    BY <1>3, Facts
  <2>3. /\ t.step = "exchange" /\ t.read = user
        /\ t.op = task[p].op /\ t.token = task[p].token /\ t.held = task[p].held
        /\ t.holdsUser = task[p].holdsUser /\ t.rows = task[p].rows /\ t.seen = task[p].seen
    BY Facts DEF Tasks
  <2>4. user.authVersion \in Nat
    BY Facts DEF SharedTypes, Users
  <2> HIDE DEF t
  <2>5. GoodTask(t, user, tokens, issued)
    BY <1>1, <2>3, <2>4, Facts
    DEF GoodTask, KnownTokens, HasRead, HoldsActive, HoldsTheUser, Suspending, Covers
  <2>6. \A q \in Processes \ {p} : /\ t.held \cap task[q].held = {}
                                   /\ t.holdsUser => ~task[q].holdsUser
    BY <2>3, OthersHoldOther
  <2>7. QED
    BY <1>1, <2>1, <2>2, <2>3, <2>5, <2>6, GoOn DEF Hands
<1>4. QED
  BY <1>2, <1>3 DEF RefreshFindUser

LEMMA LockRowStep ==
  ASSUME TokensInv, NEW p \in Processes, LockRow(p)
  PROVE  TokensInv'
<1>1. task[p].step = "lockRows"
      /\ UNCHANGED <<account, handedOut, late, revoked, begun, faults>>
  BY DEF LockRow, At
<1>2. PICK i \in task[p].rows :
        Free(i, p) /\ task' = [task EXCEPT ![p].rows = @ \ {i}, ![p].held = @ \cup {i}]
  BY DEF LockRow
<1> DEFINE t == [task[p] EXCEPT !.rows = @ \ {i}, !.held = @ \cup {i}]
<1>3. task[p].rows \subseteq TokenIds /\ task[p].held \subseteq TokenIds
  BY Facts DEF Tasks
<1>4. t \in Tasks
  <2>1. \A R, H \in SUBSET TokenIds : [task[p] EXCEPT !.rows = R, !.held = H] \in Tasks
    BY Facts DEF Tasks
  <2>2. task[p].rows \ {i} \in SUBSET TokenIds /\ task[p].held \cup {i} \in SUBSET TokenIds
    BY <1>2, <1>3
  <2>3. QED
    BY <2>1, <2>2
<1>5. task' = [task EXCEPT ![p] = t]
  BY <1>2, Facts
<1>6. /\ t.rows = task[p].rows \ {i} /\ t.held = task[p].held \cup {i}
      /\ t.step = task[p].step /\ t.op = task[p].op /\ t.token = task[p].token
      /\ t.access = task[p].access /\ t.holdsUser = task[p].holdsUser
      /\ t.seen = task[p].seen /\ t.read = task[p].read
  BY Facts DEF Tasks
<1> HIDE DEF t
<1>7. GoodTask(t, user, tokens, issued)
  BY <1>1, <1>2, <1>6, Facts
  DEF GoodTask, KnownTokens, HasRead, HoldsActive, HoldsTheUser, Suspending, Covers
<1>8. \A q \in Processes \ {p} : /\ t.held \cap task[q].held = {}
                                 /\ t.holdsUser => ~task[q].holdsUser
  BY <1>2, <1>6, OthersHoldOther DEF Free
<1>9. QED
  BY <1>1, <1>4, <1>5, <1>6, <1>7, <1>8, GoOn DEF Hands

LEMMA RevokeAllStep ==
  ASSUME TokensInv, NEW p \in Processes, RevokeAllByUserID(p)
  PROVE  TokensInv'
<1>1. task[p].step = "update"
      /\ UNCHANGED <<account, handedOut, late, revoked, begun, faults>>
  BY DEF RevokeAllByUserID, At
<1> DEFINE t == [task[p] EXCEPT !.step = "lockRows", !.rows = ActiveOrRotated, !.seen = issued]
<1>2. t \in Tasks
  <2>1. \A R \in SUBSET TokenIds : \A n \in 0..MaxTokens :
          [task[p] EXCEPT !.step = "lockRows", !.rows = R, !.seen = n] \in Tasks
    BY Facts DEF Tasks, Steps
  <2>2. ActiveOrRotated \in SUBSET TokenIds /\ issued \in 0..MaxTokens
    BY Facts DEF ActiveOrRotated
  <2>3. QED
    BY <2>1, <2>2
<1>3. task' = [task EXCEPT ![p] = t]
  BY Facts DEF RevokeAllByUserID
<1>4. /\ t.step = "lockRows" /\ t.rows = ActiveOrRotated /\ t.seen = issued
      /\ t.op = task[p].op /\ t.held = task[p].held /\ t.token = task[p].token
      /\ t.access = task[p].access /\ t.holdsUser = task[p].holdsUser
      /\ t.read = task[p].read
  BY Facts DEF Tasks
<1> HIDE DEF t
<1>5. ActiveOrRotated \subseteq 1..issued
  BY Facts, OnlyIssuedHaveRows
<1>6. \A i \in 1..issued : tokens[i].status = "active" => i \in ActiveOrRotated
  BY Facts DEF ActiveOrRotated, TokenIds
<1>7. GoodTask(t, user, tokens, issued)
  BY <1>1, <1>4, <1>5, <1>6, Facts
  DEF GoodTask, KnownTokens, HasRead, HoldsActive, HoldsTheUser, Suspending, Covers
<1>8. \A q \in Processes \ {p} : /\ t.held \cap task[q].held = {}
                                 /\ t.holdsUser => ~task[q].holdsUser
  BY <1>4, OthersHoldOther
<1>9. QED
  BY <1>1, <1>2, <1>3, <1>4, <1>7, <1>8, GoOn DEF Hands

LEMMA RevokeAccessStep ==
  ASSUME TokensInv, NEW p \in Processes, RevokeAccessToken(p)
  PROVE  TokensInv'
<1>1. /\ task[p].step = "revokeAccess" /\ revoked' = revoked \cup {task[p].access}
      /\ Finish(p) /\ UNCHANGED <<account, handedOut, late, begun, faults>>
  BY DEF RevokeAccessToken, At
<1>2. task[p].access \in TokenIds
  BY <1>1, Facts DEF GoodTask, KnownTokens, TokenIds
<1>3. revoked' \subseteq TokenIds /\ late' \subseteq TokenIds /\ begun' \in Nat /\ faults' \in Nat
  BY <1>1, <1>2, Facts DEF SharedTypes
<1>4. QED
  BY <1>1, <1>3, QuietFinish
----------------------------------------------------------------------------
(***************************************************************************)
(* The commits that end tokens.                                            *)
(***************************************************************************)
LEMMA FadeStep ==
  ASSUME TokensInv, NEW p \in Processes, NEW t \in Tasks,
         task' = [task EXCEPT ![p] = t],
         GoodTask(t, user', tokens', issued),
         tokens' \in [TokenIds -> Rows],
         \A i \in TokenIds : tokens'[i] = tokens[i] \/
            (i <= issued /\ tokens'[i].status # "active" /\ tokens'[i].family <= families),
         user' \in Users, user.authVersion <= user'.authVersion,
         UNCHANGED <<handedOut, late, revoked, begun, faults>>,
         \A q \in Processes \ {p} : LeavesLocked(q),
         \A q \in Processes \ {p} : t.held \cap task[q].held = {},
         ~t.holdsUser, Hands(task[p]) \/ ~Hands(t)
  PROVE  TokensInv'
<1>1. late' \subseteq TokenIds /\ revoked' \subseteq TokenIds /\ begun' \in Nat /\ faults' \in Nat
      /\ issued' = issued /\ UNCHANGED handedOut
  BY Facts DEF SharedTypes, handedOut
<1>2. SharedInv' /\ Onward
  BY <1>1, Facts, FadingKeepsShared
<1>3. Expected' \in Nat /\ Expected' <= Expected
  BY Facts, ExpectedMoves
<1>4. issued' + Expected' <= MaxTokens
  <2>1. \A a, b, c, d \in Nat : a + b <= c /\ d <= b => a + d <= c
    OBVIOUS
  <2>2. QED
    BY <1>1, <1>3, <2>1, Facts
<1>5. TasksInv'
  BY <1>1, <1>2, <1>4, OneTask
<1>6. QED
  BY <1>2, <1>5 DEF TokensInv

LEMMA SetStatusFades ==
  ASSUME SharedInv, NEW S \in SUBSET {i \in TokenIds : tokens[i].status # "none"},
         NEW status \in TokenStatuses \ {"active"}, SetStatus(S, status)
  PROVE  /\ tokens' \in [TokenIds -> Rows]
         /\ \A i \in TokenIds : tokens'[i] = tokens[i] \/
              (i <= issued /\ tokens'[i].status # "active" /\ tokens'[i].family <= families)
         /\ \A i \in TokenIds \ S : tokens'[i] = tokens[i]
<1>1. tokens \in [TokenIds -> Rows] /\ \A i \in TokenIds : tokens[i].family <= families
  BY DEF SharedInv, SharedTypes, KnownFamilies
<1>2. \A i \in TokenIds : [tokens[i] EXCEPT !.status = status] \in Rows
  BY <1>1 DEF Rows
<1>3. tokens' \in [TokenIds -> Rows]
  BY <1>1, <1>2 DEF SetStatus
<1>4. \A i \in TokenIds : i \notin S => tokens'[i] = tokens[i]
  BY DEF SetStatus
<1>5. \A i \in S : i <= issued /\ tokens'[i].status # "active" /\ tokens'[i].family <= families
  <2>1. TAKE i \in S
  <2>2. i \in TokenIds /\ i \in 1..issued
    BY OnlyIssuedHaveRows
  <2>3. tokens'[i] = [tokens[i] EXCEPT !.status = status]
    BY <2>2 DEF SetStatus
  <2>4. i <= issued
    BY <2>2 DEF SharedInv, SharedTypes
  <2>5. QED
    BY <1>1, <2>2, <2>3, <2>4 DEF Rows
<1>6. QED
  BY <1>3, <1>4, <1>5

LEMMA LogoutTxStep ==
  ASSUME TokensInv, NEW p \in Processes, LogoutTx(p)
  PROVE  TokensInv'
<1> DEFINE t == [task[p] EXCEPT !.step = "revokeAccess"]
           S == {task[p].token} \cap ActiveOrRotated
<1>1. /\ task[p].step = "logoutTx" /\ Free(task[p].token, p) /\ SetStatus(S, "revoked")
      /\ task' = [task EXCEPT ![p].step = "revokeAccess"]
      /\ UNCHANGED <<user, handedOut, late, revoked, begun, faults>>
  BY DEF LogoutTx, At
<1>2. t \in Tasks /\ task' = [task EXCEPT ![p] = t]
  BY <1>1, Facts DEF Tasks, Steps
<1>3. /\ t.step = "revokeAccess" /\ t.op = task[p].op /\ t.token = task[p].token
      /\ t.access = task[p].access /\ t.seen = task[p].seen /\ t.rows = task[p].rows
      /\ t.held = task[p].held /\ t.holdsUser = task[p].holdsUser /\ t.read = task[p].read
  BY Facts DEF Tasks
<1>4. S \in SUBSET {i \in TokenIds : tokens[i].status # "none"}
  BY DEF ActiveOrRotated
<1> HIDE DEF t, S
<1>5. /\ tokens' \in [TokenIds -> Rows]
      /\ \A i \in TokenIds : tokens'[i] = tokens[i] \/
           (i <= issued /\ tokens'[i].status # "active" /\ tokens'[i].family <= families)
      /\ \A i \in TokenIds \ S : tokens'[i] = tokens[i]
  BY <1>1, <1>4, Facts, SetStatusFades DEF TokenStatuses
<1>6. GoodTask(t, user', tokens', issued)
  BY <1>1, <1>3, Facts
  DEF GoodTask, KnownTokens, HasRead, HoldsActive, HoldsTheUser, Suspending, Covers
<1>7. ~t.holdsUser
  BY <1>1, <1>3, Facts DEF GoodTask, HoldsTheUser, Suspending
<1>8. \A q \in Processes \ {p} : LeavesLocked(q)
  <2>1. TAKE q \in Processes \ {p}
  <2>2. task[q].held \subseteq TokenIds
    BY Facts DEF Tasks
  <2>3. task[q].held \cap S = {}
    BY <1>1 DEF Free, S
  <2>4. QED
    BY <1>1, <1>5, <2>2, <2>3 DEF LeavesLocked
<1>9. user' \in Users /\ user.authVersion <= user'.authVersion
  BY <1>1, Facts DEF SharedTypes, Users
<1>10. \A q \in Processes \ {p} : t.held \cap task[q].held = {}
  BY <1>3, OthersHoldOther
<1>11. QED
  BY <1>1, <1>2, <1>3, <1>5, <1>6, <1>7, <1>8, <1>9, <1>10, FadeStep DEF Hands

\* What p has locked, it may change: nobody else has locked it.
LEMMA LeavesOthers ==
  ASSUME TokensInv, NEW p \in Processes,
         NEW S \in SUBSET task[p].held,
         \A i \in TokenIds \ S : tokens'[i] = tokens[i],
         user' = user \/ UserFree(p)
  PROVE  \A q \in Processes \ {p} : LeavesLocked(q)
<1>1. TAKE q \in Processes \ {p}
<1>2. task[q].held \subseteq TokenIds
  BY Facts DEF Tasks
<1>3. task[q].held \cap S = {}
  BY OthersHoldOther
<1>4. QED
  BY <1>2, <1>3 DEF LeavesLocked, UserFree

\* The transaction ends tokens it has locked and the operation is over.
LEMMA CommitStep ==
  ASSUME TokensInv, NEW p \in Processes,
         NEW S \in SUBSET task[p].held, S \subseteq ActiveOrRotated,
         NEW status \in TokenStatuses \ {"active"}, SetStatus(S, status),
         user' \in Users, user.authVersion <= user'.authVersion,
         user' = user \/ UserFree(p),
         Finish(p), UNCHANGED <<handedOut, late, revoked, begun, faults>>
  PROVE  TokensInv'
<1>1. S \in SUBSET {i \in TokenIds : tokens[i].status # "none"}
  BY DEF ActiveOrRotated
<1>2. /\ tokens' \in [TokenIds -> Rows]
      /\ \A i \in TokenIds : tokens'[i] = tokens[i] \/
           (i <= issued /\ tokens'[i].status # "active" /\ tokens'[i].family <= families)
      /\ \A i \in TokenIds \ S : tokens'[i] = tokens[i]
  BY <1>1, Facts, SetStatusFades
<1>3. \A q \in Processes \ {p} : LeavesLocked(q)
  BY <1>2, LeavesOthers
<1>4. /\ Idle \in Tasks /\ GoodTask(Idle, user', tokens', issued)
      /\ Idle.held = {} /\ ~Idle.holdsUser /\ ~Hands(Idle)
  BY Facts, IdleIsGood DEF Idle, Hands
<1>5. task' = [task EXCEPT ![p] = Idle]
  BY DEF Finish
<1>6. QED
  BY <1>2, <1>3, <1>4, <1>5, FadeStep

LEMMA VersionsMoveOn ==
  ASSUME NEW u \in Users
  PROVE  /\ Bumped(u) \in Users /\ Bumped(u).authVersion = u.authVersion + 1
         /\ Suspended(u) \in Users /\ Suspended(u).authVersion = u.authVersion + 1
         /\ Reactivated(u) \in Users /\ Reactivated(u).authVersion = u.authVersion + 1
         /\ Deleted(u) \in Users /\ Deleted(u).authVersion = u.authVersion + 1
         /\ u.authVersion \in Nat
<1>1. u.authVersion \in Nat
  BY DEF Users
<1>2. \A v \in Users : Bumped(v) \in Users /\ Bumped(v).authVersion = v.authVersion + 1
  BY DEF Bumped, Users
<1>3. \A s \in UserStatuses : /\ [u EXCEPT !.status = s] \in Users
                              /\ [u EXCEPT !.status = s].authVersion = u.authVersion
  BY DEF Users
<1>4. "active" \in UserStatuses /\ "suspended" \in UserStatuses /\ "deleted" \in UserStatuses
  BY DEF UserStatuses
<1>5. QED
  BY <1>1, <1>2, <1>3, <1>4 DEF Suspended, Reactivated, Deleted

LEMMA ReuseTxStep ==
  ASSUME TokensInv, NEW p \in Processes, ReuseTx(p)
  PROVE  TokensInv'
<1> DEFINE S == {i \in task[p].held : IsActive(i)}
<1>1. /\ SetStatus(S, "revoked") /\ user' = Bumped(user) /\ UserFree(p) /\ Finish(p)
      /\ UNCHANGED <<handedOut, late, revoked, begun, faults>>
  BY DEF ReuseTx
<1>2. S \in SUBSET task[p].held /\ S \subseteq ActiveOrRotated
  BY Facts DEF ActiveOrRotated, IsActive, Tasks
<1>3. user' \in Users /\ user.authVersion <= user'.authVersion
  BY <1>1, Facts, VersionsMoveOn DEF SharedTypes
<1> HIDE DEF S
<1>4. QED
  BY <1>1, <1>2, <1>3, CommitStep DEF TokenStatuses

LEMMA MarkExpiredTxStep ==
  ASSUME TokensInv, NEW p \in Processes, MarkExpiredTx(p)
  PROVE  TokensInv'
<1>1. /\ SetStatus(task[p].held \cap ActiveOrRotated, "expired") /\ Finish(p)
      /\ UNCHANGED <<user, handedOut, late, revoked, begun, faults>>
  BY DEF MarkExpiredTx
<1>2. user' = user /\ user' \in Users /\ user.authVersion <= user'.authVersion
  BY <1>1, Facts, VersionsMoveOn DEF SharedTypes
<1>3. QED
  BY <1>1, <1>2, CommitStep DEF TokenStatuses

\* The user still is what SuspendAccount or DeleteAccount read and locked.
LEMMA AccountTxMovesOn ==
  ASSUME TokensInv, NEW p \in Processes, AccountTx(p)
  PROVE  user' \in Users /\ user'.authVersion = user.authVersion + 1
<1>1. user' = task[p].read /\ task[p].op \in {"suspend", "delete"} /\ task[p].step = "lockRows"
  BY DEF AccountTx, RowsLocked, At
<1>2. task[p].read \in Users
  BY Facts DEF Tasks
<1>3. QED
  BY <1>1, <1>2, Facts DEF GoodTask, HoldsTheUser, Suspending

LEMMA AccountTxStep ==
  ASSUME TokensInv, NEW p \in Processes, AccountTx(p)
  PROVE  TokensInv'
<1>1. /\ SetStatus(task[p].held \cap ActiveOrRotated, "revoked") /\ UserFree(p) /\ Finish(p)
      /\ UNCHANGED <<handedOut, late, revoked, begun, faults>>
  BY DEF AccountTx
<1>2. user' \in Users /\ user.authVersion <= user'.authVersion
  BY Facts, AccountTxMovesOn, VersionsMoveOn DEF SharedTypes
<1>3. QED
  BY <1>1, <1>2, CommitStep DEF TokenStatuses

LEMMA LockUserStep ==
  ASSUME TokensInv, NEW p \in Processes, LockUser(p)
  PROVE  TokensInv'
<1>1. /\ task[p].step = "lockUser" /\ UserFree(p) /\ ~task[p].holdsUser
      /\ UNCHANGED <<tokens, handedOut, late, revoked, begun, faults>>
  BY Facts DEF LockUser, At, GoodTask, HoldsTheUser, Suspending
<1>2. CASE /\ UNCHANGED user
           /\ \E u \in {Suspended(user), Deleted(user)} :
                task' = [task EXCEPT ![p].step = "update", ![p].holdsUser = TRUE, ![p].read = u]
           /\ task[p].op \in {"suspend", "delete"}
  <2>1. PICK u \in {Suspended(user), Deleted(user)} :
          task' = [task EXCEPT ![p].step = "update", ![p].holdsUser = TRUE, ![p].read = u]
    BY <1>2
  <2>2. u \in Users /\ u.authVersion = user.authVersion + 1
    BY Facts, VersionsMoveOn DEF SharedTypes
  <2> DEFINE t == [task[p] EXCEPT !.step = "update", !.holdsUser = TRUE, !.read = u]
  <2>3. t \in Tasks
    BY <2>2, Facts DEF Tasks, Steps
  <2>4. task' = [task EXCEPT ![p] = t]
    BY <2>1, Facts
  <2>5. /\ t.step = "update" /\ t.holdsUser = TRUE /\ t.read = u
        /\ t.op = task[p].op /\ t.token = task[p].token /\ t.access = task[p].access
        /\ t.seen = task[p].seen /\ t.rows = task[p].rows /\ t.held = task[p].held
    BY Facts DEF Tasks
  <2> HIDE DEF t
  <2>6. GoodTask(t, user, tokens, issued)
    BY <1>1, <1>2, <2>2, <2>5, Facts
    DEF GoodTask, KnownTokens, HasRead, HoldsActive, HoldsTheUser, Suspending, Covers
  <2>7. \A q \in Processes \ {p} : /\ t.held \cap task[q].held = {}
                                   /\ ~task[q].holdsUser
    BY <1>1, <2>5, OthersHoldOther DEF UserFree
  <2>8. UNCHANGED <<account, handedOut, late, revoked, begun, faults>>
    BY <1>1, <1>2 DEF account
  <2>9. QED
    BY <1>2, <2>3, <2>4, <2>5, <2>6, <2>7, <2>8, GoOn DEF Hands
<1>3. CASE user' = Reactivated(user) /\ Finish(p)
  <2>1. user' \in Users /\ user.authVersion <= user'.authVersion
    BY <1>3, Facts, VersionsMoveOn DEF SharedTypes
  <2>2. tokens' = tokens /\ tokens \in [TokenIds -> Rows]
    BY <1>1, Facts DEF SharedTypes
  <2>3. \A q \in Processes \ {p} : LeavesLocked(q)
    BY <1>1, <2>2 DEF LeavesLocked, UserFree
  <2>4. /\ Idle \in Tasks /\ GoodTask(Idle, user', tokens', issued)
        /\ Idle.held = {} /\ ~Idle.holdsUser /\ ~Hands(Idle)
    BY Facts, IdleIsGood DEF Idle, Hands
  <2>5. task' = [task EXCEPT ![p] = Idle]
    BY <1>3 DEF Finish
  <2>6. QED
    BY <1>1, <2>1, <2>2, <2>3, <2>4, <2>5, FadeStep
<1>4. CASE UNCHANGED user /\ Finish(p)
  BY <1>1, <1>4, Facts, QuietFinish DEF SharedTypes, account
<1>5. QED
  BY <1>2, <1>3, <1>4 DEF LockUser

----------------------------------------------------------------------------
(***************************************************************************)
(* The commits that hand out a token.                                      *)
(***************************************************************************)
LEMMA HandOutStep ==
  ASSUME TokensInv, NEW p \in Processes, Hands(task[p]), Finish(p),
         NEW rs \in [TokenIds -> Rows], NEW f \in 0..families', NEW v \in Nat,
         \A i \in TokenIds : rs[i] = tokens[i] \/
            (i <= issued /\ rs[i].status # "active" /\ rs[i].family = tokens[i].family),
         \A i \in TokenIds : rs[i].status = "active" => rs[i].family # f,
         HandOut(f, rs, v), v <= user.authVersion,
         families' = families \/ families' = families + 1,
         \A q \in Processes \ {p} : \A i \in task[q].held : rs[i] = tokens[i],
         UNCHANGED <<user, late, revoked, begun, faults>>
  PROVE  TokensInv'
<1> DEFINE k == issued + 1
           row == [status |-> "active", family |-> f]
<1>1. /\ issued' = k /\ tokens' = [rs EXCEPT ![k] = row]
      /\ access' = [access EXCEPT ![k] = v]
  BY DEF HandOut
<1>2. /\ user \in Users /\ user.authVersion \in Nat /\ families \in 0..MaxTokens
      /\ access \in [TokenIds -> Nat] /\ families <= issued
      /\ \A i \in TokenIds : tokens[i].family <= families
      /\ issued \in Nat /\ MaxTokens \in Nat
  BY Facts DEF SharedInv, SharedTypes, KnownFamilies, Users
<1>3. Expected \in Nat /\ Expected' \in Nat /\ Expected' = Expected - 1
  BY Facts, IdleIsGood, ExpectedMoves DEF Finish, Hands, Idle
<1>4. k \in TokenIds /\ k <= MaxTokens /\ issued' + Expected' <= MaxTokens
  <2>1. \A a, b, c, d \in Nat : a + b <= c /\ d = b - 1 =>
          a + 1 \in 1..c /\ a + 1 <= c /\ (a + 1) + d <= c
    OBVIOUS
  <2>2. issued \in Nat /\ Expected \in Nat /\ issued + Expected <= MaxTokens
    BY Facts
  <2>3. k \in 1..MaxTokens /\ k <= MaxTokens /\ k + Expected' <= MaxTokens
    BY <1>2, <1>3, <2>1, <2>2
  <2>4. QED
    BY <1>1, <2>3 DEF TokenIds
<1>5. families' \in Nat /\ families' <= k /\ families <= families' /\ families' \in 0..MaxTokens
  BY <1>2, <1>4
<1>6. row \in Rows
  BY <1>5, <1>4, <1>2 DEF Rows, TokenStatuses
<1>7. /\ tokens' \in [TokenIds -> Rows] /\ tokens'[k] = row /\ access'[k] = v
      /\ access' \in [TokenIds -> Nat]
      /\ \A i \in TokenIds \ {k} : tokens'[i] = rs[i] /\ access'[i] = access[i]
  BY <1>1, <1>2, <1>4, <1>6
<1>8. row.status = "active" /\ row.family = f
  OBVIOUS
<1> HIDE DEF row
<1>9. SharedTypes'
  BY <1>1, <1>4, <1>5, <1>7, Facts DEF SharedTypes
<1>10. NotYetIssued'
  <2>1. SUFFICES ASSUME NEW i \in TokenIds, i > k
                 PROVE  tokens'[i] = NoRow /\ access'[i] = 0
    BY <1>1 DEF NotYetIssued
  <2>2. i > issued /\ i # k /\ ~(i <= issued)
    BY <1>2, <2>1 DEF TokenIds
  <2>3. QED
    BY <1>7, <2>2, Facts DEF SharedInv, NotYetIssued
<1>11. KnownFamilies'
  <2>1. ASSUME NEW i \in TokenIds PROVE tokens'[i].family <= families'
    <3>1. CASE i = k
      BY <1>5, <1>7, <1>8, <3>1
    <3>2. CASE i # k
      <4>1. tokens'[i] = rs[i] /\ rs[i].family = tokens[i].family
        BY <1>7, <3>2
      <4>2. tokens[i].family \in Nat /\ tokens[i].family <= families
        BY <1>2, Facts DEF SharedTypes, Rows
      <4>3. QED
        BY <1>2, <1>5, <4>1, <4>2
    <3>3. QED
      BY <3>1, <3>2
  <2>2. QED
    BY <1>1, <1>5, <2>1 DEF KnownFamilies
<1>12. NotAhead'
  BY <1>7, Facts DEF SharedInv, NotAhead
<1>13. OneActivePerFamily'
  <2>1. ASSUME NEW i \in TokenIds, NEW j \in TokenIds,
               tokens'[i].status = "active", tokens'[j].status = "active",
               tokens'[i].family = tokens'[j].family
        PROVE  i = j
    <3>1. CASE i # k /\ j # k
      <4>1. rs[i] = tokens[i] /\ rs[j] = tokens[j]
        BY <1>7, <2>1, <3>1
      <4>2. QED
        BY <1>7, <2>1, <3>1, <4>1, Facts DEF SharedInv, OneActivePerFamily, IsActive
    <3>2. CASE i = k \/ j = k
      BY <1>7, <1>8, <2>1, <3>2
    <3>3. QED
      BY <3>1, <3>2
  <2>2. QED
    BY <2>1 DEF OneActivePerFamily, IsActive
<1>14. SharedInv'
  BY <1>9, <1>10, <1>11, <1>12, <1>13 DEF SharedInv
<1>15. Onward
  <2>1. \A i \in 1..issued : i \in TokenIds \ {k}
    BY <1>2, <1>4 DEF TokenIds
  <2>2. \A i \in 1..issued : tokens'[i].status = "active" => tokens[i].status = "active"
    BY <1>7, <2>1
  <2>3. QED
    BY <1>1, <1>2, <2>2 DEF Onward
<1>16. \A q \in Processes \ {p} : LeavesLocked(q)
  <2>1. TAKE q \in Processes \ {p}
  <2>2. task[q].held \subseteq 1..issued
    BY Facts DEF GoodTask, KnownTokens
  <2>3. \A i \in task[q].held : i \in TokenIds \ {k}
    BY <1>2, <1>4, <2>2 DEF TokenIds
  <2>4. QED
    BY <1>7, <2>3 DEF LeavesLocked
<1>17. /\ Idle \in Tasks /\ GoodTask(Idle, user', tokens', issued')
       /\ Idle.held = {} /\ ~Idle.holdsUser
  <2>1. issued' \in Nat
    BY <1>1, <1>2
  <2>2. Idle.held = {} /\ ~Idle.holdsUser
    BY DEF Idle
  <2>3. QED
    BY <2>1, <2>2, IdleIsGood
<1>18. TasksInv'
  BY <1>4, <1>15, <1>16, <1>17, OneTask DEF Finish
<1>19. QED
  BY <1>14, <1>18 DEF TokensInv

LEMMA LoginTxStep ==
  ASSUME TokensInv, NEW p \in Processes, LoginTx(p)
  PROVE  TokensInv'
<1>1. /\ task[p].op = "login" /\ families' = families + 1
      /\ HandOut(families + 1, tokens, task[p].read.authVersion) /\ Finish(p)
      /\ UNCHANGED <<user, late, revoked, begun, faults>>
  BY DEF LoginTx
<1>2. /\ families \in Nat /\ tokens \in [TokenIds -> Rows]
      /\ \A i \in TokenIds : tokens[i].family <= families
  BY Facts DEF SharedInv, SharedTypes, KnownFamilies
<1>3. task[p].read.authVersion \in Nat /\ task[p].read.authVersion <= user.authVersion
  BY <1>1, Facts DEF Tasks, Users, GoodTask, HasRead
<1>4. families + 1 \in 0..families'
  BY <1>1, <1>2
<1>5. \A i \in TokenIds : tokens[i].family # families + 1
  <2>1. \A i \in TokenIds : tokens[i].family \in Nat
    BY <1>2 DEF Rows
  <2>2. QED
    BY <1>2, <2>1
<1>6. QED
  BY <1>1, <1>2, <1>3, <1>4, <1>5, HandOutStep DEF Hands

LEMMA ExchangeStep ==
  ASSUME TokensInv, NEW p \in Processes, Exchange(p)
  PROVE  TokensInv'
<1> DEFINE i == task[p].token
           rs == [tokens EXCEPT ![i].status = "rotated"]
           f == tokens[i].family
<1>1. /\ task[p].step = "exchange" /\ families' = families
      /\ HandOut(f, rs, task[p].read.authVersion) /\ Finish(p)
      /\ UNCHANGED <<user, late, revoked, begun, faults>>
  BY DEF Exchange, At
<1>2. /\ task[p].op = "refresh" /\ task[p].held = {i} /\ tokens[i].status = "active"
      /\ i \in 1..issued /\ i \in TokenIds
  BY <1>1, Facts
  DEF Tasks, GoodTask, KnownTokens, HoldsActive, NoToken, TokenIds
<1>3. /\ families \in Nat /\ tokens \in [TokenIds -> Rows]
      /\ tokens[i].family <= families
      /\ \A j \in TokenIds : IsActive(j) /\ tokens[j].family = tokens[i].family => j = i
  BY <1>2, Facts DEF SharedInv, SharedTypes, KnownFamilies, OneActivePerFamily, IsActive
<1>4. /\ rs \in [TokenIds -> Rows] /\ rs[i] = [tokens[i] EXCEPT !.status = "rotated"]
      /\ \A j \in TokenIds \ {i} : rs[j] = tokens[j]
  BY <1>2, <1>3 DEF Rows, TokenStatuses
<1>5. rs[i].status = "rotated" /\ rs[i].family = tokens[i].family
  BY <1>2, <1>3, <1>4 DEF Rows
<1>6. f \in 0..families'
  BY <1>1, <1>2, <1>3 DEF Rows
<1>7. task[p].read.authVersion \in Nat /\ task[p].read.authVersion <= user.authVersion
  BY <1>2, Facts DEF Tasks, Users, GoodTask, HasRead
<1>8. \A q \in Processes \ {p} : \A j \in task[q].held : rs[j] = tokens[j]
  <2>1. TAKE q \in Processes \ {p}
  <2>2. task[q].held \subseteq TokenIds /\ i \notin task[q].held
    BY <1>2, Facts, OthersHoldOther DEF Tasks
  <2>3. QED
    BY <1>4, <2>2
<1>9. \A j \in TokenIds : rs[j].status = "active" => rs[j].family # f
  BY <1>3, <1>4, <1>5 DEF IsActive
<1>10. \A j \in TokenIds : rs[j] = tokens[j] \/
         (j <= issued /\ rs[j].status # "active" /\ rs[j].family = tokens[j].family)
  BY <1>2, <1>4, <1>5, Facts
<1> HIDE DEF rs, f
<1>11. QED
  BY <1>1, <1>2, <1>4, <1>6, <1>7, <1>8, <1>9, <1>10, HandOutStep DEF Hands

----------------------------------------------------------------------------
(***************************************************************************)
(* The batch, the clock and failures.                                      *)
(***************************************************************************)
LEMMA TasksUnchanged ==
  ASSUME TokensInv, task' = task, issued' = issued, Onward,
         \A q \in Processes : LeavesLocked(q)
  PROVE  TasksInv'
<1>1. \A q \in Processes : GoodTask(task'[q], user', tokens', issued')
  BY OthersStayGood
<1>2. Expected' = Expected
  BY DEF Expected
<1>3. QED
  BY <1>1, <1>2 DEF TokensInv, TasksInv, Exclusive

LEMMA DeleteStaleStep ==
  ASSUME TokensInv, DeleteStaleBefore
  PROVE  TokensInv'
<1>1. PICK S \in SUBSET {t \in TokenIds :
                           tokens[t].status \in {"expired", "revoked", "rotated"}
                           /\ \A p \in Processes : t \notin task[p].held} :
        tokens' = [t \in TokenIds |-> IF t \in S THEN NoRow ELSE tokens[t]]
  BY DEF DeleteStaleBefore
<1>2. begun' = begun + 1 /\ task' = task
      /\ UNCHANGED <<user, handedOut, late, revoked, faults>>
  BY DEF DeleteStaleBefore
<1>3. SharedInv /\ SharedTypes /\ issued \in Nat /\ families \in Nat
      /\ task \in [Processes -> Tasks]
  BY DEF TokensInv, SharedInv, SharedTypes, TasksInv
<1>4. NoRow \in Rows /\ NoRow.status # "active" /\ NoRow.family <= families
  BY <1>3, BoundsAssumption DEF NoRow, Rows, TokenStatuses
<1>5. tokens' \in [TokenIds -> Rows]
  BY <1>1, <1>3, <1>4 DEF SharedTypes
<1>6. \A i \in TokenIds : IF i \in S THEN tokens'[i] = NoRow ELSE tokens'[i] = tokens[i]
  BY <1>1
<1>7. \A i \in S : i \in TokenIds /\ i <= issued
  <2>1. TAKE i \in S
  <2>2. i \in TokenIds /\ tokens[i].status # "none"
    BY <1>1
  <2>3. QED
    BY <1>3, <2>2, OnlyIssuedHaveRows
<1>8. \A i \in TokenIds : tokens'[i] = tokens[i] \/
        (i <= issued /\ tokens'[i].status # "active" /\ tokens'[i].family <= families)
  BY <1>4, <1>6, <1>7
<1>9. /\ user' = user /\ user' \in Users /\ user.authVersion <= user'.authVersion
      /\ begun' \in Nat /\ faults' \in Nat
      /\ late' \subseteq TokenIds /\ revoked' \subseteq TokenIds
  BY <1>2, <1>3, VersionsMoveOn DEF SharedTypes
<1>10. SharedInv' /\ Onward
  BY <1>2, <1>3, <1>5, <1>8, <1>9, FadingKeepsShared
<1>11. \A q \in Processes : LeavesLocked(q)
  <2>1. TAKE q \in Processes
  <2>2. task[q].held \subseteq TokenIds /\ task[q].held \cap S = {}
    BY <1>1, <1>3 DEF Tasks
  <2>3. QED
    BY <1>6, <1>9, <2>2 DEF LeavesLocked
<1>12. QED
  BY <1>2, <1>10, <1>11, TasksUnchanged DEF TokensInv, handedOut

LEMMA QuietKeepsAll ==
  ASSUME TokensInv, task' = task, UNCHANGED <<account, handedOut>>,
         late' \subseteq TokenIds, revoked' \subseteq TokenIds, begun' \in Nat, faults' \in Nat
  PROVE  TokensInv'
<1>1. SharedInv /\ SharedTypes /\ user' = user /\ tokens' = tokens /\ issued' = issued
      /\ UNCHANGED handedOut
  BY DEF TokensInv, SharedInv, account, handedOut
<1>2. tokens' \in [TokenIds -> Rows] /\ user' \in Users /\ user.authVersion <= user'.authVersion
  BY <1>1, VersionsMoveOn DEF SharedTypes
<1>3. SharedInv' /\ Onward
  BY <1>1, <1>2, FadingKeepsShared
<1>4. \A q \in Processes : LeavesLocked(q)
  BY <1>1 DEF LeavesLocked
<1>5. QED
  BY <1>1, <1>3, <1>4, TasksUnchanged DEF TokensInv

LEMMA NextStep ==
  ASSUME TokensInv, [Next]_vars
  PROVE  TokensInv'
<1>1. SharedTypes
  BY DEF TokensInv, SharedInv
<1>2. CASE UNCHANGED vars
  BY <1>1, <1>2, QuietKeepsAll DEF vars, account, handedOut, SharedTypes
<1>3. CASE DeleteStaleBefore
  BY <1>3, DeleteStaleStep
<1>4. ASSUME NEW t \in TokenIds, LifetimePasses(t)
      PROVE  TokensInv'
  BY <1>1, <1>4, QuietKeepsAll DEF LifetimePasses, SharedTypes
<1>5. ASSUME NEW p \in Processes, Fail(p)
      PROVE  TokensInv'
  BY <1>1, <1>5, QuietFinish DEF Fail, SharedTypes
<1>6. ASSUME NEW p \in Processes, DeadlockDetected(p)
      PROVE  TokensInv'
  BY <1>1, <1>6, QuietFinish DEF DeadlockDetected, SharedTypes
<1>7. ASSUME NEW p \in Processes, Step(p)
      PROVE  TokensInv'
  BY <1>6, <1>7, LoginTxStep, RefreshFindStep, RefreshFindUserStep, ExchangeStep,
     LockRowStep, ReuseTxStep, MarkExpiredTxStep, LogoutTxStep, RevokeAccessStep,
     LockUserStep, RevokeAllStep, AccountTxStep DEF Step
<1>8. QED
  BY <1>2, <1>3, <1>4, <1>5, <1>7, StartStep DEF Next

LEMMA InitGood ==
  ASSUME Init
  PROVE  TokensInv
<1>1. /\ user = [status |-> "active", authVersion |-> 1]
      /\ tokens = [t \in TokenIds |-> NoRow] /\ issued = 0 /\ families = 0 /\ late = {}
      /\ access = [t \in TokenIds |-> 0] /\ revoked = {}
      /\ task = [p \in Processes |-> Idle] /\ begun = 0 /\ faults = 0
  BY DEF Init
<1>2. user \in Users /\ user.authVersion = 1
  BY <1>1 DEF Users, UserStatuses
<1>3. NoRow \in Rows /\ NoRow.family = 0 /\ NoRow.status # "active"
  BY BoundsAssumption DEF NoRow, Rows, TokenStatuses
<1>4. SharedTypes
  BY <1>1, <1>2, <1>3, BoundsAssumption DEF SharedTypes
<1>5. NotYetIssued /\ KnownFamilies /\ NotAhead /\ OneActivePerFamily
  BY <1>1, <1>2, <1>3 DEF NotYetIssued, KnownFamilies, NotAhead, OneActivePerFamily, IsActive
<1>6. \A p \in Processes : task[p] = Idle
  BY <1>1
<1>7. task \in [Processes -> Tasks]
  BY <1>1, IdleIsGood
<1>8. \A p \in Processes : GoodTask(task[p], user, tokens, issued)
  BY <1>1, <1>6, IdleIsGood
<1>9. Idle.held = {} /\ ~Idle.holdsUser /\ Idle.op = "none"
  BY DEF Idle
<1>10. Exclusive
  BY <1>6, <1>9 DEF Exclusive
<1>11. Expected = 0
  <2>1. {q \in Processes : task[q].op \in {"login", "refresh"}} = {}
    BY <1>6, <1>9
  <2>2. QED
    BY <2>1, FS_EmptySet DEF Expected
<1>12. issued + Expected <= MaxTokens
  BY <1>1, <1>11, BoundsAssumption
<1>13. QED
  BY <1>4, <1>5, <1>7, <1>8, <1>10, <1>12 DEF TokensInv, SharedInv, TasksInv

LEMMA AlwaysTokensInv == Spec => []TokensInv
<1>1. Init => TokensInv
  BY InitGood
<1>2. TokensInv /\ [Next]_vars => TokensInv'
  BY NextStep
<1>3. QED
  BY <1>1, <1>2, PTL DEF Spec

(***************************************************************************)
(* Every variable keeps its type.                                          *)
(***************************************************************************)
THEOREM TypeCorrectness == Spec => []TypeOK
<1>1. TokensInv => TypeOK
  BY DEF TokensInv, SharedInv, SharedTypes, TasksInv, TypeOK
<1>2. QED
  BY <1>1, AlwaysTokensInv, PTL

(***************************************************************************)
(* A session never has two refresh tokens that can be exchanged, however   *)
(* many tabs refresh, log out and are suspended at the same time.          *)
(***************************************************************************)
THEOREM OneTokenPerSession == Spec => []OneActivePerFamily
<1>1. TokensInv => OneActivePerFamily
  BY DEF TokensInv, SharedInv
<1>2. QED
  BY <1>1, AlwaysTokensInv, PTL

----------------------------------------------------------------------------
(***************************************************************************)
(* What a step may do to the account, to access tokens and to sessions.    *)
(***************************************************************************)
Moves ==
  /\ user' \in Users /\ (user' = user \/ user'.authVersion = user.authVersion + 1)
  /\ revoked \subseteq revoked'
  /\ \A a \in TokenIds : access[a] # 0 => access'[a] = access[a]

\* No session is opened and no token becomes active.
Ends ==
  /\ families' = families
  /\ \A i \in TokenIds : tokens'[i] = tokens[i] \/ tokens'[i].status # "active"

LEMMA SetStatusEnds ==
  ASSUME NEW S, NEW status, status # "active", SetStatus(S, status),
         tokens \in [TokenIds -> Rows], families' = families
  PROVE  Ends
<1>1. ASSUME NEW i \in TokenIds
      PROVE  tokens'[i] = tokens[i] \/ tokens'[i].status # "active"
  <2>1. CASE i \in S
    <3>1. tokens'[i] = [tokens[i] EXCEPT !.status = status]
      BY <2>1 DEF SetStatus
    <3>2. QED
      BY <3>1 DEF Rows
  <2>2. CASE i \notin S
    BY <2>2 DEF SetStatus
  <2>3. QED
    BY <2>1, <2>2
<1>2. QED
  BY <1>1 DEF Ends

LEMMA QuietMoves ==
  ASSUME TokensInv, UNCHANGED <<account, handedOut>>, revoked \subseteq revoked'
  PROVE  Moves /\ Ends
<1>1. user \in Users
  BY DEF TokensInv, SharedInv, SharedTypes
<1>2. QED
  BY <1>1 DEF account, handedOut, Moves, Ends

LEMMA HandOutMoves ==
  ASSUME TokensInv, NEW f, NEW rs, NEW v, HandOut(f, rs, v),
         UNCHANGED <<user, late, revoked, begun, faults>>
  PROVE  Moves
<1>1. /\ access' = [access EXCEPT ![issued + 1] = v] /\ user' = user /\ revoked' = revoked
      /\ user \in Users /\ access \in [TokenIds -> Nat] /\ issued \in Nat
      /\ \A t \in TokenIds : t > issued => access[t] = 0
  BY DEF HandOut, TokensInv, SharedInv, SharedTypes, NotYetIssued
<1>2. \A a \in TokenIds : access[a] # 0 => a # issued + 1
  BY <1>1 DEF TokenIds
<1>3. QED
  BY <1>1, <1>2 DEF Moves

LEMMA EveryStep ==
  ASSUME TokensInv, [Next]_vars
  PROVE  /\ Moves
         /\ Ends \/ (\E p \in Processes : LoginTx(p)) \/ (\E p \in Processes : Exchange(p))
<1>1. SharedTypes /\ SharedInv
  BY DEF TokensInv, SharedInv
<1>2. ASSUME NEW p \in Processes, NEW t, Begin(p, t)
      PROVE  Moves /\ Ends
  BY <1>2, QuietMoves DEF Begin
<1>3. ASSUME NEW p \in Processes, Start(p)
      PROVE  Moves /\ Ends
  BY <1>2, <1>3 DEF Start, Login, Refresh, Logout, ChangeAccount, MarkExpiredBefore
<1>4. ASSUME NEW p \in Processes,
             RefreshFind(p) \/ RefreshFindUser(p) \/ LockRow(p) \/ RevokeAccessToken(p)
             \/ RevokeAllByUserID(p) \/ DeadlockDetected(p) \/ Fail(p)
      PROVE  Moves /\ Ends
  <2>1. UNCHANGED <<account, handedOut>> /\ revoked \subseteq revoked'
    BY <1>4 DEF RefreshFind, RefreshFindUser, LockRow, RevokeAccessToken, RevokeAllByUserID,
                DeadlockDetected, Fail
  <2>2. QED
    BY <2>1, QuietMoves
<1>5. ASSUME NEW p \in Processes, ReuseTx(p) \/ MarkExpiredTx(p) \/ LogoutTx(p) \/ AccountTx(p)
      PROVE  Moves /\ Ends
  <2>1. /\ access' = access /\ families' = families /\ revoked' = revoked
        /\ \E S : \E status \in {"revoked", "expired"} : SetStatus(S, status)
    BY <1>5 DEF ReuseTx, MarkExpiredTx, LogoutTx, AccountTx, handedOut
  <2>2. Ends
    BY <1>1, <2>1, SetStatusEnds DEF SharedTypes
  <2>3. user' \in Users /\ (user' = user \/ user'.authVersion = user.authVersion + 1)
    BY <1>1, <1>5, AccountTxMovesOn, VersionsMoveOn
    DEF SharedTypes, ReuseTx, MarkExpiredTx, LogoutTx
  <2>4. QED
    BY <2>1, <2>2, <2>3 DEF Moves
<1>6. ASSUME NEW p \in Processes, LockUser(p)
      PROVE  Moves /\ Ends
  <2>1. /\ access' = access /\ families' = families /\ revoked' = revoked /\ tokens' = tokens
        /\ user' = user \/ user' = Reactivated(user)
    BY <1>6 DEF LockUser, handedOut
  <2>2. user' \in Users /\ (user' = user \/ user'.authVersion = user.authVersion + 1)
    BY <1>1, <2>1, VersionsMoveOn DEF SharedTypes
  <2>3. QED
    BY <2>1, <2>2 DEF Moves, Ends
<1>7. ASSUME NEW p \in Processes, LoginTx(p) \/ Exchange(p)
      PROVE  Moves
  <2>1. /\ \E f, rs, v : HandOut(f, rs, v)
        /\ UNCHANGED <<user, late, revoked, begun, faults>>
    BY <1>7 DEF LoginTx, Exchange
  <2>2. QED
    BY <2>1, HandOutMoves
<1>8. ASSUME DeleteStaleBefore
      PROVE  Moves /\ Ends
  <2>1. /\ access' = access /\ families' = families /\ revoked' = revoked /\ user' = user
        /\ \E S : tokens' = [t \in TokenIds |-> IF t \in S THEN NoRow ELSE tokens[t]]
    BY <1>8 DEF DeleteStaleBefore, handedOut
  <2>2. QED
    BY <1>1, <2>1 DEF Moves, Ends, SharedTypes, NoRow
<1>9. ASSUME NEW t \in TokenIds, LifetimePasses(t)
      PROVE  Moves /\ Ends
  BY <1>9, QuietMoves DEF LifetimePasses
<1>10. CASE UNCHANGED vars
  BY <1>10, QuietMoves DEF vars, account, handedOut
<1>11. ASSUME NEW p \in Processes, Step(p)
       PROVE  /\ Moves
              /\ Ends \/ LoginTx(p) \/ Exchange(p)
  BY <1>4, <1>5, <1>6, <1>7, <1>11 DEF Step
<1>12. QED
  BY <1>3, <1>4, <1>8, <1>9, <1>10, <1>11 DEF Next

(***************************************************************************)
(* An access token that was refused is refused for ever.                   *)
(***************************************************************************)
THEOREM RefusedForEver == Spec => AccessNeverRevives
<1>1. ASSUME TokensInv, [Next]_vars
      PROVE  \A a \in TokenIds : access[a] # 0 /\ ~Accepted(a) => ~Accepted(a)'
  <2>1. TAKE a \in TokenIds
  <2>2. HAVE access[a] # 0 /\ ~Accepted(a)
  <2>3. Moves /\ access[a] <= user.authVersion /\ access[a] \in Nat /\ user \in Users
    BY <1>1, EveryStep DEF TokensInv, SharedInv, SharedTypes, NotAhead
  <2>4. access'[a] = access[a] /\ (a \in revoked => a \in revoked')
    BY <2>2, <2>3 DEF Moves
  <2>5. CASE user' = user
    BY <2>2, <2>4, <2>5 DEF Accepted, CanAuthenticate
  <2>6. CASE user'.authVersion = user.authVersion + 1
    <3>1. access[a] # user'.authVersion
      BY <2>3, <2>6 DEF Users
    <3>2. QED
      BY <2>4, <3>1 DEF Accepted
  <2>7. QED
    BY <2>3, <2>5, <2>6 DEF Moves
<1>2. QED
  BY <1>1, AlwaysTokensInv, PTL DEF Spec, AccessNeverRevives

(***************************************************************************)
(* A token presented twice ends every access token handed out so far.      *)
(***************************************************************************)
THEOREM ReuseEndsAllAccess == Spec => ReuseEndsAccess
<1>1. ASSUME TokensInv, NEW p \in Processes, ReuseTx(p)
      PROVE  \A a \in TokenIds : ~Accepted(a)'
  <2>1. TAKE a \in TokenIds
  <2>2. access' = access /\ user' = Bumped(user)
    BY <1>1 DEF ReuseTx, handedOut
  <2>3. user \in Users /\ access[a] \in Nat /\ access[a] <= user.authVersion
    BY <1>1 DEF TokensInv, SharedInv, SharedTypes, NotAhead
  <2>4. user'.authVersion = user.authVersion + 1 /\ user.authVersion \in Nat
    BY <2>2, <2>3, VersionsMoveOn
  <2>5. access'[a] # user'.authVersion
    BY <2>2, <2>3, <2>4
  <2>6. QED
    BY <2>5 DEF Accepted
<1>2. TokensInv => \A p \in Processes : ReuseTx(p) => \A a \in TokenIds : ~Accepted(a)'
  BY <1>1
<1>3. QED
  BY <1>2, AlwaysTokensInv, PTL DEF Spec, ReuseEndsAccess

(***************************************************************************)
(* A suspension or deletion leaves no token its UPDATE has seen.           *)
(***************************************************************************)
THEOREM NoSeenTokenSurvives == Spec => OnlyNewTokensSurvive
<1>1. ASSUME TokensInv, NEW p \in Processes, AccountTx(p)
      PROVE  \A t \in TokenIds : IsActive(t)' => t > task[p].seen
  <2>1. TAKE t \in TokenIds
  <2>2. HAVE IsActive(t)'
  <2>3. /\ task[p].op \in {"suspend", "delete"} /\ task[p].step = "lockRows"
        /\ task[p].rows = {}
        /\ SetStatus(task[p].held \cap ActiveOrRotated, "revoked")
    BY <1>1 DEF AccountTx, RowsLocked, At
  <2>4. Ends /\ tokens \in [TokenIds -> Rows]
    BY <1>1, <2>3, SetStatusEnds DEF AccountTx, handedOut, TokensInv, SharedInv, SharedTypes
  <2>5. tokens[t].status = "active"
    BY <2>2, <2>4 DEF IsActive, Ends
  <2>6. SUFFICES ASSUME ~(t > task[p].seen)
                 PROVE  FALSE
    OBVIOUS
  <2>7. t \in 1..task[p].seen
    BY <1>1, <2>6, Facts DEF Tasks, TokenIds
  <2>8. t \in task[p].held \cap ActiveOrRotated
    BY <1>1, <2>3, <2>5, <2>7, Facts DEF GoodTask, Covers, Suspending, ActiveOrRotated
  <2>9. tokens'[t] = [tokens[t] EXCEPT !.status = "revoked"]
    BY <2>3, <2>8 DEF SetStatus
  <2>10. tokens'[t].status = "revoked"
    BY <2>4, <2>9 DEF Rows
  <2>11. QED
    BY <2>2, <2>10 DEF IsActive
<1>2. TokensInv => \A p \in Processes : AccountTx(p) =>
                     \A t \in TokenIds : IsActive(t)' => t > task[p].seen
  BY <1>1
<1>3. QED
  BY <1>2, AlwaysTokensInv, PTL DEF Spec, OnlyNewTokensSurvive

----------------------------------------------------------------------------
(***************************************************************************)
(* The account implements AuthSession.                                     *)
(***************************************************************************)
LEMMA EndsIsEnd ==
  ASSUME SharedInv, Ends
  PROVE  \E F \in SUBSET TokenIds : Auth!End(F)
<1> DEFINE F == {f \in TokenIds : Session[f] = "open" /\ Session'[f] = "ended"}
<1>1. \A f \in TokenIds : ActiveInFamily(f)' \subseteq ActiveInFamily(f)
  BY DEF Ends, ActiveInFamily, IsActive
<1>2. families' = families
  BY DEF Ends
<1>3. Session' = [f \in TokenIds |-> IF f \in F THEN "ended" ELSE Session[f]]
  <2>1. ASSUME NEW f \in TokenIds
        PROVE  Session'[f] = IF f \in F THEN "ended" ELSE Session[f]
    BY <1>1, <1>2 DEF Session
  <2>2. QED
    BY <2>1 DEF Session
<1>4. \A f \in F : Session[f] = "open"
  OBVIOUS
<1>5. F \in SUBSET TokenIds
  OBVIOUS
<1> HIDE DEF F
<1>6. QED
  BY <1>3, <1>4, <1>5 DEF Auth!End

LEMMA LoginIsOpen ==
  ASSUME TokensInv, NEW p \in Processes, LoginTx(p)
  PROVE  \E f \in TokenIds : Auth!Open(f)
<1> DEFINE k == issued + 1
           f == families + 1
           row == [status |-> "active", family |-> f]
<1>1. families' = f /\ tokens' = [tokens EXCEPT ![k] = row] /\ issued' = k
  BY DEF LoginTx, HandOut
<1>2. TokensInv'
  BY LoginTxStep
<1>3. /\ families \in Nat /\ issued \in Nat /\ tokens \in [TokenIds -> Rows]
      /\ \A i \in TokenIds : tokens[i].family <= families
      /\ \A i \in TokenIds : i > issued => tokens[i] = NoRow
  BY DEF TokensInv, SharedInv, SharedTypes, KnownFamilies, NotYetIssued
<1>4. k \in 1..MaxTokens /\ f \in 1..MaxTokens
  BY <1>1, <1>2, <1>3, BoundsAssumption DEF TokensInv, SharedInv, SharedTypes
<1>5. k \in TokenIds /\ f \in TokenIds
  BY <1>4 DEF TokenIds
<1>6. tokens'[k] = row /\ \A i \in TokenIds \ {k} : tokens'[i] = tokens[i]
  BY <1>1, <1>3, <1>5
<1>7. tokens[k].status # "active"
  BY <1>3, <1>5 DEF NoRow
<1>8. row.status = "active" /\ row.family = f
  OBVIOUS
<1>9. Session[f] = "unused"
  BY <1>3, <1>5 DEF Session
<1>10. ASSUME NEW g \in TokenIds, g = f
       PROVE  Session'[g] = "open"
  <2>1. ASSUME NEW i \in TokenIds, i = k
        PROVE  i \in ActiveInFamily(g)'
    <3>1. tokens'[i].status = "active" /\ tokens'[i].family = g
      BY <1>6, <1>8, <1>10, <2>1
    <3>2. QED
      BY <3>1 DEF ActiveInFamily, IsActive
  <2>2. ActiveInFamily(g)' # {}
    BY <1>5, <2>1
  <2>3. ~(g > families')
    BY <1>1, <1>3, <1>10
  <2>4. QED
    BY <2>2, <2>3 DEF Session
<1> HIDE DEF row
<1>11. ASSUME NEW g \in TokenIds, g # f
       PROVE  Session'[g] = Session[g]
  <2>1. ActiveInFamily(g)' = ActiveInFamily(g)
    BY <1>6, <1>7, <1>8, <1>11 DEF ActiveInFamily, IsActive
  <2>2. (g > families') <=> (g > families)
    BY <1>1, <1>3, <1>11 DEF TokenIds
  <2>3. QED
    BY <2>1, <2>2 DEF Session
<1>12. Session' = [Session EXCEPT ![f] = "open"]
  BY <1>10, <1>11 DEF Session
<1>13. QED
  BY <1>5, <1>9, <1>12 DEF Auth!Open

LEMMA ExchangeStutters ==
  ASSUME TokensInv, NEW p \in Processes, Exchange(p)
  PROVE  Session' = Session
<1> DEFINE i == task[p].token
           k == issued + 1
           rs == [tokens EXCEPT ![i].status = "rotated"]
           row == [status |-> "active", family |-> tokens[i].family]
<1>1. families' = families /\ tokens' = [rs EXCEPT ![k] = row] /\ issued' = k
  BY DEF Exchange, HandOut
<1>2. TokensInv'
  BY ExchangeStep
<1>3. /\ families \in Nat /\ issued \in Nat /\ tokens \in [TokenIds -> Rows]
      /\ \A j \in TokenIds : j > issued => tokens[j] = NoRow
  BY DEF TokensInv, SharedInv, SharedTypes, NotYetIssued
<1>4. /\ task[p].step = "exchange" /\ tokens[i].status = "active" /\ i \in 1..issued
      /\ i \in TokenIds
  BY Facts DEF Exchange, At, Tasks, GoodTask, KnownTokens, HoldsActive, NoToken, TokenIds
<1>5. k \in TokenIds /\ i # k
  <2>1. k \in 0..MaxTokens
    BY <1>1, <1>2 DEF TokensInv, SharedInv, SharedTypes
  <2>2. QED
    BY <1>3, <1>4, <2>1, BoundsAssumption DEF TokenIds
<1>6. /\ rs \in [TokenIds -> Rows] /\ rs[i].status = "rotated" /\ rs[i].family = tokens[i].family
      /\ \A j \in TokenIds \ {i} : rs[j] = tokens[j]
  BY <1>3, <1>4 DEF Rows, TokenStatuses
<1> HIDE DEF rs
<1>7. /\ tokens'[k] = row /\ tokens'[i].status = "rotated"
      /\ \A j \in TokenIds \ {i, k} : tokens'[j] = tokens[j]
  BY <1>1, <1>4, <1>5, <1>6
<1>8. tokens[k].status # "active"
  BY <1>3, <1>5 DEF NoRow
<1>9. row.status = "active" /\ row.family = tokens[i].family
  OBVIOUS
<1> HIDE DEF row
<1>10. ASSUME NEW g \in TokenIds
       PROVE  (ActiveInFamily(g) = {}) <=> (ActiveInFamily(g)' = {})
  <2>1. CASE g = tokens[i].family
    <3>1. i \in ActiveInFamily(g)
      BY <1>4, <2>1 DEF ActiveInFamily, IsActive
    <3>2. k \in ActiveInFamily(g)'
      BY <1>5, <1>7, <1>9, <2>1 DEF ActiveInFamily, IsActive
    <3>3. QED
      BY <3>1, <3>2
  <2>2. CASE g # tokens[i].family
    <3>1. ActiveInFamily(g)' = ActiveInFamily(g)
      BY <1>5, <1>7, <1>8, <1>9, <2>2 DEF ActiveInFamily, IsActive
    <3>2. QED
      BY <3>1
  <2>3. QED
    BY <2>1, <2>2
<1>11. QED
  BY <1>1, <1>10 DEF Session

LEMMA SessionStep ==
  ASSUME TokensInv, [Next]_vars
  PROVE  [Auth!Next]_Session
<1>1. SharedInv
  BY DEF TokensInv
<1>2. QED
  BY <1>1, EveryStep, EndsIsEnd, LoginIsOpen, ExchangeStutters DEF Auth!Next

(***************************************************************************)
(* Sessions as AuthSession promises them: once ended, never open again.    *)
(***************************************************************************)
THEOREM ImplementsAuthSession == Spec => SessionsStayEnded
<1>1. Init => Auth!Init
  <2>1. SUFFICES ASSUME Init PROVE Auth!Init
    OBVIOUS
  <2>2. families = 0 /\ \A f \in TokenIds : f > 0
    BY <2>1, BoundsAssumption DEF Init, TokenIds
  <2>3. QED
    BY <2>2 DEF Auth!Init, Session
<1>2. TokensInv /\ [Next]_vars => [Auth!Next]_Session
  BY SessionStep
<1>3. QED
  BY <1>1, <1>2, AlwaysTokensInv, PTL DEF Spec, SessionsStayEnded, Auth!Spec
----------------------------------------------------------------------------
(***************************************************************************)
(* Waiting.  ENABLED is out of the provers' reach: CanStep has the guards  *)
(* of Step, alternative by alternative, without DeadlockDetected.          *)
(***************************************************************************)
CanStep(p) ==
  \/ task[p].op = "login" /\ At(p, "create")
  \/ task[p].op = "refresh" /\ At(p, "find") /\ Free(task[p].token, p)
  \/ At(p, "findUser") \/ At(p, "exchange")
  \/ At(p, "lockRows") /\ \E t \in task[p].rows : Free(t, p)
  \/ task[p].op = "reuse" /\ RowsLocked(p) /\ UserFree(p)
  \/ task[p].op = "markExpired" /\ RowsLocked(p)
  \/ At(p, "logoutTx") /\ Free(task[p].token, p)
  \/ At(p, "revokeAccess")
  \/ /\ task[p].op \in {"suspend", "reactivate", "delete"}
     /\ At(p, "lockUser") /\ UserFree(p)
  \/ At(p, "update")
  \/ task[p].op \in {"suspend", "delete"} /\ RowsLocked(p) /\ UserFree(p)

\* Who cannot go on waits for goroutines that hold what it needs; and among all
\* that are under way one can go on, or some of them wait for each other.
NoStandstill ==
  /\ \A p \in Processes : task[p] # Idle => CanStep(p) \/ WaitsFor(p) # {}
  /\ \A p \in Processes : task[p] # Idle =>
       \E q \in Processes : task[q] # Idle /\ (CanStep(q) \/ Deadlocked(q))

\* The control points that each operation comes to.
Paired(t) ==
  \/ t = Idle
  \/ t.op = "login" /\ t.step = "create"
  \/ t.op = "refresh" /\ t.step \in {"find", "findUser", "exchange"}
  \/ t.op \in {"reuse", "markExpired"} /\ t.step = "lockRows"
  \/ t.op = "logout" /\ t.step \in {"logoutTx", "revokeAccess"}
  \/ t.op \in {"suspend", "reactivate", "delete"} /\ t.step = "lockUser"
  \/ t.op \in {"suspend", "delete"} /\ t.step \in {"update", "lockRows"}

LEMMA IdleFields ==
  Idle.op = "none" /\ Idle.step = "idle" /\ Idle.held = {} /\ Idle.holdsUser = FALSE
  BY DEF Idle

LEMMA PairedStep ==
  ASSUME TokensInv, \A p \in Processes : Paired(task[p]), [Next]_vars
  PROVE  \A p \in Processes : Paired(task'[p])
<1> DEFINE Goal == \A p \in Processes : Paired(task'[p])
<1>1. task \in [Processes -> Tasks]
  BY DEF TokensInv, TasksInv
<1>2. ASSUME UNCHANGED task PROVE Goal
  BY <1>2
<1>3. ASSUME NEW p \in Processes, NEW t, task' = [task EXCEPT ![p] = t], Paired(t)
      PROVE  Goal
  BY <1>1, <1>3
<1>4. ASSUME NEW p \in Processes, Finish(p) PROVE Goal
  BY <1>3, <1>4 DEF Finish, Paired
<1>5. ASSUME NEW p \in Processes, NEW t, task' = [task EXCEPT ![p] = t], task[p].step # "idle",
             t.op = task[p].op, t.step = task[p].step
      PROVE  Goal
  <2>1. Paired(t)
    BY <1>5, IdleFields DEF Paired
  <2>2. QED
    BY <1>3, <1>5, <2>1
<1>6. ASSUME NEW p \in Processes, Start(p) PROVE Goal
  <2>1. ASSUME NEW t, Begin(p, t), Paired(t) PROVE Goal
    BY <1>3, <2>1 DEF Begin
  <2>2. CASE Login(p)
    <3>1. Paired([Idle EXCEPT !.op = "login", !.step = "create", !.read = user])
      BY DEF Paired, Idle
    <3>2. QED
      BY <2>1, <2>2, <3>1 DEF Login
  <2>3. CASE Refresh(p)
    <3>1. \A i : Paired([Idle EXCEPT !.op = "refresh", !.step = "find", !.token = i,
                                     !.wasLate = i \in late])
      BY DEF Paired, Idle
    <3>2. QED
      <4>1. PICK i \in 1..issued : Begin(p, [Idle EXCEPT !.op = "refresh", !.step = "find",
                                                        !.token = i, !.wasLate = i \in late])
        BY <2>3 DEF Refresh
      <4>2. QED
        BY <2>1, <3>1, <4>1
  <2>4. CASE Logout(p)
    <3>1. \A a, i : Paired([Idle EXCEPT !.op = "logout", !.access = a, !.token = i,
                       !.step = IF i = NoToken THEN "revokeAccess" ELSE "logoutTx"])
      BY DEF Paired, Idle
    <3>2. QED
      <4>1. PICK a \in 1..issued, i \in 0..issued :
              Begin(p, [Idle EXCEPT !.op = "logout", !.access = a, !.token = i,
                          !.step = IF i = NoToken THEN "revokeAccess" ELSE "logoutTx"])
        BY <2>4 DEF Logout
      <4>2. QED
        BY <2>1, <3>1, <4>1
  <2>5. CASE ChangeAccount(p)
    <3>1. \A op \in {"suspend", "reactivate", "delete"} :
            Paired([Idle EXCEPT !.op = op, !.step = "lockUser"])
      BY DEF Paired, Idle
    <3>2. QED
      BY <2>1, <2>5, <3>1 DEF ChangeAccount
  <2>6. CASE MarkExpiredBefore(p)
    <3>1. Paired([Idle EXCEPT !.op = "markExpired", !.step = "lockRows",
                              !.rows = late \cap ActiveOrRotated, !.seen = issued])
      BY DEF Paired, Idle
    <3>2. QED
      BY <2>1, <2>6, <3>1 DEF MarkExpiredBefore
  <2>7. QED
    BY <1>6, <2>2, <2>3, <2>4, <2>5, <2>6 DEF Start
<1>7. ASSUME NEW p \in Processes, RefreshFind(p) PROVE Goal
  BY <1>1, <1>4, <1>7 DEF RefreshFind, Paired, Tasks, At
<1>8. ASSUME NEW p \in Processes, RefreshFindUser(p) PROVE Goal
  <2>1. CASE CanAuthenticate(user)
    <3> DEFINE t == [task[p] EXCEPT !.step = "exchange", !.read = user]
    <3>1. task' = [task EXCEPT ![p] = t]
      BY <1>1, <1>8, <2>1 DEF RefreshFindUser
    <3>2. t.op = "refresh" /\ t.step = "exchange"
      BY <1>1, <1>8, IdleFields DEF RefreshFindUser, Paired, At, Tasks
    <3> HIDE DEF t
    <3>3. QED
      BY <1>3, <3>1, <3>2 DEF Paired
  <2>2. CASE ~CanAuthenticate(user)
    BY <1>4, <1>8, <2>2 DEF RefreshFindUser
  <2>3. QED
    BY <2>1, <2>2
<1>9. ASSUME NEW p \in Processes, LockRow(p) PROVE Goal
  <2>1. PICK i \in task[p].rows :
          task' = [task EXCEPT ![p].rows = @ \ {i}, ![p].held = @ \cup {i}]
    BY <1>9 DEF LockRow
  <2> DEFINE t == [task[p] EXCEPT !.rows = @ \ {i}, !.held = @ \cup {i}]
  <2>2. task' = [task EXCEPT ![p] = t]
    BY <1>1, <2>1
  <2>3. t.op = task[p].op /\ t.step = task[p].step /\ task[p].step = "lockRows"
    BY <1>1, <1>9 DEF LockRow, At, Tasks
  <2> HIDE DEF t
  <2>4. QED
    BY <1>5, <2>2, <2>3
<1>10. ASSUME NEW p \in Processes, LogoutTx(p) PROVE Goal
  <2> DEFINE t == [task[p] EXCEPT !.step = "revokeAccess"]
  <2>1. task' = [task EXCEPT ![p] = t]
    BY <1>1, <1>10 DEF LogoutTx
  <2>2. t.op = "logout" /\ t.step = "revokeAccess"
    BY <1>1, <1>10, IdleFields DEF LogoutTx, Paired, At, Tasks
  <2> HIDE DEF t
  <2>3. QED
    BY <1>3, <2>1, <2>2 DEF Paired
<1>11. ASSUME NEW p \in Processes, LockUser(p) PROVE Goal
  BY <1>1, <1>4, <1>11 DEF LockUser, Paired, Tasks, At
<1>12. ASSUME NEW p \in Processes, RevokeAllByUserID(p) PROVE Goal
  <2> DEFINE t == [task[p] EXCEPT !.step = "lockRows", !.rows = ActiveOrRotated, !.seen = issued]
  <2>1. task' = [task EXCEPT ![p] = t]
    BY <1>1, <1>12 DEF RevokeAllByUserID
  <2>2. t.op \in {"suspend", "delete"} /\ t.step = "lockRows"
    BY <1>1, <1>12, IdleFields DEF RevokeAllByUserID, Paired, At, Tasks
  <2> HIDE DEF t
  <2>3. QED
    BY <1>3, <2>1, <2>2 DEF Paired
<1>13. ASSUME NEW p \in Processes,
              \/ LoginTx(p) \/ Exchange(p) \/ ReuseTx(p) \/ MarkExpiredTx(p)
              \/ RevokeAccessToken(p) \/ AccountTx(p) \/ DeadlockDetected(p) \/ Fail(p)
       PROVE  Goal
  BY <1>4, <1>13 DEF LoginTx, Exchange, ReuseTx, MarkExpiredTx, RevokeAccessToken, AccountTx,
                     DeadlockDetected, Fail
<1>14. ASSUME DeleteStaleBefore \/ (\E t \in TokenIds : LifetimePasses(t)) \/ UNCHANGED vars
       PROVE  Goal
  BY <1>2, <1>14 DEF DeleteStaleBefore, LifetimePasses, vars
<1>15. QED
  BY <1>6, <1>7, <1>8, <1>9, <1>10, <1>11, <1>12, <1>13, <1>14 DEF Next, Step

\* Who is under way and cannot go on waits for a goroutine that is under way.
LEMMA BlockedWaits ==
  ASSUME TokensInv, \A q \in Processes : Paired(task[q]),
         NEW p \in Processes, task[p] # Idle, ~CanStep(p)
  PROVE  WaitsFor(p) # {} /\ \A q \in WaitsFor(p) : q \in Processes /\ task[q] # Idle
<1>1. ASSUME NEW q \in WaitsFor(p) PROVE q \in Processes /\ task[q] # Idle
  BY <1>1, IdleFields DEF WaitsFor
<1>2. CASE At(p, "find") \/ At(p, "logoutTx")
  <2>1. ~Free(task[p].token, p)
    BY <1>2, IdleFields DEF CanStep, Paired, At
  <2>2. PICK q \in Processes \ {p} : task[p].token \in task[q].held
    BY <2>1 DEF Free
  <2>3. q \in WaitsFor(p)
    BY <1>2, <2>2 DEF WaitsFor
  <2>4. QED
    BY <1>1, <2>3
<1>3. CASE At(p, "lockUser")
  <2>1. ~UserFree(p)
    BY <1>3, IdleFields DEF CanStep, Paired, At
  <2>2. PICK q \in Processes \ {p} : task[q].holdsUser
    BY <2>1 DEF UserFree
  <2>3. q \in WaitsFor(p)
    BY <1>3, <2>2 DEF WaitsFor
  <2>4. QED
    BY <1>1, <2>3
<1>4. CASE At(p, "lockRows") /\ task[p].rows # {}
  <2>1. \A t \in task[p].rows : ~Free(t, p)
    BY <1>4 DEF CanStep
  <2>2. PICK t \in task[p].rows : TRUE
    BY <1>4
  <2>3. PICK q \in Processes \ {p} : t \in task[q].held
    BY <2>1 DEF Free
  <2>4. q \in WaitsFor(p)
    BY <1>4, <2>1, <2>3 DEF WaitsFor
  <2>5. QED
    BY <1>1, <2>4
<1>5. CASE RowsLocked(p)
  <2>1. task[p].op \in {"suspend", "delete"} => UserFree(p)
    <3>1. ASSUME task[p].op \in {"suspend", "delete"} PROVE task[p].holdsUser
      BY <1>5, <3>1, Facts DEF GoodTask, HoldsTheUser, Suspending, RowsLocked, At
    <3>2. QED
      BY <3>1, OthersHoldOther DEF UserFree
  <2>2. task[p].op = "reuse" /\ ~UserFree(p)
    BY <1>5, <2>1, IdleFields DEF CanStep, Paired, RowsLocked, At
  <2>3. PICK q \in Processes \ {p} : task[q].holdsUser
    BY <2>2 DEF UserFree
  <2>4. q \in WaitsFor(p)
    BY <1>5, <2>2, <2>3 DEF WaitsFor
  <2>5. QED
    BY <1>1, <2>4
<1>6. QED
  <2>1. task[p].step \in {"find", "logoutTx", "lockUser", "lockRows"}
    BY DEF CanStep, Paired, At
  <2>2. QED
    BY <1>1, <1>2, <1>3, <1>4, <1>5, <2>1 DEF RowsLocked, At

(***************************************************************************)
(* No standstill: who cannot go on waits for goroutines that hold what it  *)
(* needs, and of all that are under way one can go on or PostgreSQL finds  *)
(* a circle to break (the row locks of FindByHashForUpdate,                *)
(* FindByIDForUpdate and of the UPDATEs, which take them in any order).    *)
(***************************************************************************)
THEOREM WaitingIsNeverInVain == Spec => []NoStandstill
<1> DEFINE AllPaired == \A p \in Processes : Paired(task[p])
<1>1. Init => AllPaired
  BY DEF Init, Paired
<1>2. TokensInv /\ AllPaired /\ [Next]_vars => AllPaired'
  BY PairedStep
<1>3. ASSUME TokensInv, AllPaired PROVE NoStandstill
  <2>1. \A p \in Processes : task[p] # Idle => CanStep(p) \/ WaitsFor(p) # {}
    BY <1>3, BlockedWaits
  <2>2. ASSUME NEW p \in Processes, task[p] # Idle
        PROVE  \E q \in Processes : task[q] # Idle /\ (CanStep(q) \/ Deadlocked(q))
    <3> DEFINE P == {q \in Processes : task[q] # Idle}
    <3>1. CASE \E q \in P : CanStep(q)
      BY <3>1
    <3>2. CASE \A q \in P : ~CanStep(q)
      <4>1. \A q \in P : WaitsFor(q) \cap P # {}
        BY <1>3, <3>2, BlockedWaits
      <4>2. Deadlocked(p)
        BY <2>2, <4>1 DEF Deadlocked
      <4>3. QED
        BY <2>2, <4>2
    <3>3. QED
      BY <3>1, <3>2
  <2>3. QED
    BY <2>1, <2>2 DEF NoStandstill
<1> HIDE DEF AllPaired
<1>4. QED
  BY <1>1, <1>2, <1>3, AlwaysTokensInv, PTL DEF Spec
----------------------------------------------------------------------------
(***************************************************************************)
(* How a step of the model moves the task of one goroutine.                *)
(***************************************************************************)
RevokesFamily(t, new) ==
  /\ t.op = "refresh" /\ t.step = "find" /\ new.op = "reuse" /\ new.step = "lockRows"
  /\ new.token = t.token /\ new.held = {t.token} /\ new.holdsUser = t.holdsUser
  /\ tokens[t.token].status # "none" /\ ~IsActive(t.token)
  /\ new.rows = ActiveInFamily(tokens[t.token].family)

Locks(t, new) ==
  /\ t.step = "lockRows"
  /\ \E i \in t.rows : new = [t EXCEPT !.rows = @ \ {i}, !.held = @ \cup {i}]

Changes(t, new) ==
  \/ new = Idle
  \/ t = Idle /\ new.held = {} /\ new.holdsUser = FALSE /\ new.op # "reuse"
  \/ t.step = "find" /\ new.op = t.op /\ new.step = "findUser"
  \/ RevokesFamily(t, new)
  \/ t.step = "findUser" /\ new.op = t.op /\ new.step = "exchange"
  \/ Locks(t, new)
  \/ /\ t.step = "logoutTx" /\ new.op = t.op /\ new.step = "revokeAccess"
     /\ new.held = t.held /\ new.holdsUser = t.holdsUser
  \/ t.step = "lockUser" /\ new.op = t.op /\ new.step = "update"
  \/ t.step = "update" /\ new.op = t.op /\ new.step = "lockRows"

Changed(p) == \E new \in Tasks : task' = [task EXCEPT ![p] = new] /\ Changes(task[p], new)

LEMMA StartChanges ==
  ASSUME TokensInv, NEW p \in Processes, Start(p)
  PROVE  Changed(p) /\ task[p] = Idle
<1>1. task'[p] \in Tasks
  BY StartStep DEF TokensInv, TasksInv
<1>2. ASSUME NEW t, Begin(p, t), t.held = {}, t.holdsUser = FALSE, t.op # "reuse"
      PROVE  Changed(p) /\ task[p] = Idle
  <2>1. task[p] = Idle /\ task' = [task EXCEPT ![p] = t]
    BY <1>2 DEF Begin
  <2>2. t \in Tasks
    BY <1>1, <2>1, Facts
  <2>3. QED
    BY <1>2, <2>1, <2>2 DEF Changed, Changes
<1>3. CASE Login(p)
  BY <1>2, <1>3 DEF Login, Idle
<1>4. CASE Refresh(p)
  BY <1>2, <1>4 DEF Refresh, Idle
<1>5. CASE Logout(p)
  BY <1>2, <1>5 DEF Logout, Idle
<1>6. CASE ChangeAccount(p)
  BY <1>2, <1>6 DEF ChangeAccount, Idle
<1>7. CASE MarkExpiredBefore(p)
  BY <1>2, <1>7 DEF MarkExpiredBefore, Idle
<1>8. QED
  BY <1>3, <1>4, <1>5, <1>6, <1>7 DEF Start

LEMMA StepChanges ==
  ASSUME TokensInv, NEW p \in Processes, Step(p) \/ Fail(p)
  PROVE  Changed(p) /\ task[p] # Idle
<1>1. task \in [Processes -> Tasks] /\ task[p] \in Tasks /\ Idle \in Tasks
  BY Facts, IdleIsGood
<1>2. ASSUME Finish(p) PROVE Changed(p)
  BY <1>1, <1>2 DEF Finish, Changed, Changes
<1>3. ASSUME NEW new \in Tasks, task' = [task EXCEPT ![p] = new], Changes(task[p], new)
      PROVE  Changed(p)
  BY <1>3 DEF Changed
<1>4. task'[p] \in Tasks
  <2>1. Next
    BY DEF Next
  <2>2. TokensInv'
    BY <2>1, NextStep
  <2>3. QED
    BY <2>2 DEF TokensInv, TasksInv
<1>5. CASE RefreshFind(p)
  <2> DEFINE t == task[p].token
             one == [task[p] EXCEPT !.op = "reuse", !.step = "lockRows", !.held = {t},
                                    !.seen = issued, !.rows = ActiveInFamily(tokens[t].family)]
             two == [task[p] EXCEPT !.step = "findUser", !.held = {t}]
  <2>1. \/ Finish(p)
        \/ tokens[t].status # "none" /\ ~IsActive(t) /\ task' = [task EXCEPT ![p] = one]
        \/ task' = [task EXCEPT ![p] = two]
    BY <1>1, <1>5 DEF RefreshFind, Exchangeable
  <2>2. task[p].op = "refresh" /\ task[p].step = "find"
    BY <1>5 DEF RefreshFind, At
  <2>3. CASE tokens[t].status # "none" /\ ~IsActive(t) /\ task' = [task EXCEPT ![p] = one]
    <3>1. one \in Tasks
      BY <1>1, <1>4, <2>3
    <3>2. RevokesFamily(task[p], one)
      BY <1>1, <2>2, <2>3 DEF RevokesFamily, Tasks
    <3>3. Changes(task[p], one)
      BY <3>2 DEF Changes
    <3> HIDE DEF one
    <3>4. QED
      BY <1>3, <2>2, <2>3, <3>1, <3>3, IdleFields
  <2>4. CASE task' = [task EXCEPT ![p] = two]
    <3>1. two \in Tasks
      BY <1>1, <1>4, <2>4
    <3>2. two.op = task[p].op /\ two.step = "findUser"
      BY <1>1 DEF Tasks
    <3> HIDE DEF two
    <3>3. QED
      BY <1>3, <2>2, <2>4, <3>1, <3>2, IdleFields DEF Changes
  <2>5. QED
    BY <1>2, <2>1, <2>2, <2>3, <2>4, IdleFields
<1>6. CASE RefreshFindUser(p)
  <2> DEFINE new == [task[p] EXCEPT !.step = "exchange", !.read = user]
  <2>1. task[p].step = "findUser" /\ (Finish(p) \/ task' = [task EXCEPT ![p] = new])
    BY <1>1, <1>6 DEF RefreshFindUser, At
  <2>2. new.op = task[p].op /\ new.step = "exchange"
    BY <1>1 DEF Tasks
  <2>3. task' = [task EXCEPT ![p] = new] => new \in Tasks
    BY <1>1, <1>4
  <2>4. QED
    BY <1>2, <1>3, <2>1, <2>2, <2>3, IdleFields DEF Changes
<1>7. CASE LockRow(p)
  <2>1. task[p].step = "lockRows"
    BY <1>7 DEF LockRow, At
  <2>2. PICK i \in task[p].rows :
          task' = [task EXCEPT ![p].rows = @ \ {i}, ![p].held = @ \cup {i}]
    BY <1>7 DEF LockRow
  <2> DEFINE new == [task[p] EXCEPT !.rows = @ \ {i}, !.held = @ \cup {i}]
  <2>3. task' = [task EXCEPT ![p] = new]
    BY <1>1, <2>2
  <2>4. new \in Tasks
    BY <1>1, <1>4, <2>3
  <2>5. Locks(task[p], new)
    BY <2>1 DEF Locks
  <2>6. QED
    BY <1>3, <2>1, <2>3, <2>4, <2>5, IdleFields DEF Changes
<1>8. CASE LogoutTx(p)
  <2> DEFINE new == [task[p] EXCEPT !.step = "revokeAccess"]
  <2>1. task[p].step = "logoutTx" /\ task' = [task EXCEPT ![p] = new]
    BY <1>1, <1>8 DEF LogoutTx, At
  <2>2. /\ new.op = task[p].op /\ new.step = "revokeAccess"
        /\ new.held = task[p].held /\ new.holdsUser = task[p].holdsUser
    BY <1>1 DEF Tasks
  <2>3. new \in Tasks
    BY <1>1, <1>4, <2>1
  <2>4. QED
    BY <1>3, <2>1, <2>2, <2>3, IdleFields DEF Changes
<1>9. CASE LockUser(p)
  <2> DEFINE New(u) == [task[p] EXCEPT !.step = "update", !.holdsUser = TRUE, !.read = u]
  <2>1. /\ task[p].step = "lockUser"
        /\ Finish(p) \/ \E u \in {Suspended(user), Deleted(user)} : task' = [task EXCEPT ![p] = New(u)]
    BY <1>1, <1>9 DEF LockUser, At
  <2>2. \A u : New(u).op = task[p].op /\ New(u).step = "update"
    BY <1>1 DEF Tasks
  <2>3. ASSUME NEW u, task' = [task EXCEPT ![p] = New(u)] PROVE New(u) \in Tasks
    BY <1>1, <1>4, <2>3
  <2>4. QED
    BY <1>2, <1>3, <2>1, <2>2, <2>3, IdleFields DEF Changes
<1>10. CASE RevokeAllByUserID(p)
  <2> DEFINE new == [task[p] EXCEPT !.step = "lockRows", !.rows = ActiveOrRotated, !.seen = issued]
  <2>1. task[p].step = "update" /\ task' = [task EXCEPT ![p] = new]
    BY <1>1, <1>10 DEF RevokeAllByUserID, At
  <2>2. new.op = task[p].op /\ new.step = "lockRows"
    BY <1>1 DEF Tasks
  <2>3. new \in Tasks
    BY <1>1, <1>4, <2>1
  <2>4. QED
    BY <1>3, <2>1, <2>2, <2>3, IdleFields DEF Changes
<1>11. CASE \/ LoginTx(p) \/ Exchange(p) \/ ReuseTx(p) \/ MarkExpiredTx(p)
            \/ RevokeAccessToken(p) \/ AccountTx(p) \/ Fail(p)
  <2>1. Finish(p) /\ task[p] # Idle
    BY <1>11, IdleFields DEF LoginTx, Exchange, ReuseTx, MarkExpiredTx, RevokeAccessToken,
                             AccountTx, Fail, RowsLocked, At
  <2>2. QED
    BY <1>2, <2>1
<1>12. CASE DeadlockDetected(p)
  <2>1. Finish(p) /\ WaitsFor(p) # {}
    BY <1>12 DEF DeadlockDetected, Deadlocked
  <2>2. task[p] # Idle
    BY <2>1, IdleFields DEF WaitsFor, RowsLocked, At
  <2>3. QED
    BY <1>2, <2>1, <2>2
<1>13. QED
  BY <1>5, <1>6, <1>7, <1>8, <1>9, <1>10, <1>11, <1>12 DEF Step

LEMMA EveryChange ==
  ASSUME TokensInv, [Next]_vars
  PROVE  task' = task \/ \E p \in Processes : Changed(p)
<1>1. CASE \E p \in Processes : Start(p) \/ Step(p) \/ Fail(p)
  BY <1>1, StartChanges, StepChanges
<1>2. CASE DeleteStaleBefore \/ (\E t \in TokenIds : LifetimePasses(t)) \/ UNCHANGED vars
  BY <1>2 DEF DeleteStaleBefore, LifetimePasses, vars
<1>3. QED
  BY <1>1, <1>2 DEF Next
----------------------------------------------------------------------------
(***************************************************************************)
(* The active token of a session is its newest: whatever row the session   *)
(* has beside it was handed out before.                                    *)
(***************************************************************************)
ActiveIsNewest ==
  \A t, a \in TokenIds :
    tokens[t].status # "none" /\ IsActive(a) /\ tokens[t].family = tokens[a].family => t <= a

\* A row stays, or it is over: a stale one is deleted, a used one keeps its family.
RowsFade ==
  \A i \in TokenIds :
    \/ tokens'[i] = tokens[i]
    \/ tokens'[i].status = "none"
    \/ /\ tokens[i].status # "none" /\ tokens'[i].status # "active"
       /\ tokens'[i].family = tokens[i].family

LEMMA SetStatusRowsFade ==
  ASSUME SharedInv, NEW S \in SUBSET {i \in TokenIds : tokens[i].status # "none"},
         NEW status \in TokenStatuses \ {"active"}, SetStatus(S, status)
  PROVE  RowsFade
<1>1. tokens \in [TokenIds -> Rows]
  BY DEF SharedInv, SharedTypes
<1>2. ASSUME NEW i \in S
      PROVE  tokens'[i].status = status /\ tokens'[i].family = tokens[i].family
  <2>1. tokens'[i] = [tokens[i] EXCEPT !.status = status]
    BY <1>2 DEF SetStatus
  <2>2. QED
    BY <1>1, <2>1 DEF Rows
<1>3. \A i \in TokenIds \ S : tokens'[i] = tokens[i]
  BY DEF SetStatus
<1>4. QED
  BY <1>2, <1>3 DEF RowsFade

LEMMA NextRowsFade ==
  ASSUME TokensInv, [Next]_vars
  PROVE  RowsFade \/ (\E p \in Processes : LoginTx(p)) \/ (\E p \in Processes : Exchange(p))
<1>1. SharedTypes /\ SharedInv
  BY DEF TokensInv, SharedInv
<1>2. ASSUME tokens' = tokens PROVE RowsFade
  BY <1>2 DEF RowsFade
<1>3. ASSUME NEW p \in Processes, ReuseTx(p) \/ MarkExpiredTx(p) \/ LogoutTx(p) \/ AccountTx(p)
      PROVE  RowsFade
  <2>1. \E S \in SUBSET {i \in TokenIds : tokens[i].status # "none"} :
          SetStatus(S, "revoked") \/ SetStatus(S, "expired")
    <3>1. task[p].held \subseteq TokenIds
      BY <1>3, Facts DEF Tasks
    <3>2. ActiveOrRotated \subseteq {i \in TokenIds : tokens[i].status # "none"}
      BY DEF ActiveOrRotated
    <3>3. CASE ReuseTx(p)
      BY <3>1, <3>3 DEF ReuseTx, IsActive
    <3>4. CASE MarkExpiredTx(p) \/ LogoutTx(p) \/ AccountTx(p)
      BY <3>2, <3>4 DEF MarkExpiredTx, LogoutTx, AccountTx
    <3>5. QED
      BY <1>3, <3>3, <3>4
  <2>2. QED
    BY <1>1, <2>1, SetStatusRowsFade DEF TokenStatuses
<1>4. ASSUME DeleteStaleBefore PROVE RowsFade
  BY <1>4 DEF DeleteStaleBefore, RowsFade, NoRow
<1>5. ASSUME NEW p \in Processes, Start(p) PROVE tokens' = tokens
  BY <1>5 DEF Start, Login, Refresh, Logout, ChangeAccount, MarkExpiredBefore, Begin, account
<1>6. ASSUME NEW p \in Processes,
             RefreshFind(p) \/ RefreshFindUser(p) \/ LockRow(p) \/ RevokeAccessToken(p)
             \/ RevokeAllByUserID(p) \/ LockUser(p) \/ DeadlockDetected(p) \/ Fail(p)
      PROVE  tokens' = tokens
  BY <1>6 DEF RefreshFind, RefreshFindUser, LockRow, RevokeAccessToken, RevokeAllByUserID,
              LockUser, DeadlockDetected, Fail, account
<1>7. ASSUME \/ UNCHANGED vars \/ \E t \in TokenIds : LifetimePasses(t)
      PROVE  tokens' = tokens
  BY <1>7 DEF vars, LifetimePasses, account
<1>8. QED
  BY <1>2, <1>3, <1>4, <1>5, <1>6, <1>7 DEF Next, Step

LEMMA NewestStep ==
  ASSUME TokensInv, ActiveIsNewest, [Next]_vars
  PROVE  ActiveIsNewest'
<1>1. /\ SharedTypes /\ SharedInv /\ OneActivePerFamily
      /\ tokens \in [TokenIds -> Rows] /\ tokens' \in [TokenIds -> Rows]
      /\ \A i \in TokenIds : tokens[i].family <= families
      /\ \A i \in TokenIds : i > issued => tokens[i] = NoRow
      /\ issued \in Nat /\ families \in Nat /\ TokenIds \subseteq Nat
  BY NextStep DEF TokensInv, SharedInv, SharedTypes, NotYetIssued, KnownFamilies, TokenIds
<1> SUFFICES ASSUME NEW t \in TokenIds, NEW a \in TokenIds,
                    tokens'[t].status # "none", tokens'[a].status = "active",
                    tokens'[t].family = tokens'[a].family
             PROVE  t <= a
  BY DEF ActiveIsNewest, IsActive
<1>2. CASE RowsFade
  <2>1. tokens'[a] = tokens[a]
    BY <1>2 DEF RowsFade
  <2>2. tokens[t].status # "none" /\ tokens[t].family = tokens'[t].family
    BY <1>2 DEF RowsFade
  <2>3. QED
    BY <2>1, <2>2 DEF ActiveIsNewest, IsActive
<1>3. ASSUME NEW p \in Processes, LoginTx(p) PROVE t <= a
  <2> DEFINE row == [status |-> "active", family |-> families + 1]
  <2>1. tokens' = [tokens EXCEPT ![issued + 1] = row]
    BY <1>3 DEF LoginTx, HandOut
  <2>2. \A i \in TokenIds : i # issued + 1 => tokens'[i] = tokens[i]
    BY <1>1, <2>1
  <2>3. issued + 1 \in TokenIds => tokens'[issued + 1].family = families + 1
    BY <1>1, <2>1
  <2>4. CASE t = issued + 1 \/ a = issued + 1
    <3>1. t = a
      BY <1>1, <2>2, <2>3, <2>4
    <3>2. QED
      BY <1>1, <3>1
  <2>5. CASE t # issued + 1 /\ a # issued + 1
    BY <2>2, <2>5 DEF ActiveIsNewest, IsActive
  <2>6. QED
    BY <2>4, <2>5
<1>4. ASSUME NEW p \in Processes, Exchange(p) PROVE t <= a
  <2> DEFINE i == task[p].token
             rs == [tokens EXCEPT ![i].status = "rotated"]
             row == [status |-> "active", family |-> tokens[i].family]
  <2>1. tokens' = [rs EXCEPT ![issued + 1] = row]
    BY <1>4 DEF Exchange, HandOut
  <2>2. i \in 1..issued /\ i \in TokenIds /\ tokens[i].status = "active"
    BY <1>1, <1>4, Facts DEF Exchange, At, Tasks, GoodTask, KnownTokens, HoldsActive, NoToken, TokenIds
  <2> HIDE DEF i
  <2>3. \A j \in TokenIds : j # issued + 1 /\ j # i => tokens'[j] = tokens[j]
    BY <1>1, <2>1
  <2>4. rs[i].status = "rotated" /\ rs[i].family = tokens[i].family
    BY <1>1, <2>2 DEF Rows
  <2>5. tokens'[i].status = "rotated" /\ tokens'[i].family = tokens[i].family
    <3>1. i # issued + 1
      BY <1>1, <2>2
    <3>2. rs \in [TokenIds -> Rows]
      BY <1>1 DEF Rows, TokenStatuses
    <3>3. tokens'[i] = rs[i]
      BY <2>1, <2>2, <3>1, <3>2
    <3>4. QED
      BY <2>4, <3>3
  <2>6. issued + 1 \in TokenIds => tokens'[issued + 1].family = tokens[i].family
    BY <1>1, <2>1
  <2>7. t <= issued + 1
    BY <1>1, <2>2, <2>3 DEF NoRow
  <2>8. a # i
    BY <2>5
  <2>9. CASE a = issued + 1
    BY <2>7, <2>9
  <2>10. CASE a # issued + 1
    <3>1. tokens[a].status = "active" /\ tokens'[a] = tokens[a]
      BY <2>3, <2>8, <2>10
    <3>2. tokens[a].family # tokens[i].family
      BY <1>1, <2>2, <2>8, <3>1 DEF OneActivePerFamily, IsActive
    <3>3. t # issued + 1 /\ t # i
      BY <2>5, <2>6, <3>1, <3>2
    <3>4. QED
      BY <2>3, <3>1, <3>3 DEF ActiveIsNewest, IsActive
  <2>11. QED
    BY <2>9, <2>10
<1>5. QED
  BY <1>2, <1>3, <1>4, NextRowsFade

(***************************************************************************)
(* Who holds a row or the user is at a statement of its transaction; the   *)
(* UPDATE of RevokeFamily looks for at most one row, newer than the one    *)
(* that the handling of the reuse holds.                                   *)
(***************************************************************************)
Orderly(t) ==
  /\ t.held # {} \/ t.holdsUser => t.step \in {"findUser", "exchange", "update", "lockRows"}
  /\ t.op = "reuse" =>
       /\ \A r, s \in t.rows : r = s
       /\ t.rows # {} => t.held = {t.token}
       /\ \A r \in t.rows : t.token < r

LEMMA StaysOrderly ==
  ASSUME TokensInv, ActiveIsNewest, NEW t \in Tasks, NEW new \in Tasks,
         Paired(t), Orderly(t), KnownTokens(t, issued), Changes(t, new)
  PROVE  Orderly(new)
<1>1. CASE RevokesFamily(t, new)
  <2> DEFINE f == tokens[t.token].family
  <2>1. t.token \in TokenIds /\ t.token \in Nat
    BY <1>1, BoundsAssumption DEF RevokesFamily, KnownTokens, NoToken, Tasks, TokenIds
  <2>2. \A r \in new.rows : r \in TokenIds /\ IsActive(r) /\ tokens[r].family = f
    BY <1>1 DEF RevokesFamily, ActiveInFamily
  <2>3. \A r, s \in new.rows : r = s
    BY <2>2 DEF TokensInv, SharedInv, OneActivePerFamily
  <2>4. \A r \in new.rows : t.token <= r /\ t.token # r
    BY <1>1, <2>1, <2>2 DEF RevokesFamily, ActiveIsNewest
  <2>5. \A r \in new.rows : r \in Nat
    BY <2>2 DEF TokenIds
  <2>6. QED
    BY <1>1, <2>1, <2>3, <2>4, <2>5 DEF RevokesFamily, Orderly
<1>2. CASE Locks(t, new)
  <2>1. PICK i \in t.rows : new = [t EXCEPT !.rows = @ \ {i}, !.held = @ \cup {i}]
    BY <1>2 DEF Locks
  <2>2. new.op = t.op /\ new.step = "lockRows" /\ new.rows = t.rows \ {i}
    BY <1>2, <2>1 DEF Locks, Tasks
  <2>3. t.op = "reuse" => new.rows = {}
    BY <2>2 DEF Orderly
  <2>4. QED
    BY <2>2, <2>3 DEF Orderly
<1>3. CASE new = Idle
  BY <1>3 DEF Orderly, Idle
<1>4. CASE t = Idle /\ new.held = {} /\ new.holdsUser = FALSE /\ new.op # "reuse"
  BY <1>4 DEF Orderly
<1>5. CASE \/ t.step = "find" /\ new.op = t.op /\ new.step = "findUser"
           \/ t.step = "findUser" /\ new.op = t.op /\ new.step = "exchange"
           \/ t.step = "lockUser" /\ new.op = t.op /\ new.step = "update"
           \/ t.step = "update" /\ new.op = t.op /\ new.step = "lockRows"
  BY <1>5, IdleFields DEF Orderly, Paired
<1>6. CASE /\ t.step = "logoutTx" /\ new.op = t.op /\ new.step = "revokeAccess"
           /\ new.held = t.held /\ new.holdsUser = t.holdsUser
  BY <1>6, IdleFields DEF Orderly, Paired
<1>7. QED
  BY <1>1, <1>2, <1>3, <1>4, <1>5, <1>6 DEF Changes

LEMMA OrderlyStep ==
  ASSUME TokensInv, ActiveIsNewest, [Next]_vars,
         \A p \in Processes : Paired(task[p]), \A p \in Processes : Orderly(task[p])
  PROVE  \A p \in Processes : Orderly(task'[p])
<1>1. CASE task' = task
  BY <1>1
<1>2. ASSUME NEW p \in Processes, Changed(p)
      PROVE  \A q \in Processes : Orderly(task'[q])
  <2>1. PICK new \in Tasks : task' = [task EXCEPT ![p] = new] /\ Changes(task[p], new)
    BY <1>2 DEF Changed
  <2>2. task \in [Processes -> Tasks] /\ task[p] \in Tasks /\ KnownTokens(task[p], issued)
    BY Facts DEF GoodTask
  <2>3. Orderly(new)
    BY <2>1, <2>2, StaysOrderly
  <2>4. QED
    BY <2>1, <2>2, <2>3
<1>3. QED
  BY <1>1, <1>2, EveryChange

OrderInv ==
  /\ ActiveIsNewest
  /\ \A p \in Processes : Paired(task[p])
  /\ \A p \in Processes : Orderly(task[p])

LEMMA AlwaysOrderInv == Spec => []OrderInv
<1>1. Init => OrderInv
  <2>1. SUFFICES ASSUME Init PROVE OrderInv
    OBVIOUS
  <2>2. Orderly(Idle) /\ Paired(Idle)
    BY DEF Orderly, Paired, Idle
  <2>3. QED
    BY <2>1, <2>2 DEF Init, OrderInv, ActiveIsNewest, NoRow
<1>2. TokensInv /\ OrderInv /\ [Next]_vars => OrderInv'
  BY NewestStep, PairedStep, OrderlyStep DEF OrderInv
<1>3. QED
  BY <1>1, <1>2, AlwaysTokensInv, PTL DEF Spec

\* Of some tokens one is the newest.
LEMMA NewestOfSome ==
  ASSUME NEW T \in SUBSET TokenIds, T # {}
  PROVE  \E m \in T : \A t \in T : t <= m
<1> DEFINE After(m) == {t \in T : t > m}
           Family == {After(m) : m \in T}
           R == StrictSubsetOrdering(T)
<1>1. MaxTokens \in Nat /\ T \subseteq Nat /\ IsFiniteSet(T)
  <2>1. IsFiniteSet(TokenIds)
    BY BoundsAssumption, FS_Interval DEF TokenIds
  <2>2. IsFiniteSet(T)
    BY <2>1, FS_Subset
  <2>3. MaxTokens \in Nat /\ TokenIds \subseteq Nat
    BY BoundsAssumption DEF TokenIds
  <2>4. QED
    BY <2>2, <2>3
<1>2. IsWellFoundedOn(R, SUBSET T)
  BY <1>1, FS_StrictSubsetOrderingWellFounded, FS_FiniteSubsetsOfFinite
<1>3. Family \subseteq SUBSET T /\ Family # {}
  OBVIOUS
<1>4. \E X \in Family : \A Y \in Family : ~(<<Y, X>> \in R)
  <2> HIDE DEF Family, R
  <2>1. QED
    BY <1>2, <1>3, WFMin
<1>5. PICK m \in T : \A k \in T : <<After(k), After(m)>> \notin R
  BY <1>4
<1>6. ASSUME NEW t \in T, ~(t <= m) PROVE FALSE
  <2>1. t > m /\ t \in Nat /\ m \in Nat
    BY <1>1, <1>6
  <2>2. After(t) \subseteq After(m)
    <3>1. ASSUME NEW k \in T, k > t PROVE k > m
      <4>1. k \in Nat
        BY <1>1
      <4>2. QED
        BY <2>1, <3>1, <4>1
    <3>2. QED
      BY <3>1
  <2>3. t \in After(m) /\ ~(t > t)
    BY <2>1
  <2>4. t \notin After(t)
    BY <2>3
  <2>5. <<After(t), After(m)>> \in R
    BY <2>2, <2>3, <2>4 DEF StrictSubsetOrdering
  <2>6. QED
    BY <1>5, <2>5
<1>7. QED
  BY <1>6

\* What RevokeAllByUserID and MarkExpiredBefore lock, they lock in any order.
BulkUpdate(p) == task[p].op \in {"suspend", "delete", "markExpired"} /\ At(p, "lockRows")

WaitingCircle(P) == P # {} /\ \A q \in P : WaitsFor(q) \cap P # {}

CirclesNeedABulkUpdate ==
  \A P \in SUBSET Processes : WaitingCircle(P) =>
    \E q, r \in P : BulkUpdate(q) /\ r \in WaitsFor(q) /\ At(r, "lockRows")

\* Who is waited for and waits itself has rows still to lock or the user to wait for.
LEMMA HolderWaits ==
  ASSUME TokensInv, OrderInv, NEW q \in Processes, NEW r \in WaitsFor(q), WaitsFor(r) # {}
  PROVE  r \in Processes /\ At(r, "lockRows")
<1>1. r \in Processes /\ (task[r].held # {} \/ task[r].holdsUser)
  BY DEF WaitsFor
<1>2. task[r].step \in {"findUser", "exchange", "update", "lockRows"}
  BY <1>1 DEF OrderInv, Orderly
<1>3. task[r].step \in {"find", "logoutTx", "lockRows", "lockUser"}
  BY DEF WaitsFor, RowsLocked, At
<1>4. QED
  BY <1>1, <1>2, <1>3 DEF At

LEMMA CircleHasBulkUpdate ==
  ASSUME TokensInv, OrderInv, NEW P \in SUBSET Processes, WaitingCircle(P)
  PROVE  \E q, r \in P : BulkUpdate(q) /\ r \in WaitsFor(q) /\ At(r, "lockRows")
<1> DEFINE W == {r \in P : \E q \in P : r \in WaitsFor(q)}
<1>1. W # {} /\ \A q \in P : \E r \in W : r \in WaitsFor(q)
  BY DEF WaitingCircle
<1>2. ASSUME NEW r \in W PROVE At(r, "lockRows")
  BY <1>2, HolderWaits DEF WaitingCircle
<1>3. CASE \E q \in W : BulkUpdate(q)
  BY <1>1, <1>2, <1>3
<1>4. CASE \A q \in W : ~BulkUpdate(q)
  <2>1. ASSUME NEW q \in W PROVE task[q].op = "reuse" /\ ~task[q].holdsUser
    <3>1. task[q].op = "reuse"
      BY <1>2, <1>4, <2>1, IdleFields DEF BulkUpdate, OrderInv, Paired, At
    <3>2. QED
      BY <2>1, <3>1, Facts DEF GoodTask, HoldsTheUser, Suspending
  <2>2. ASSUME NEW q \in W
        PROVE  /\ \E r \in W : task[q].rows \cap task[r].held # {}
               /\ task[q].rows # {}
    <3>1. PICK r \in W : r \in WaitsFor(q)
      BY <1>1, <2>2
    <3>2. ~task[r].holdsUser /\ task[q].step = "lockRows"
      BY <1>2, <2>1, <2>2 DEF At
    <3>3. QED
      BY <3>1, <3>2 DEF WaitsFor, At
  <2>3. ASSUME NEW q \in W
        PROVE  /\ task[q].held = {task[q].token} /\ task[q].token \in TokenIds
               /\ \A r \in task[q].rows : task[q].token < r
    <3>1. /\ task[q].held = {task[q].token}
          /\ \A r \in task[q].rows : task[q].token < r
      BY <2>1, <2>2, <2>3 DEF OrderInv, Orderly
    <3>2. task[q].held \subseteq TokenIds
      BY <2>3, Facts DEF Tasks
    <3>3. QED
      BY <3>1, <3>2
  <2>4. PICK m \in {task[q].token : q \in W} : \A q \in W : task[q].token <= m
    <3> DEFINE Presented == {task[q].token : q \in W}
    <3> HIDE DEF W
    <3>1. Presented \subseteq TokenIds
      BY <2>3
    <3>2. Presented # {}
      BY <1>1
    <3>3. PICK m \in Presented : \A k \in Presented : k <= m
      BY <3>1, <3>2, NewestOfSome
    <3>4. QED
      BY <3>3
  <2>5. PICK q \in W : task[q].token = m
    BY <2>4
  <2>6. PICK r \in W : task[q].rows \cap task[r].held # {}
    BY <2>2, <2>5
  <2>7. task[r].token \in task[q].rows
    BY <2>3, <2>6
  <2>8. task[q].token < task[r].token /\ task[r].token <= m
    BY <2>3, <2>4, <2>7
  <2>9. task[q].token \in Nat /\ task[r].token \in Nat
    BY <2>3 DEF TokenIds
  <2>10. QED
    BY <2>5, <2>8, <2>9
<1>5. QED
  BY <1>3, <1>4

(***************************************************************************)
(* Whenever transactions wait for each other in a circle, one of them is   *)
(* the UPDATE of a suspension, of a deletion or of the cleanup, waiting for*)
(* another one that has rows and wants more: refreshes, logouts and        *)
(* handlings of a reuse never deadlock among themselves, for a token is    *)
(* presented before the newest one of its family is locked.                *)
(***************************************************************************)
THEOREM DeadlocksNeedABulkUpdate == Spec => []CirclesNeedABulkUpdate
<1>1. TokensInv /\ OrderInv => CirclesNeedABulkUpdate
  BY CircleHasBulkUpdate DEF CirclesNeedABulkUpdate
<1>2. QED
  BY <1>1, AlwaysTokensInv, AlwaysOrderInv, PTL
----------------------------------------------------------------------------
(***************************************************************************)
(* The steps of an operation run out: how many it may still take.          *)
(***************************************************************************)
StepsLeft(t) ==
  CASE t.step = "idle" -> 0
    [] t.step \in {"create", "exchange", "revokeAccess"} -> 1
    [] t.step \in {"findUser", "logoutTx"} -> 2
    [] t.step = "lockRows" -> 1 + Cardinality(t.rows)
    [] t.step = "update" -> MaxTokens + 2
    [] t.step \in {"find", "lockUser"} -> MaxTokens + 3

StepsRunOut ==
  [][\A p \in Processes :
       /\ StepsLeft(task[p]) \in 0..(MaxTokens + 3)
       /\ Step(p) => StepsLeft(task'[p]) < StepsLeft(task[p])
       /\ StepsLeft(task'[p]) > StepsLeft(task[p]) => Start(p)]_vars

\* A statement over the token rows has no more rows to lock than there are.
LEMMA RowsAreFew ==
  ASSUME NEW t \in Tasks
  PROVE  Cardinality(t.rows) \in 0..MaxTokens /\ IsFiniteSet(t.rows)
<1>1. IsFiniteSet(TokenIds) /\ Cardinality(TokenIds) = MaxTokens
  BY BoundsAssumption, FS_Interval DEF TokenIds
<1>2. t.rows \in SUBSET TokenIds
  BY DEF Tasks
<1>3. IsFiniteSet(t.rows) /\ Cardinality(t.rows) <= Cardinality(TokenIds)
  BY <1>1, <1>2, FS_Subset
<1>4. Cardinality(t.rows) \in Nat
  BY <1>3, FS_CardinalityType
<1>5. QED
  BY <1>1, <1>3, <1>4, BoundsAssumption

LEMMA StepsLeftValues ==
  ASSUME NEW t \in Tasks
  PROVE  /\ StepsLeft(t) \in 0..(MaxTokens + 3)
         /\ t.step # "idle" => StepsLeft(t) > 0
         /\ t.step = "idle" => StepsLeft(t) = 0
         /\ t.step \in {"create", "exchange", "revokeAccess"} => StepsLeft(t) = 1
         /\ t.step \in {"findUser", "logoutTx"} => StepsLeft(t) = 2
         /\ t.step = "lockRows" => StepsLeft(t) = 1 + Cardinality(t.rows)
         /\ t.step = "update" => StepsLeft(t) = MaxTokens + 2
         /\ t.step \in {"find", "lockUser"} => StepsLeft(t) = MaxTokens + 3
<1>1. t.step \in Steps
  BY DEF Tasks
<1>2. Cardinality(t.rows) \in 0..MaxTokens /\ MaxTokens \in Nat
  BY RowsAreFew, BoundsAssumption
<1>3. /\ t.step = "idle" => StepsLeft(t) = 0
      /\ t.step \in {"create", "exchange", "revokeAccess"} => StepsLeft(t) = 1
      /\ t.step \in {"findUser", "logoutTx"} => StepsLeft(t) = 2
      /\ t.step = "lockRows" => StepsLeft(t) = 1 + Cardinality(t.rows)
      /\ t.step = "update" => StepsLeft(t) = MaxTokens + 2
      /\ t.step \in {"find", "lockUser"} => StepsLeft(t) = MaxTokens + 3
  BY DEF StepsLeft
<1>4. QED
  BY <1>1, <1>2, <1>3 DEF Steps

LEMMA ChangeLowersStepsLeft ==
  ASSUME NEW t \in Tasks, NEW new \in Tasks, t # Idle, Paired(t), Changes(t, new)
  PROVE  StepsLeft(new) < StepsLeft(t)
<1>1. MaxTokens \in Nat /\ t.step # "idle"
  BY BoundsAssumption, IdleFields DEF Paired
<1>2. CASE new = Idle
  BY <1>1, <1>2, StepsLeftValues, IdleFields
<1>3. CASE RevokesFamily(t, new) \/ (t.step = "update" /\ new.step = "lockRows")
  <2>1. Cardinality(new.rows) \in 0..MaxTokens
    BY RowsAreFew
  <2>2. t.step \in {"find", "update"} /\ new.step = "lockRows"
    BY <1>3 DEF RevokesFamily
  <2>3. /\ StepsLeft(t) = MaxTokens + 2 \/ StepsLeft(t) = MaxTokens + 3
        /\ StepsLeft(new) = 1 + Cardinality(new.rows)
    BY <2>2, StepsLeftValues
  <2>4. QED
    BY <1>1, <2>1, <2>3
<1>4. CASE Locks(t, new)
  <2>1. PICK i \in t.rows : new = [t EXCEPT !.rows = @ \ {i}, !.held = @ \cup {i}]
    BY <1>4 DEF Locks
  <2>2. new.rows = t.rows \ {i} /\ new.step = "lockRows" /\ t.step = "lockRows"
    BY <1>4, <2>1 DEF Locks, Tasks
  <2>3. IsFiniteSet(t.rows) /\ Cardinality(t.rows) \in Nat
    BY RowsAreFew, BoundsAssumption
  <2>4. Cardinality(t.rows \ {i}) = Cardinality(t.rows) - 1
    BY <2>3, FS_RemoveElement
  <2>5. /\ StepsLeft(t) = 1 + Cardinality(t.rows)
        /\ StepsLeft(new) = 1 + Cardinality(t.rows \ {i})
    BY <2>2, StepsLeftValues
  <2>6. QED
    BY <2>3, <2>4, <2>5
<1>5. CASE \/ t.step = "find" /\ new.step = "findUser"
           \/ t.step = "findUser" /\ new.step = "exchange"
           \/ t.step = "logoutTx" /\ new.step = "revokeAccess"
           \/ t.step = "lockUser" /\ new.step = "update"
  BY <1>1, <1>5, StepsLeftValues
<1>6. QED
  BY <1>2, <1>3, <1>4, <1>5 DEF Changes

(***************************************************************************)
(* Every statement that an operation comes to brings it nearer to its end, *)
(* and nothing that others do takes it back: an operation is over after at *)
(* most three statements and one for each row of the table, whatever runs  *)
(* beside it, if only the database goes on with it.                        *)
(***************************************************************************)
THEOREM OperationsRunOut == Spec => StepsRunOut
<1>1. ASSUME TokensInv, OrderInv, [Next]_vars, NEW p \in Processes
      PROVE  /\ StepsLeft(task[p]) \in 0..(MaxTokens + 3)
             /\ Step(p) => StepsLeft(task'[p]) < StepsLeft(task[p])
             /\ StepsLeft(task'[p]) > StepsLeft(task[p]) => Start(p)
  <2>1. task \in [Processes -> Tasks] /\ task[p] \in Tasks /\ Paired(task[p])
    BY <1>1, Facts DEF OrderInv
  <2>2. StepsLeft(task[p]) \in 0..(MaxTokens + 3) /\ MaxTokens \in Nat
    BY <2>1, StepsLeftValues, BoundsAssumption
  <2>3. ASSUME Step(p) \/ Fail(p) PROVE StepsLeft(task'[p]) < StepsLeft(task[p])
    <3>1. Changed(p) /\ task[p] # Idle
      BY <1>1, <2>3, StepChanges
    <3>2. PICK new \in Tasks : task' = [task EXCEPT ![p] = new] /\ Changes(task[p], new)
      BY <3>1 DEF Changed
    <3>3. task'[p] = new
      BY <2>1, <3>2
    <3>4. QED
      BY <2>1, <3>1, <3>2, <3>3, ChangeLowersStepsLeft
  <2>4. ASSUME task'[p] # task[p] PROVE Start(p) \/ Step(p) \/ Fail(p)
    <3>1. ASSUME NEW q \in Processes, Start(q) \/ Step(q) \/ Fail(q)
          PROVE  q = p
      BY <1>1, <2>1, <2>4, <3>1, StartChanges, StepChanges DEF Changed
    <3>2. ASSUME DeleteStaleBefore \/ (\E t \in TokenIds : LifetimePasses(t)) \/ UNCHANGED vars
          PROVE  FALSE
      BY <2>4, <3>2 DEF DeleteStaleBefore, LifetimePasses, vars
    <3>3. QED
      BY <1>1, <3>1, <3>2 DEF Next
  <2>5. ASSUME StepsLeft(task'[p]) > StepsLeft(task[p]) PROVE Start(p)
    <3>1. task'[p] # task[p]
      BY <2>2, <2>5
    <3>2. ASSUME Step(p) \/ Fail(p) PROVE FALSE
      <4>1. task'[p] \in Tasks
        BY <1>1, NextStep DEF TokensInv, TasksInv
      <4>2. StepsLeft(task'[p]) \in 0..(MaxTokens + 3)
        BY <4>1, StepsLeftValues
      <4>3. QED
        BY <2>2, <2>3, <2>5, <3>2, <4>2
    <3>3. QED
      BY <2>4, <3>1, <3>2
  <2>6. QED
    BY <2>2, <2>3, <2>5
<1>2. TokensInv /\ OrderInv /\ [Next]_vars =>
        \A p \in Processes :
          /\ StepsLeft(task[p]) \in 0..(MaxTokens + 3)
          /\ Step(p) => StepsLeft(task'[p]) < StepsLeft(task[p])
          /\ StepsLeft(task'[p]) > StepsLeft(task[p]) => Start(p)
  BY <1>1
<1>3. QED
  BY <1>2, AlwaysTokensInv, AlwaysOrderInv, PTL DEF Spec, StepsRunOut
=============================================================================
