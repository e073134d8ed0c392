--------------------------- MODULE RefreshTokens ---------------------------
(***************************************************************************)
(* The account of one user, its refresh tokens and its access tokens.      *)
(*                                                                         *)
(* Login, refresh, logout, the suspension, reactivation and deletion of    *)
(* the account and the cleanup batch run as goroutines over PostgreSQL.    *)
(* A step is one SQL statement or one Redis command (a transaction whose   *)
(* statements touch one locked row only is one step).  PostgreSQL runs     *)
(* READ COMMITTED: a statement sees what was committed when it started, an *)
(* UPDATE locks the rows it saw one after the other, waits for the ones    *)
(* another transaction holds, and looks at each again once it has it.      *)
(* db/migrate.go makes the tables from the entities, which declare no      *)
(* foreign key: inserting a token takes no lock on its user.               *)
(*                                                                         *)
(* A login or refresh hands out a refresh token and an access token; both  *)
(* get the same number.  A client may present any token it was ever given, *)
(* as often as it likes, from any number of tabs.                          *)
(***************************************************************************)
EXTENDS Naturals, FiniteSets

CONSTANTS Processes,     \* goroutines that serve requests or run the batch
          MaxTokens,     \* bound: tokens handed out
          MaxBegun,      \* bound: operations begun
          MaxFaults      \* bound: failed calls

ASSUME ProcessesAssumption == IsFiniteSet(Processes)
ASSUME BoundsAssumption ==
  MaxTokens \in Nat /\ MaxBegun \in Nat /\ MaxFaults \in Nat

VARIABLES user,        \* the row of table "users"
          tokens,      \* the rows of table "refresh_tokens"
          issued,      \* refresh tokens handed out so far
          families,    \* families (sessions) opened so far
          late,        \* the tokens whose lifetime has passed
          access,      \* the auth version inside every access token, 0: none
          revoked,     \* Redis: access tokens revoked by their jti
          task,        \* what each goroutine is doing
          begun, faults

account == <<user, tokens>>
handedOut == <<issued, families, access>>
vars == <<user, tokens, issued, families, late, access, revoked, task, begun, faults>>

TokenIds == 1..MaxTokens
NoToken == 0

UserStatuses == {"active", "suspended", "deleted"}
TokenStatuses == {"none", "active", "rotated", "revoked", "expired"}

Users == [status : UserStatuses, authVersion : Nat]
Rows == [status : TokenStatuses, family : 0..MaxTokens]
NoRow == [status |-> "none", family |-> 0]

CanAuthenticate(u) == u.status = "active"

\* Mutant: the column is left alone.
BumpedNot(u) == u

\* Every change of the account makes the access tokens of before useless.
Bumped(u) == [u EXCEPT !.authVersion = @ + 1]

Suspended(u) == Bumped([u EXCEPT !.status = "suspended"])
Reactivated(u) == Bumped([u EXCEPT !.status = "active"])
\* Mutant: a status of the other table.
DeletedAsRevoked(u) == Bumped([u EXCEPT !.status = "revoked"])

Deleted(u) == Bumped([u EXCEPT !.status = "deleted"])

IsActive(t) == tokens[t].status = "active"

\* Mutant: Refresh looks at RotatedAt only.
ExchangeableUnlessRotated(t) == tokens[t].status # "rotated"

\* Refresh takes the token for a good one.
Exchangeable(t) == IsActive(t)

\* The rows that RevokeFamily, RevokeAllByUserID and MarkExpiredBefore change.
ActiveInFamily(f) == {t \in TokenIds : IsActive(t) /\ tokens[t].family = f}
ActiveOrRotated == {t \in TokenIds : tokens[t].status \in {"active", "rotated"}}

\* Mutant: the auth version is not compared.
AcceptedAnyVersion(a) == access[a] # 0 /\ a \notin revoked /\ CanAuthenticate(user)

\* AuthMiddleware.Handle: would a request with access token a be let in now?
Accepted(a) ==
  /\ access[a] # 0
  /\ a \notin revoked
  /\ CanAuthenticate(user)
  /\ access[a] = user.authVersion
----------------------------------------------------------------------------
(***************************************************************************)
(* "token" is the refresh token presented, "wasLate" whether it was past   *)
(* its lifetime when the request took its "now", "read" the user row the   *)
(* goroutine read, "rows" the token rows its UPDATE still has to lock,     *)
(* "held" the ones it has locked, "holdsUser" whether it has locked the    *)
(* user, "seen" how many tokens there were when its UPDATE started.        *)
(***************************************************************************)
Operations == {"none", "login", "refresh", "reuse", "logout", "suspend",
               "reactivate", "delete", "markExpired"}
Steps == {"idle", "create", "find", "findUser", "exchange", "lockRows",
          "logoutTx", "revokeAccess", "lockUser", "update"}

NoUser == [status |-> "deleted", authVersion |-> 0]

Idle == [op |-> "none", step |-> "idle", token |-> NoToken, access |-> NoToken,
         wasLate |-> FALSE, read |-> NoUser, rows |-> {}, held |-> {},
         holdsUser |-> FALSE, seen |-> 0]

Tasks == [op : Operations, step : Steps, token : 0..MaxTokens, access : 0..MaxTokens,
          wasLate : BOOLEAN, read : Users, rows : SUBSET TokenIds, held : SUBSET TokenIds,
          holdsUser : BOOLEAN, seen : 0..MaxTokens]

At(p, step) == task[p].step = step

Finish(p) == task' = [task EXCEPT ![p] = Idle]

\* Mutants: the SELECT has no FOR UPDATE; the UPDATE of the user goes through
\* another connection than its SELECT ... FOR UPDATE.
FreeUnlocked(t, p) == TRUE
UserFreeOtherConnection(p) == \A q \in Processes : ~task[q].holdsUser

\* Row locks: nobody else holds token t, nobody else holds the user.
Free(t, p) == \A q \in Processes \ {p} : t \notin task[q].held
UserFree(p) == \A q \in Processes \ {p} : ~task[q].holdsUser

\* A transaction of p ends with every row of S in this status.
SetStatus(S, status) ==
  tokens' = [t \in TokenIds |-> IF t \in S THEN [tokens[t] EXCEPT !.status = status]
                                           ELSE tokens[t]]

Init ==
  /\ user = [status |-> "active", authVersion |-> 1]
  /\ tokens = [t \in TokenIds |-> NoRow]
  /\ issued = 0
  /\ families = 0
  /\ late = {}
  /\ access = [t \in TokenIds |-> 0]
  /\ revoked = {}
  /\ task = [p \in Processes |-> Idle]
  /\ begun = 0
  /\ faults = 0
----------------------------------------------------------------------------
Begin(p, t) ==
  /\ task[p] = Idle
  /\ begun < MaxBegun
  /\ begun' = begun + 1
  /\ task' = [task EXCEPT ![p] = t]
  /\ UNCHANGED <<account, handedOut, late, revoked, faults>>

\* Tokens that running logins and refreshes may still hand out.
Expected == Cardinality({q \in Processes : task[q].op \in {"login", "refresh"}})

\* The password was right; the user row is read before the transaction.
Login(p) ==
  /\ CanAuthenticate(user)
  /\ issued + Expected < MaxTokens
  /\ Begin(p, [Idle EXCEPT !.op = "login", !.step = "create", !.read = user])

Refresh(p) ==
  /\ issued + Expected < MaxTokens
  /\ \E t \in 1..issued :
       Begin(p, [Idle EXCEPT !.op = "refresh", !.step = "find", !.token = t,
                             !.wasLate = t \in late])

\* The middleware let the request in; the cookie may hold any token or none.
Logout(p) ==
  \E a \in 1..issued, t \in 0..issued :
    /\ Accepted(a)
    /\ Begin(p, [Idle EXCEPT !.op = "logout", !.access = a, !.token = t,
                             !.step = IF t = NoToken THEN "revokeAccess" ELSE "logoutTx"])

\* A host of a common workspace asks; who may ask is in WorkspaceAccess.
ChangeAccount(p) ==
  \E op \in {"suspend", "reactivate", "delete"} :
    Begin(p, [Idle EXCEPT !.op = op, !.step = "lockUser"])

MarkExpiredBefore(p) ==
  /\ late \cap ActiveOrRotated # {}
  /\ Begin(p, [Idle EXCEPT !.op = "markExpired", !.step = "lockRows",
                           !.rows = late \cap ActiveOrRotated, !.seen = issued])
----------------------------------------------------------------------------
\* A new row, active, in family f, and the access token given with it.
HandOut(f, tokensNow, authVersion) ==
  /\ issued' = issued + 1
  /\ tokens' = [tokensNow EXCEPT ![issued + 1] = [status |-> "active", family |-> f]]
  /\ access' = [access EXCEPT ![issued + 1] = authVersion]

LoginTx(p) ==
  /\ task[p].op = "login" /\ At(p, "create")
  /\ families' = families + 1
  /\ HandOut(families + 1, tokens, task[p].read.authVersion)
  /\ Finish(p)
  /\ UNCHANGED <<user, late, revoked, begun, faults>>

\* FindByHashForUpdate and what Refresh decides by the row alone.
RefreshFind(p) ==
  /\ task[p].op = "refresh" /\ At(p, "find")
  /\ Free(task[p].token, p)
  /\ LET t == task[p].token IN
     \/ /\ tokens[t].status = "none" \/ task[p].wasLate
        /\ Finish(p)
     \/ /\ tokens[t].status # "none" /\ ~task[p].wasLate /\ ~Exchangeable(t)
        /\ task' = [task EXCEPT ![p].op = "reuse", ![p].step = "lockRows",
                                ![p].held = {t}, ![p].seen = issued,
                                ![p].rows = ActiveInFamily(tokens[t].family)]
     \/ /\ tokens[t].status # "none" /\ ~task[p].wasLate /\ Exchangeable(t)
        /\ task' = [task EXCEPT ![p].step = "findUser", ![p].held = {t}]
  /\ UNCHANGED <<account, handedOut, late, revoked, begun, faults>>

\* The user is read without a lock: a suspension may be under way.
RefreshFindUser(p) ==
  /\ At(p, "findUser")
  /\ IF CanAuthenticate(user)
     THEN task' = [task EXCEPT ![p].step = "exchange", ![p].read = user]
     ELSE Finish(p)
  /\ UNCHANGED <<account, handedOut, late, revoked, begun, faults>>

\* Insert the next token, rotate the presented one, commit.
Exchange(p) ==
  /\ At(p, "exchange")
  /\ LET t == task[p].token IN
     HandOut(tokens[t].family, [tokens EXCEPT ![t].status = "rotated"],
             task[p].read.authVersion)
  /\ Finish(p)
  /\ UNCHANGED <<user, families, late, revoked, begun, faults>>

\* Mutant: SKIP LOCKED.
LockRowSkipping(p) ==
  /\ At(p, "lockRows")
  /\ \E t \in task[p].rows :
       task' = [task EXCEPT ![p].rows = @ \ {t},
                            ![p].held = IF Free(t, p) THEN @ \cup {t} ELSE @]
  /\ UNCHANGED <<account, handedOut, late, revoked, begun, faults>>

\* The UPDATE of a set of token rows locks the next one.
LockRow(p) ==
  /\ At(p, "lockRows")
  /\ \E t \in task[p].rows :
       /\ Free(t, p)
       /\ task' = [task EXCEPT ![p].rows = @ \ {t}, ![p].held = @ \cup {t}]
  /\ UNCHANGED <<account, handedOut, late, revoked, begun, faults>>

RowsLocked(p) == At(p, "lockRows") /\ task[p].rows = {}

\* A token used twice: its family is revoked, the auth version moves on.
ReuseTx(p) ==
  /\ task[p].op = "reuse" /\ RowsLocked(p) /\ UserFree(p)
  /\ SetStatus({t \in task[p].held : IsActive(t)}, "revoked")
  /\ user' = Bumped(user)
  /\ Finish(p)
  /\ UNCHANGED <<handedOut, late, revoked, begun, faults>>

MarkExpiredTx(p) ==
  /\ task[p].op = "markExpired" /\ RowsLocked(p)
  /\ SetStatus(task[p].held \cap ActiveOrRotated, "expired")
  /\ Finish(p)
  /\ UNCHANGED <<user, handedOut, late, revoked, begun, faults>>

LogoutTx(p) ==
  /\ At(p, "logoutTx")
  /\ Free(task[p].token, p)
  /\ SetStatus({task[p].token} \cap ActiveOrRotated, "revoked")
  /\ task' = [task EXCEPT ![p].step = "revokeAccess"]
  /\ UNCHANGED <<user, handedOut, late, revoked, begun, faults>>

RevokeAccessToken(p) ==
  /\ At(p, "revokeAccess")
  /\ revoked' = revoked \cup {task[p].access}
  /\ Finish(p)
  /\ UNCHANGED <<account, handedOut, late, begun, faults>>

\* FindByIDForUpdate of SuspendAccount, ReactivateAccount, DeleteAccount; a
\* reactivation commits at once, the other two go on to revoke the tokens.
LockUser(p) ==
  /\ At(p, "lockUser") /\ UserFree(p)
  /\ \/ /\ task[p].op = "suspend" /\ user.status = "active"
        /\ task' = [task EXCEPT ![p].step = "update", ![p].holdsUser = TRUE,
                                ![p].read = Suspended(user)]
        /\ UNCHANGED user
     \/ /\ task[p].op = "delete" /\ user.status = "suspended"
        /\ task' = [task EXCEPT ![p].step = "update", ![p].holdsUser = TRUE,
                                ![p].read = Deleted(user)]
        /\ UNCHANGED user
     \/ /\ task[p].op = "reactivate" /\ user.status = "suspended"
        /\ user' = Reactivated(user)
        /\ Finish(p)
     \/ /\ user.status # IF task[p].op = "suspend" THEN "active" ELSE "suspended"
        /\ Finish(p)
        /\ UNCHANGED user
  /\ UNCHANGED <<tokens, handedOut, late, revoked, begun, faults>>

\* RevokeAllByUserID starts: these are the rows it sees.
RevokeAllByUserID(p) ==
  /\ At(p, "update")
  /\ task' = [task EXCEPT ![p].step = "lockRows", ![p].rows = ActiveOrRotated,
                          ![p].seen = issued]
  /\ UNCHANGED <<account, handedOut, late, revoked, begun, faults>>

\* SuspendAccount and DeleteAccount commit.
AccountTx(p) ==
  /\ task[p].op \in {"suspend", "delete"} /\ RowsLocked(p) /\ UserFree(p)
  /\ SetStatus(task[p].held \cap ActiveOrRotated, "revoked")
  /\ user' = task[p].read
  /\ Finish(p)
  /\ UNCHANGED <<handedOut, late, revoked, begun, faults>>
----------------------------------------------------------------------------
\* DeleteStaleBefore: rows that are over and old enough.
DeleteStaleBefore ==
  /\ begun < MaxBegun
  /\ begun' = begun + 1
  /\ \E S \in SUBSET {t \in TokenIds : tokens[t].status \in {"expired", "revoked", "rotated"}
                                       /\ \A p \in Processes : t \notin task[p].held} :
       /\ S # {}
       /\ tokens' = [t \in TokenIds |-> IF t \in S THEN NoRow ELSE tokens[t]]
  /\ UNCHANGED <<user, handedOut, late, revoked, task, faults>>

\* Time passes the end of the lifetime of a refresh token.
LifetimePasses(t) ==
  /\ t \in (1..issued) \ late
  /\ late' = late \cup {t}
  /\ UNCHANGED <<account, handedOut, revoked, task, begun, faults>>

\* A call fails or the client goes away: the transaction is rolled back.
Fail(p) ==
  /\ task[p] # Idle
  /\ faults < MaxFaults
  /\ faults' = faults + 1
  /\ Finish(p)
  /\ UNCHANGED <<account, handedOut, late, revoked, begun>>

\* Whom p waits for, and the goroutines that wait for each other.
WaitsFor(p) == {q \in Processes \ {p} :
  \/ At(p, "find") /\ task[p].token \in task[q].held
  \/ At(p, "logoutTx") /\ task[p].token \in task[q].held
  \/ /\ At(p, "lockRows")
     /\ \A t \in task[p].rows : ~Free(t, p)
     /\ task[p].rows \cap task[q].held # {}
  \/ At(p, "lockUser") /\ task[q].holdsUser
  \/ task[p].op = "reuse" /\ RowsLocked(p) /\ task[q].holdsUser}

Deadlocked(p) ==
  \E P \in SUBSET Processes : p \in P /\ \A q \in P : WaitsFor(q) \cap P # {}

\* PostgreSQL rolls back one of the transactions that wait for each other (here
\* it may also be one that only waits for them).
DeadlockDetected(p) ==
  /\ Deadlocked(p)
  /\ Finish(p)
  /\ UNCHANGED <<account, handedOut, late, revoked, begun, faults>>
----------------------------------------------------------------------------
Start(p) == Login(p) \/ Refresh(p) \/ Logout(p) \/ ChangeAccount(p) \/ MarkExpiredBefore(p)

Step(p) ==
  \/ LoginTx(p) \/ RefreshFind(p) \/ RefreshFindUser(p) \/ Exchange(p)
  \/ LockRow(p) \/ ReuseTx(p) \/ MarkExpiredTx(p)
  \/ LogoutTx(p) \/ RevokeAccessToken(p)
  \/ LockUser(p) \/ RevokeAllByUserID(p) \/ AccountTx(p)
  \/ DeadlockDetected(p)

Next ==
  \/ \E p \in Processes : Start(p) \/ Step(p) \/ Fail(p)
  \/ DeleteStaleBefore
  \/ \E t \in TokenIds : LifetimePasses(t)

Spec == Init /\ [][Next]_vars

\* A goroutine goes on as long as the database answers.
Fairness == \A p \in Processes : WF_vars(Step(p))

FairSpec == Spec /\ Fairness
----------------------------------------------------------------------------
TypeOK ==
  /\ user \in Users
  /\ tokens \in [TokenIds -> Rows]
  /\ issued \in 0..MaxTokens
  /\ families \in 0..MaxTokens
  /\ late \subseteq TokenIds
  /\ access \in [TokenIds -> Nat]
  /\ revoked \subseteq TokenIds
  /\ task \in [Processes -> Tasks]
  /\ begun \in Nat
  /\ faults \in Nat

(***************************************************************************)
(* Refresh replaces a token under its row lock: however many tabs present  *)
(* it at the same time, and whatever revokes tokens meanwhile, a session   *)
(* has at most one refresh token that can still be exchanged.              *)
(***************************************************************************)
OneActivePerFamily ==
  \A t, u \in TokenIds :
    IsActive(t) /\ IsActive(u) /\ tokens[t].family = tokens[u].family => t = u

(***************************************************************************)
(* A session that ended (logout, reuse, suspension, deletion, lifetime)    *)
(* stays ended: no goroutine that was under way then, and no token a       *)
(* client still holds, brings it back.  This is the refinement of          *)
(* AuthSession; a session is open while its family has an active token.    *)
(***************************************************************************)
Session == [f \in TokenIds |->
  IF f > families THEN "unused"
  ELSE IF ActiveInFamily(f) # {} THEN "open" ELSE "ended"]

Auth == INSTANCE AuthSession WITH Families <- TokenIds, session <- Session

SessionsStayEnded == Auth!Spec

(***************************************************************************)
(* The middleware never lets in an access token it refused before: a logout*)
(* or a suspension is not undone by a reactivation, nor by an operation    *)
(* that had read the user row earlier.                                     *)
(***************************************************************************)
AccessNeverRevives ==
  [][\A a \in TokenIds : access[a] # 0 /\ ~Accepted(a) => ~Accepted(a)']_vars

(***************************************************************************)
(* When a token is presented a second time, every access token handed out  *)
(* up to then, in this session or another one, is worthless at once.       *)
(***************************************************************************)
ReuseEndsAccess ==
  [][\A p \in Processes : ReuseTx(p) => \A a \in TokenIds : ~Accepted(a)']_vars

(***************************************************************************)
(* A suspension or deletion ends every session whose token its UPDATE saw; *)
(* the tokens that survive it were handed out after that UPDATE began, by a*)
(* login or a refresh that had read the user row before.                   *)
(***************************************************************************)
OnlyNewTokensSurvive ==
  [][\A p \in Processes : AccountTx(p) =>
       \A t \in TokenIds : IsActive(t)' => t > task[p].seen]_vars

(***************************************************************************)
(* No operation waits for ever: what a refresh, a logout, a suspension and *)
(* the batch lock, they give back, and a circle of waiting transactions is *)
(* broken.                                                                 *)
(***************************************************************************)
EveryOperationEnds == \A p \in Processes : task[p] # Idle ~> task[p] = Idle
=============================================================================
