-------------------------- MODULE WorkspaceAccess --------------------------
(***************************************************************************)
(* Users, workspaces and members: who may do what, and what happens when   *)
(* that changes while an operation is under way.                           *)
(*                                                                         *)
(* Every operation first reads, one statement after the other and without  *)
(* a lock, the account of the caller, the workspace, the account of its    *)
(* host and the membership of the caller (CheckWorkspaceAccess), then the  *)
(* target, and writes in a transaction of its own.  Each of these          *)
(* transactions changes one row it has locked, so it is one step.          *)
(*                                                                         *)
(* The documents that a deletion of the workspace flushes first are in     *)
(* DocumentPersistence, the tokens that a suspension revokes in            *)
(* RefreshTokens, the connections that are closed in LiveDocument.         *)
(***************************************************************************)
EXTENDS Naturals, FiniteSets

CONSTANTS Users, Workspaces, NoUser,
          Processes,    \* goroutines that serve requests
          MaxBegun      \* bound: operations begun

ASSUME NoUserAssumption == NoUser \notin Users
ASSUME BoundsAssumption == MaxBegun \in Nat

VARIABLES users,        \* [Users -> status], the rows of table "users"
          workspaces,   \* the rows of table "workspaces"
          members,      \* the rows of table "workspace_members", as roles
          task, begun,
          late          \* history: who wrote to which workspace after what had lapsed

vars == <<users, workspaces, members, task, begun, late>>

Names == {"first", "renamed"}

NotCreated == [host |-> NoUser, name |-> "first", deleted |-> FALSE]

Created == {w \in Workspaces : workspaces[w].host # NoUser}
Live == {w \in Created : ~workspaces[w].deleted}

Operations == {"none", "create", "rename", "deleteWorkspace", "addMember",
               "removeMember", "suspend", "reactivate", "deleteAccount"}
Steps == {"idle", "caller", "workspace", "host", "member", "target", "exists", "write"}

\* What an operation needs of its workspace: that it exists, and that the account
\* of its host is in use.  A suspension can be taken back, a deletion cannot.
Reasons == {"deleted", "host"}

AccountOperations == {"suspend", "reactivate", "deleteAccount"}
MemberOperations == {"addMember", "removeMember"}

Idle == [op |-> "none", step |-> "idle", caller |-> NoUser,
         workspace |-> NoUser, target |-> NoUser]

At(p, step) == task[p].step = step
Op(p) == task[p].op

Goto(p, step) == task' = [task EXCEPT ![p].step = step]
Finish(p) == task' = [task EXCEPT ![p] = Idle]

\* An unlocked read decides: on to this step, or an error to the caller.
Decide(p, fine, step) ==
  /\ IF fine THEN Goto(p, step) ELSE Finish(p)
  /\ UNCHANGED <<users, workspaces, members, begun>>

Init ==
  /\ users = [u \in Users |-> "active"]
  /\ workspaces = [w \in Workspaces |-> NotCreated]
  /\ members = [w \in Workspaces |-> [u \in Users |-> "none"]]
  /\ task = [p \in Processes |-> Idle]
  /\ begun = 0
  /\ late = {}
----------------------------------------------------------------------------
Begin(p, op, caller, workspace, target) ==
  /\ task[p] = Idle
  /\ begun < MaxBegun
  /\ begun' = begun + 1
  /\ task' = [task EXCEPT ![p] = [op |-> op, step |-> "caller", caller |-> caller,
                                  workspace |-> workspace, target |-> target]]
  /\ UNCHANGED <<users, workspaces, members>>

BeginCreateWorkspace(p) ==
  \E u \in Users : Begin(p, "create", u, NoUser, NoUser)

BeginOnWorkspace(p) ==
  \E u \in Users, w \in Created, op \in {"rename", "deleteWorkspace"} :
    Begin(p, op, u, w, NoUser)

BeginOnTarget(p) ==
  \E u, t \in Users, w \in Created, op \in MemberOperations \cup AccountOperations :
    Begin(p, op, u, w, t)
----------------------------------------------------------------------------
(***************************************************************************)
(* CheckWorkspaceAccess, one action per statement.  All operations here    *)
(* require the role of the host.                                           *)
(***************************************************************************)
CanAuthenticate(u) == users[u] = "active"

FindActiveUser(p) ==
  /\ At(p, "caller")
  /\ Decide(p, CanAuthenticate(task[p].caller),
            IF Op(p) = "create" THEN "write" ELSE "workspace")

\* Mutant: the rows of deleted workspaces are found, too.
FindWorkspaceOrDeleted(p) ==
  /\ At(p, "workspace")
  /\ Decide(p, task[p].workspace \in Created, "host")

FindWorkspace(p) ==
  /\ At(p, "workspace")
  /\ Decide(p, task[p].workspace \in Live, "host")

CheckWorkspaceHostStatus(p) ==
  /\ At(p, "host")
  /\ Decide(p, CanAuthenticate(workspaces[task[p].workspace].host), "member")

\* Mutant: any member will do.
HasRequiredRoleAnyMember(w, u) == members[w][u] # "none"

HasRequiredRole(w, u) == members[w][u] = "host"

\* Mutant: nobody checks that the caller is not the target.
TargetAllowedSelf(p) == TRUE

\* "ErrCannot...Self"; only a removal does not ask.
TargetAllowed(p) == Op(p) = "removeMember" \/ task[p].target # task[p].caller

FindMember(p) ==
  /\ At(p, "member")
  /\ Decide(p, HasRequiredRole(task[p].workspace, task[p].caller) /\ TargetAllowed(p),
            IF Op(p) \in {"rename", "deleteWorkspace"} THEN "write" ELSE "target")

\* Mutant: the role of the target is not looked at.
TargetFineAnyRole(p) ==
  \/ Op(p) = "addMember" /\ CanAuthenticate(task[p].target)
  \/ Op(p) # "addMember" /\ members[task[p].workspace][task[p].target] # "none"

\* What the operation requires of its target: an account that is in use, a
\* member, or a member who is not the host.
TargetFine(p) ==
  LET role == members[task[p].workspace][task[p].target] IN
  \/ Op(p) = "addMember" /\ CanAuthenticate(task[p].target)
  \/ Op(p) \in {"reactivate", "deleteAccount"} /\ role # "none"
  \/ Op(p) \in {"removeMember", "suspend"} /\ role = "member"

FindTarget(p) ==
  /\ At(p, "target")
  /\ Decide(p, TargetFine(p), IF Op(p) = "addMember" THEN "exists" ELSE "write")

Exists(p) ==
  /\ At(p, "exists")
  /\ Decide(p, members[task[p].workspace][task[p].target] = "none", "write")
----------------------------------------------------------------------------
(***************************************************************************)
(* The transactions.                                                       *)
(***************************************************************************)
CreateWorkspace(p) ==
  /\ Op(p) = "create" /\ At(p, "write")
  /\ \E w \in Workspaces \ Created :
       /\ workspaces' = [workspaces EXCEPT ![w].host = task[p].caller]
       /\ members' = [members EXCEPT ![w][task[p].caller] = "host"]
  /\ Finish(p)
  /\ UNCHANGED <<users, begun>>

\* Mutant: the row is not looked at again in the transaction.
NotDeletedUnchecked(w) == TRUE

NotDeleted(w) == ~workspaces[w].deleted

\* UpdateWorkspace and DeleteWorkspace look at the locked row once more.
WriteWorkspace(p, op, row) ==
  /\ Op(p) = op /\ At(p, "write")
  /\ LET w == task[p].workspace IN
     workspaces' = IF NotDeleted(w) THEN [workspaces EXCEPT ![w] = row] ELSE workspaces
  /\ Finish(p)
  /\ UNCHANGED <<users, members, begun>>

UpdateWorkspace(p) ==
  WriteWorkspace(p, "rename", [workspaces[task[p].workspace] EXCEPT !.name = "renamed"])

DeleteWorkspace(p) ==
  WriteWorkspace(p, "deleteWorkspace", [workspaces[task[p].workspace] EXCEPT !.deleted = TRUE])

\* The unique index on (workspace, user) refuses a second row.
AddMember(p) ==
  /\ Op(p) = "addMember" /\ At(p, "write")
  /\ LET w == task[p].workspace  t == task[p].target IN
     members' = IF members[w][t] = "none"
                THEN [members EXCEPT ![w][t] = "member"] ELSE members
  /\ Finish(p)
  /\ UNCHANGED <<users, workspaces, begun>>

\* Deletes whatever row there is now; none is an error.
RemoveMember(p) ==
  /\ Op(p) = "removeMember" /\ At(p, "write")
  /\ members' = [members EXCEPT ![task[p].workspace][task[p].target] = "none"]
  /\ Finish(p)
  /\ UNCHANGED <<users, workspaces, begun>>

\* Mutant: a status the table does not know.
StatusAfterUnknown(op) ==
  IF op = "suspend" THEN "suspended" ELSE IF op = "reactivate" THEN "reactivated" ELSE "deleted"

\* User.Suspend, User.Reactivate and User.LogicalDelete on the locked row.
StatusBefore(op) == IF op = "suspend" THEN "active" ELSE "suspended"
StatusAfter(op) ==
  CASE op = "suspend" -> "suspended"
    [] op = "reactivate" -> "active"
    [] op = "deleteAccount" -> "deleted"

\* Mutant: the status is taken from the read before the transaction.
ApplyStatusBlindly(u, op) == users' = [users EXCEPT ![u] = StatusAfter(op)]

ApplyStatus(u, op) ==
  users' = IF users[u] = StatusBefore(op)
           THEN [users EXCEPT ![u] = StatusAfter(op)] ELSE users

WriteAccount(p, op) ==
  /\ Op(p) = op /\ At(p, "write")
  /\ ApplyStatus(task[p].target, op)
  /\ Finish(p)
  /\ UNCHANGED <<workspaces, members, begun>>

SuspendAccount(p) == WriteAccount(p, "suspend")
ReactivateAccount(p) == WriteAccount(p, "reactivate")
DeleteAccount(p) == WriteAccount(p, "deleteAccount")
----------------------------------------------------------------------------
Start(p) == BeginCreateWorkspace(p) \/ BeginOnWorkspace(p) \/ BeginOnTarget(p)

Write(p) ==
  \/ CreateWorkspace(p) \/ UpdateWorkspace(p) \/ DeleteWorkspace(p)
  \/ AddMember(p) \/ RemoveMember(p)
  \/ SuspendAccount(p) \/ ReactivateAccount(p) \/ DeleteAccount(p)

Read(p) ==
  \/ FindActiveUser(p) \/ FindWorkspace(p) \/ CheckWorkspaceHostStatus(p)
  \/ FindMember(p) \/ FindTarget(p) \/ Exists(p)

Lapsed(w, reason) ==
  \/ reason = "deleted" /\ workspaces[w].deleted
  \/ reason = "host" /\ ~CanAuthenticate(workspaces[w].host)

\* The late writes of p join, those to workspaces that are in order again leave.
RememberLate(p) ==
  LET w == task[p].workspace
      new == {<<p, w, reason>> : reason \in {r \in Reasons : Op(p) # "create" /\ Lapsed(w, r)}}
  IN late' = {x \in late \cup new : Lapsed(x[2], x[3])'}

Next == \E p \in Processes :
  \/ (Start(p) \/ Read(p)) /\ UNCHANGED late
  \/ Write(p) /\ RememberLate(p)

Spec == Init /\ [][Next]_vars
----------------------------------------------------------------------------
TypeOK ==
  /\ users \in [Users -> {"active", "suspended", "deleted"}]
  /\ workspaces \in [Workspaces -> [host : Users \cup {NoUser}, name : Names, deleted : BOOLEAN]]
  /\ members \in [Workspaces -> [Users -> {"none", "host", "member"}]]
  /\ task \in [Processes -> [op : Operations, step : Steps, caller : Users \cup {NoUser},
                             workspace : Workspaces \cup {NoUser},
                             target : Users \cup {NoUser}]]
  /\ begun \in Nat
  /\ late \subseteq Processes \X Workspaces \X Reasons

(***************************************************************************)
(* A workspace has exactly one host, the one its row names: no sequence of *)
(* adding, removing and re-adding members, and no two of them at once,     *)
(* takes the host away or makes a second one.                              *)
(***************************************************************************)
ExactlyOneHost ==
  \A w \in Workspaces, u \in Users :
    members[w][u] = "host" <=> w \in Created /\ workspaces[w].host = u

(***************************************************************************)
(* Nothing is written to a workspace, its members or, through it, to an    *)
(* account but for its host, although the role is read long before the     *)
(* transaction and never again.                                            *)
(***************************************************************************)
OnlyHostWrites ==
  [][\A p \in Processes : Write(p) /\ Op(p) # "create" =>
       workspaces[task[p].workspace].host = task[p].caller]_vars

(***************************************************************************)
(* The host of a workspace loses neither account nor membership by an      *)
(* operation asked for in this workspace.  DeleteAccount and               *)
(* ReactivateAccount do not look at the role of the target: that the host  *)
(* is safe from them follows from there being one host and no self-service.*)
(***************************************************************************)
HostIsSafeAtHome ==
  [][\A p \in Processes : Op(p) # "create" /\ Write(p) =>
       LET w == task[p].workspace  h == workspaces[w].host IN
       users'[h] = users[h] /\ members'[w][h] = "host"]_vars

(***************************************************************************)
(* A rename or a second deletion that passed its check before the          *)
(* workspace was deleted does not touch the deleted row.                   *)
(***************************************************************************)
DeletedWorkspaceIsFrozen ==
  [][\A w \in Workspaces : workspaces[w].deleted => workspaces'[w] = workspaces[w]]_vars

(***************************************************************************)
(* However suspensions, reactivations and deletions of one account race, a *)
(* deleted account stays deleted and only a suspended one is deleted.      *)
(***************************************************************************)
AccountLifeCycle ==
  [][\A u \in Users :
       /\ users[u] = "deleted" => users'[u] = "deleted"
       /\ users'[u] = "deleted" => users[u] # "active"]_vars

(***************************************************************************)
(* The checks are long over when a transaction commits, so a deletion of   *)
(* the workspace or a suspension of its host does not stop an operation    *)
(* under way; but each goroutine finishes at most that one: whoever wrote  *)
(* to a workspace that was deleted, or whose host was suspended or deleted,*)
(* does not write to it again while that lasts.  Member rows and accounts  *)
(* are written without looking at the workspace in the transaction, so     *)
(* nothing but the checks of the next operation stands in the way.         *)
(***************************************************************************)
OneLateWrite ==
  [][\A p \in Processes, reason \in Reasons :
       Write(p) /\ Op(p) # "create" /\ Lapsed(task[p].workspace, reason) =>
         <<p, task[p].workspace, reason>> \notin late]_vars
=============================================================================
