----------------------- MODULE WorkspaceAccessProofs -----------------------
(***************************************************************************)
(* What holds of WorkspaceAccess for any number of users, workspaces and   *)
(* goroutines.  An operation reads the role of its caller once and writes  *)
(* much later; that it still writes for the host rests on the host of a    *)
(* workspace never changing, and this on the checks of every other one.    *)
(***************************************************************************)
EXTENDS WorkspaceAccess, TLAPS

\* The rows.
RowTypes ==
  /\ users \in [Users -> {"active", "suspended", "deleted"}]
  /\ workspaces \in [Workspaces -> [host : Users \cup {NoUser}, name : Names, deleted : BOOLEAN]]
  /\ members \in [Workspaces -> [Users -> {"none", "host", "member"}]]
  /\ begun \in Nat

DeletedWasCreated == \A w \in Workspaces : workspaces[w].deleted => w \in Created

RowsInv == RowTypes /\ ExactlyOneHost /\ DeletedWasCreated

Tasks == [op : Operations, step : Steps, caller : Users \cup {NoUser},
          workspace : Workspaces \cup {NoUser}, target : Users \cup {NoUser}]

HasTarget(t) == t.op \in MemberOperations \cup AccountOperations
PastTheRole == {"target", "exists", "write"}

\* What an operation under way was given and has found out; rows are the
\* rows of the workspaces.
Knows(t, rows) ==
  /\ t.step # "idle" => t.caller \in Users
  /\ t.step # "idle" /\ t.op # "create" =>
       t.workspace \in Workspaces /\ rows[t.workspace].host # NoUser
  /\ t.step # "idle" /\ HasTarget(t) => t.target \in Users
  /\ t.op = "create" => t.step \in {"idle", "caller", "write"}
  /\ t.step = "exists" => t.op = "addMember"
  /\ t.step \in PastTheRole /\ t.op # "create" => rows[t.workspace].host = t.caller
  /\ t.step \in PastTheRole /\ HasTarget(t) /\ (t.op # "removeMember" \/ t.step = "write") =>
       t.target # t.caller

AccessInv ==
  /\ RowsInv
  /\ task \in [Processes -> Tasks]
  /\ \A p \in Processes : Knows(task[p], workspaces)

HostsStay ==
  \A w \in Workspaces : workspaces[w].host # NoUser => workspaces'[w].host = workspaces[w].host
----------------------------------------------------------------------------
LEMMA Facts ==
  ASSUME AccessInv, NEW p \in Processes
  PROVE  /\ RowTypes /\ ExactlyOneHost /\ DeletedWasCreated /\ RowsInv
         /\ task \in [Processes -> Tasks] /\ task[p] \in Tasks
         /\ Knows(task[p], workspaces)
BY DEF AccessInv, RowsInv

LEMMA IdleKnows ==
  /\ Idle \in Tasks
  /\ \A rows : Knows(Idle, rows)
<1>1. Idle \in Tasks
  BY DEF Idle, Tasks, Operations, Steps
<1>2. \A rows : Knows(Idle, rows)
  BY DEF Idle, Knows, PastTheRole
<1>3. QED
  BY <1>1, <1>2

\* A step changes the task of one goroutine, and no workspace changes hands.
LEMMA OneTask ==
  ASSUME AccessInv, NEW p \in Processes, NEW t \in Tasks,
         task' = [task EXCEPT ![p] = t], RowsInv', HostsStay, Knows(t, workspaces')
  PROVE  AccessInv'
<1>1. task' \in [Processes -> Tasks]
  BY DEF AccessInv
<1>2. task'[p] = t /\ \A q \in Processes \ {p} : task'[q] = task[q]
  BY DEF AccessInv
<1>3. \A q \in Processes : Knows(task[q], workspaces')
  BY DEF AccessInv, Knows, HostsStay, PastTheRole
<1>4. QED
  BY <1>1, <1>2, <1>3 DEF AccessInv

LEMMA RowsStay ==
  ASSUME RowsInv, UNCHANGED <<users, workspaces, members>>, begun' \in Nat
  PROVE  RowsInv' /\ HostsStay
BY DEF RowsInv, RowTypes, ExactlyOneHost, DeletedWasCreated, Created, HostsStay

\* An operation is asked for with what it is about.
Fits(op, w, t) ==
  \/ op = "create" /\ w = NoUser /\ t = NoUser
  \/ op \in {"rename", "deleteWorkspace"} /\ w \in Created /\ t = NoUser
  \/ op \in MemberOperations \cup AccountOperations /\ w \in Created /\ t \in Users

LEMMA BeginStep ==
  ASSUME AccessInv, NEW p \in Processes, NEW op \in Operations \ {"none"},
         NEW u \in Users, NEW w, NEW t, Begin(p, op, u, w, t),
         Fits(op, w, t)
  PROVE  AccessInv'
<1> DEFINE new == [op |-> op, step |-> "caller", caller |-> u, workspace |-> w, target |-> t]
<1>1. task' = [task EXCEPT ![p] = new] /\ UNCHANGED <<users, workspaces, members>>
      /\ begun' = begun + 1
  BY DEF Begin
<1>2. RowsInv' /\ HostsStay
  BY <1>1, Facts, RowsStay DEF RowTypes
<1>3. new \in Tasks
  BY DEF Tasks, Steps, Created, Fits
<1>4. Knows(new, workspaces')
  BY <1>1 DEF Knows, PastTheRole, HasTarget, MemberOperations, AccountOperations, Created, Fits
<1> HIDE DEF new
<1>5. QED
  BY <1>1, <1>2, <1>3, <1>4, OneTask

LEMMA StartStep ==
  ASSUME AccessInv, NEW p \in Processes, Start(p)
  PROVE  AccessInv'
<1>1. CASE BeginCreateWorkspace(p)
  <2>1. PICK u \in Users : Begin(p, "create", u, NoUser, NoUser)
    BY <1>1 DEF BeginCreateWorkspace
  <2>2. "create" \in Operations \ {"none"} /\ Fits("create", NoUser, NoUser)
    BY DEF Operations, Fits
  <2>3. QED
    BY <2>1, <2>2, BeginStep
<1>2. CASE BeginOnWorkspace(p)
  <2>1. PICK u \in Users, w \in Created, op \in {"rename", "deleteWorkspace"} :
          Begin(p, op, u, w, NoUser)
    BY <1>2 DEF BeginOnWorkspace
  <2>2. op \in Operations \ {"none"} /\ Fits(op, w, NoUser)
    BY DEF Operations, Fits
  <2>3. QED
    BY <2>1, <2>2, BeginStep
<1>3. CASE BeginOnTarget(p)
  <2>1. PICK u \in Users, t \in Users, w \in Created,
             op \in MemberOperations \cup AccountOperations : Begin(p, op, u, w, t)
    BY <1>3 DEF BeginOnTarget
  <2>2. op \in Operations \ {"none"} /\ Fits(op, w, t)
    BY DEF Fits, Operations, MemberOperations, AccountOperations
  <2>3. QED
    BY <2>1, <2>2, BeginStep
<1>4. QED
  BY <1>1, <1>2, <1>3 DEF Start
----------------------------------------------------------------------------
(***************************************************************************)
(* The reads.                                                              *)
(***************************************************************************)
LEMMA DecideStep ==
  ASSUME AccessInv, NEW p \in Processes, NEW fine, NEW step \in Steps,
         Decide(p, fine, step),
         fine => Knows([task[p] EXCEPT !.step = step], workspaces)
  PROVE  AccessInv'
<1>1. RowsInv' /\ HostsStay /\ workspaces' = workspaces
  BY Facts, RowsStay DEF Decide, RowTypes
<1>2. CASE fine
  <2> DEFINE t == [task[p] EXCEPT !.step = step]
  <2>1. task' = [task EXCEPT ![p] = t]
    BY <1>2, Facts DEF Decide, Goto
  <2>2. t \in Tasks
    BY Facts DEF Tasks
  <2>3. Knows(t, workspaces')
    BY <1>1, <1>2
  <2> HIDE DEF t
  <2>4. QED
    BY <1>1, <2>1, <2>2, <2>3, OneTask
<1>3. CASE ~fine
  <2>1. task' = [task EXCEPT ![p] = Idle]
    BY <1>3 DEF Decide, Finish
  <2>2. QED
    BY <1>1, <2>1, IdleKnows, OneTask
<1>4. QED
  BY <1>2, <1>3

\* A task that moves on to another step keeps the rest.
LEMMA MovesOn ==
  ASSUME NEW t \in Tasks, NEW step
  PROVE  LET n == [t EXCEPT !.step = step] IN
         /\ n.step = step /\ n.op = t.op /\ n.caller = t.caller
         /\ n.workspace = t.workspace /\ n.target = t.target
BY DEF Tasks

LEMMA ReadStep ==
  ASSUME AccessInv, NEW p \in Processes,
         FindActiveUser(p) \/ FindWorkspace(p) \/ CheckWorkspaceHostStatus(p)
         \/ FindMember(p) \/ FindTarget(p) \/ Exists(p)
  PROVE  AccessInv'
<1> DEFINE t == task[p]
           w == t.workspace
<1>1. t \in Tasks /\ Knows(t, workspaces) /\ RowTypes /\ ExactlyOneHost
  BY Facts
<1>2. ASSUME NEW step
      PROVE  /\ [t EXCEPT !.step = step].step = step
             /\ [t EXCEPT !.step = step].op = t.op
             /\ [t EXCEPT !.step = step].caller = t.caller
             /\ [t EXCEPT !.step = step].workspace = t.workspace
             /\ [t EXCEPT !.step = step].target = t.target
  BY <1>1, MovesOn
<1>3. CASE FindActiveUser(p)
  <2> DEFINE fine == CanAuthenticate(t.caller)
             step == IF t.op = "create" THEN "write" ELSE "workspace"
  <2>1. t.step = "caller" /\ Decide(p, fine, step)
    BY <1>3 DEF FindActiveUser, At, Op
  <2>2. step \in Steps
    BY DEF Steps
  <2>3. Knows([t EXCEPT !.step = step], workspaces)
    BY <1>1, <1>2, <2>1
    DEF Knows, HasTarget, PastTheRole, MemberOperations, AccountOperations
  <2> HIDE DEF fine, step
  <2>4. QED
    BY <2>1, <2>2, <2>3, DecideStep
<1>4. CASE FindWorkspace(p)
  <2>1. t.step = "workspace" /\ Decide(p, w \in Live, "host")
    BY <1>4 DEF FindWorkspace, At
  <2>2. Knows([t EXCEPT !.step = "host"], workspaces)
    BY <1>1, <1>2, <2>1 DEF Knows, HasTarget, PastTheRole
  <2>3. QED
    BY <2>1, <2>2, DecideStep DEF Steps
<1>5. CASE CheckWorkspaceHostStatus(p)
  <2>1. t.step = "host" /\ Decide(p, CanAuthenticate(workspaces[w].host), "member")
    BY <1>5 DEF CheckWorkspaceHostStatus, At
  <2>2. Knows([t EXCEPT !.step = "member"], workspaces)
    BY <1>1, <1>2, <2>1 DEF Knows, HasTarget, PastTheRole
  <2>3. QED
    BY <2>1, <2>2, DecideStep DEF Steps
<1>6. CASE FindMember(p)
  <2> DEFINE fine == HasRequiredRole(w, t.caller) /\ TargetAllowed(p)
             step == IF t.op \in {"rename", "deleteWorkspace"} THEN "write" ELSE "target"
  <2>1. t.step = "member" /\ Decide(p, fine, step)
    BY <1>6 DEF FindMember, At, Op
  <2>2. step \in Steps
    BY DEF Steps
  <2>3. t.op # "create" /\ t.caller \in Users /\ w \in Workspaces
    BY <1>1, <2>1 DEF Knows
  <2>4. ASSUME fine
        PROVE  Knows([t EXCEPT !.step = step], workspaces)
    <3>1. workspaces[w].host = t.caller
      BY <1>1, <2>3, <2>4 DEF ExactlyOneHost, HasRequiredRole
    <3>2. t.op # "removeMember" => t.target # t.caller
      BY <2>4 DEF TargetAllowed, Op
    <3>3. QED
      BY <1>1, <1>2, <2>1, <2>3, <3>1, <3>2
      DEF Knows, HasTarget, PastTheRole, MemberOperations, AccountOperations
  <2> HIDE DEF fine, step
  <2>5. QED
    BY <2>1, <2>2, <2>4, DecideStep
<1>7. CASE FindTarget(p)
  <2> DEFINE step == IF t.op = "addMember" THEN "exists" ELSE "write"
  <2>1. t.step = "target" /\ Decide(p, TargetFine(p), step)
    BY <1>7 DEF FindTarget, At, Op
  <2>2. step \in Steps
    BY DEF Steps
  <2>3. t.op # "create" /\ t.caller \in Users /\ w \in Workspaces
        /\ workspaces[w].host = t.caller /\ w \in Created
    BY <1>1, <2>1 DEF Knows, PastTheRole, Created
  <2>4. ASSUME TargetFine(p)
        PROVE  Knows([t EXCEPT !.step = step], workspaces)
    <3>1. members[w][t.caller] = "host"
      BY <1>1, <2>3 DEF ExactlyOneHost
    <3>2. t.op = "removeMember" => t.target # t.caller
      BY <2>4, <3>1 DEF TargetFine, Op
    <3>3. QED
      BY <1>1, <1>2, <2>1, <2>3, <3>2 DEF Knows, HasTarget, PastTheRole
  <2> HIDE DEF step
  <2>5. QED
    BY <2>1, <2>2, <2>4, DecideStep
<1>8. CASE Exists(p)
  <2>1. t.step = "exists" /\ Decide(p, members[w][t.target] = "none", "write")
    BY <1>8 DEF Exists, At
  <2>2. t.op # "removeMember"
    BY <1>1, <2>1 DEF Knows
  <2>3. Knows([t EXCEPT !.step = "write"], workspaces)
    BY <1>1, <1>2, <2>1, <2>2 DEF Knows, HasTarget, PastTheRole
  <2>4. QED
    BY <2>1, <2>3, DecideStep DEF Steps
<1>9. QED
  BY <1>3, <1>4, <1>5, <1>6, <1>7, <1>8
----------------------------------------------------------------------------
(***************************************************************************)
(* The transactions.                                                       *)
(***************************************************************************)
LEMMA CommitStep ==
  ASSUME AccessInv, NEW p \in Processes, Finish(p), RowsInv', HostsStay
  PROVE  AccessInv'
<1>1. task' = [task EXCEPT ![p] = Idle]
  BY DEF Finish
<1>2. QED
  BY <1>1, IdleKnows, OneTask

\* Whoever writes to a workspace is its host, and not the target.
LEMMA WriterIsHost ==
  ASSUME AccessInv, NEW p \in Processes, At(p, "write"), Op(p) # "create"
  PROVE  /\ task[p].workspace \in Workspaces /\ task[p].workspace \in Created
         /\ task[p].caller \in Users
         /\ workspaces[task[p].workspace].host = task[p].caller
         /\ members[task[p].workspace][task[p].caller] = "host"
         /\ HasTarget(task[p]) => task[p].target \in Users /\ task[p].target # task[p].caller
<1>1. /\ task[p].step = "write" /\ task[p].op # "create"
      /\ Knows(task[p], workspaces) /\ ExactlyOneHost
  BY Facts DEF At, Op
<1>2. /\ task[p].workspace \in Workspaces /\ workspaces[task[p].workspace].host # NoUser
      /\ task[p].caller \in Users
      /\ workspaces[task[p].workspace].host = task[p].caller
  BY <1>1 DEF Knows, PastTheRole
<1>3. members[task[p].workspace][task[p].caller] = "host"
  BY <1>1, <1>2 DEF ExactlyOneHost, Created
<1>4. HasTarget(task[p]) => task[p].target \in Users /\ task[p].target # task[p].caller
  BY <1>1 DEF Knows, PastTheRole
<1>5. QED
  BY <1>2, <1>3, <1>4 DEF Created

LEMMA CreateStep ==
  ASSUME AccessInv, NEW p \in Processes, CreateWorkspace(p)
  PROVE  AccessInv'
<1> DEFINE u == task[p].caller
<1>1. PICK w \in Workspaces \ Created :
        /\ workspaces' = [workspaces EXCEPT ![w].host = u]
        /\ members' = [members EXCEPT ![w][u] = "host"]
  BY DEF CreateWorkspace
<1>2. users' = users /\ begun' = begun /\ Finish(p)
  BY DEF CreateWorkspace
<1>3. u \in Users /\ RowTypes /\ ExactlyOneHost /\ DeletedWasCreated
  BY Facts DEF CreateWorkspace, At, Knows
<1>4. workspaces[w].host = NoUser
  BY <1>1 DEF Created
<1>5. /\ workspaces'[w].host = u
      /\ \A v \in Workspaces \ {w} : workspaces'[v] = workspaces[v] /\ members'[v] = members[v]
      /\ members'[w] = [members[w] EXCEPT ![u] = "host"]
  BY <1>1, <1>3 DEF RowTypes
<1>6. RowTypes'
  BY <1>1, <1>2, <1>3 DEF RowTypes
<1>7. ExactlyOneHost'
  <2>1. ASSUME NEW v \in Workspaces, NEW x \in Users
        PROVE  members'[v][x] = "host" <=> workspaces'[v].host # NoUser /\ workspaces'[v].host = x
    <3>1. CASE v = w
      <4>1. members[w][x] # "host"
        BY <1>3, <1>4, NoUserAssumption DEF ExactlyOneHost, Created
      <4>2. members'[w][x] = IF x = u THEN "host" ELSE members[w][x]
        BY <1>3, <1>5 DEF RowTypes
      <4>3. QED
        BY <1>3, <1>5, <3>1, <4>1, <4>2, NoUserAssumption
    <3>2. CASE v # w
      BY <1>3, <1>5, <3>2 DEF ExactlyOneHost, Created
    <3>3. QED
      BY <3>1, <3>2
  <2>2. QED
    BY <2>1 DEF ExactlyOneHost, Created
<1>8. DeletedWasCreated'
  BY <1>3, <1>5, NoUserAssumption DEF DeletedWasCreated, Created
<1>9. HostsStay
  BY <1>4, <1>5 DEF HostsStay
<1>10. QED
  BY <1>2, <1>6, <1>7, <1>8, <1>9, CommitStep DEF RowsInv

\* What a rename or a deletion does to the rows.
LEMMA WorkspaceRows ==
  ASSUME AccessInv, NEW p \in Processes, UpdateWorkspace(p) \/ DeleteWorkspace(p)
  PROVE  /\ workspaces' \in [Workspaces -> [host : Users \cup {NoUser}, name : Names,
                                            deleted : BOOLEAN]]
         /\ \A w \in Workspaces : /\ workspaces'[w].host = workspaces[w].host
                                  /\ workspaces[w].deleted => workspaces'[w] = workspaces[w]
                                  /\ workspaces'[w] # workspaces[w] => w \in Created
         /\ UNCHANGED <<users, members, begun>> /\ Finish(p)
<1> DEFINE w == task[p].workspace
           renamed == [workspaces[w] EXCEPT !.name = "renamed"]
           deleted == [workspaces[w] EXCEPT !.deleted = TRUE]
<1>1. RowTypes /\ w \in Workspaces /\ w \in Created
  BY Facts, WriterIsHost DEF UpdateWorkspace, DeleteWorkspace, WriteWorkspace
<1>2. UNCHANGED <<users, members, begun>> /\ Finish(p)
  BY DEF UpdateWorkspace, DeleteWorkspace, WriteWorkspace
<1>3. \/ workspaces' = workspaces
      \/ ~workspaces[w].deleted /\ workspaces' = [workspaces EXCEPT ![w] = renamed]
      \/ ~workspaces[w].deleted /\ workspaces' = [workspaces EXCEPT ![w] = deleted]
  BY DEF UpdateWorkspace, DeleteWorkspace, WriteWorkspace, NotDeleted
<1>4. workspaces \in [Workspaces -> [host : Users \cup {NoUser}, name : Names, deleted : BOOLEAN]]
  BY <1>1 DEF RowTypes
<1>5. /\ renamed \in [host : Users \cup {NoUser}, name : Names, deleted : BOOLEAN]
      /\ deleted \in [host : Users \cup {NoUser}, name : Names, deleted : BOOLEAN]
      /\ renamed.host = workspaces[w].host /\ deleted.host = workspaces[w].host
  BY <1>1, <1>4 DEF Names
<1> HIDE DEF renamed, deleted
<1>6. QED
  BY <1>1, <1>2, <1>3, <1>4, <1>5

LEMMA WorkspaceStep ==
  ASSUME AccessInv, NEW p \in Processes, UpdateWorkspace(p) \/ DeleteWorkspace(p)
  PROVE  AccessInv'
<1>1. HostsStay /\ users' = users /\ members' = members /\ begun' = begun /\ Finish(p)
  BY WorkspaceRows DEF HostsStay
<1>2. RowTypes'
  BY <1>1, Facts, WorkspaceRows DEF RowTypes
<1>3. ExactlyOneHost'
  BY <1>1, Facts, WorkspaceRows DEF ExactlyOneHost, Created
<1>4. DeletedWasCreated'
  BY Facts, WorkspaceRows DEF DeletedWasCreated, Created
<1>5. QED
  BY <1>1, <1>2, <1>3, <1>4, CommitStep DEF RowsInv

\* What adding or removing a member does to the rows.
LEMMA MemberRows ==
  ASSUME AccessInv, NEW p \in Processes, AddMember(p) \/ RemoveMember(p)
  PROVE  /\ members' \in [Workspaces -> [Users -> {"none", "host", "member"}]]
         /\ \A w \in Workspaces, u \in Users : members'[w][u] = "host" <=> members[w][u] = "host"
         /\ UNCHANGED <<users, workspaces, begun>> /\ Finish(p)
<1> DEFINE w == task[p].workspace
           t == task[p].target
<1>1. UNCHANGED <<users, workspaces, begun>> /\ Finish(p)
  BY DEF AddMember, RemoveMember
<1>2. /\ w \in Workspaces /\ t \in Users /\ t # task[p].caller
      /\ workspaces[w].host = task[p].caller
  BY WriterIsHost DEF AddMember, RemoveMember, Op, HasTarget, MemberOperations
<1>3. members \in [Workspaces -> [Users -> {"none", "host", "member"}]] /\ ExactlyOneHost
  BY Facts DEF RowTypes
<1>4. members[w][t] # "host"
  BY <1>2, <1>3 DEF ExactlyOneHost
<1>5. \/ members' = members
      \/ members' = [members EXCEPT ![w][t] = "member"]
      \/ members' = [members EXCEPT ![w][t] = "none"]
  BY DEF AddMember, RemoveMember
<1>6. QED
  BY <1>1, <1>2, <1>3, <1>4, <1>5

LEMMA MemberStep ==
  ASSUME AccessInv, NEW p \in Processes, AddMember(p) \/ RemoveMember(p)
  PROVE  AccessInv'
<1>1. UNCHANGED <<users, workspaces, begun>> /\ Finish(p)
  BY MemberRows
<1>2. RowTypes' /\ HostsStay
  BY <1>1, Facts, MemberRows DEF RowTypes, HostsStay
<1>3. ExactlyOneHost' /\ DeletedWasCreated'
  BY <1>1, Facts, MemberRows DEF ExactlyOneHost, DeletedWasCreated, Created
<1>4. QED
  BY <1>1, <1>2, <1>3, CommitStep DEF RowsInv

\* What an account operation does to the rows.
Account(p) == SuspendAccount(p) \/ ReactivateAccount(p) \/ DeleteAccount(p)

LEMMA AccountRows ==
  ASSUME AccessInv, NEW p \in Processes, Account(p)
  PROVE  /\ users' \in [Users -> {"active", "suspended", "deleted"}]
         /\ \A u \in Users : u # task[p].target => users'[u] = users[u]
         /\ \A u \in Users : /\ users[u] = "deleted" => users'[u] = "deleted"
                             /\ users'[u] = "deleted" => users[u] # "active"
         /\ UNCHANGED <<workspaces, members, begun>> /\ Finish(p)
<1> DEFINE t == task[p].target
<1>1. UNCHANGED <<workspaces, members, begun>> /\ Finish(p)
  BY DEF Account, SuspendAccount, ReactivateAccount, DeleteAccount, WriteAccount
<1>2. t \in Users
  BY WriterIsHost DEF Account, SuspendAccount, ReactivateAccount, DeleteAccount, WriteAccount,
                      Op, HasTarget, AccountOperations
<1>3. users \in [Users -> {"active", "suspended", "deleted"}]
  BY Facts DEF RowTypes
<1>4. \/ users' = users
      \/ users[t] = "active" /\ users' = [users EXCEPT ![t] = "suspended"]
      \/ users[t] = "suspended" /\ users' = [users EXCEPT ![t] = "active"]
      \/ users[t] = "suspended" /\ users' = [users EXCEPT ![t] = "deleted"]
  BY DEF Account, SuspendAccount, ReactivateAccount, DeleteAccount, WriteAccount,
         ApplyStatus, StatusBefore, StatusAfter
<1>5. QED
  BY <1>1, <1>2, <1>3, <1>4

LEMMA AccountStep ==
  ASSUME AccessInv, NEW p \in Processes, Account(p)
  PROVE  AccessInv'
<1>1. UNCHANGED <<workspaces, members, begun>> /\ Finish(p)
  BY AccountRows
<1>2. RowTypes' /\ HostsStay
  BY <1>1, Facts, AccountRows DEF RowTypes, HostsStay
<1>3. ExactlyOneHost' /\ DeletedWasCreated'
  BY <1>1, Facts DEF ExactlyOneHost, DeletedWasCreated, Created
<1>4. QED
  BY <1>1, <1>2, <1>3, CommitStep DEF RowsInv
----------------------------------------------------------------------------
LEMMA InitGood ==
  ASSUME Init
  PROVE  AccessInv
<1>1. NotCreated \in [host : Users \cup {NoUser}, name : Names, deleted : BOOLEAN]
      /\ NotCreated.host = NoUser /\ ~NotCreated.deleted
  BY DEF NotCreated, Names
<1>2. RowTypes
  BY <1>1 DEF Init, RowTypes
<1>3. \A w \in Workspaces : w \notin Created /\ ~workspaces[w].deleted
  BY <1>1 DEF Init, Created
<1>4. ExactlyOneHost /\ DeletedWasCreated
  BY <1>3 DEF Init, ExactlyOneHost, DeletedWasCreated
<1>5. QED
  BY <1>2, <1>4, IdleKnows DEF Init, AccessInv, RowsInv

LEMMA NextStep ==
  ASSUME AccessInv, [Next]_vars
  PROVE  AccessInv'
<1>1. CASE UNCHANGED vars
  BY <1>1 DEF vars, AccessInv, RowsInv, RowTypes, ExactlyOneHost, DeletedWasCreated, Created
<1>2. ASSUME NEW p \in Processes, Write(p)
      PROVE  AccessInv'
  BY <1>2, CreateStep, WorkspaceStep, MemberStep, AccountStep DEF Write, Account
<1>3. QED
  BY <1>1, <1>2, StartStep, ReadStep DEF Next, Read

LEMMA AlwaysAccessInv == Spec => []AccessInv
<1>1. Init => AccessInv
  BY InitGood
<1>2. AccessInv /\ [Next]_vars => AccessInv'
  BY NextStep
<1>3. QED
  BY <1>1, <1>2, PTL DEF Spec

(***************************************************************************)
(* What is remembered about late writes.                                   *)
(***************************************************************************)

\* Somebody who wrote late is not past the check that would refuse the next one.
BeforeTheCheck(reason) ==
  {"idle", "caller", "workspace"} \cup (IF reason = "host" THEN {"host"} ELSE {})

LateInv ==
  /\ late \subseteq Processes \X Workspaces \X Reasons
  /\ \A p \in Processes, w \in Workspaces, reason \in Reasons : <<p, w, reason>> \in late =>
       /\ Lapsed(w, reason)
       /\ Op(p) # "create" /\ task[p].workspace = w => task[p].step \in BeforeTheCheck(reason)

\* Whoever finishes is idle, and the others keep what they do.
LEMMA Finishing ==
  ASSUME AccessInv, NEW p \in Processes, Write(p)
  PROVE  task'[p].step = "idle" /\ \A q \in Processes \ {p} : task'[q] = task[q]
<1>1. Finish(p)
  BY DEF Write, CreateWorkspace, UpdateWorkspace, DeleteWorkspace, WriteWorkspace, AddMember,
         RemoveMember, SuspendAccount, ReactivateAccount, DeleteAccount, WriteAccount
<1>2. QED
  BY <1>1, Facts DEF Finish, Idle

LEMMA LateWrites ==
  ASSUME AccessInv, LateInv, NEW p \in Processes, Write(p), RememberLate(p)
  PROVE  LateInv'
<1> DEFINE w == task[p].workspace
           new == {<<p, w, reason>> :
                     reason \in {r \in Reasons : Op(p) # "create" /\ Lapsed(w, r)}}
<1>1. late' = {x \in late \cup new : Lapsed(x[2], x[3])'}
  BY DEF RememberLate
<1>2. Op(p) # "create" => w \in Workspaces
  <2>1. At(p, "write")
    BY DEF Write, CreateWorkspace, UpdateWorkspace, DeleteWorkspace, WriteWorkspace, AddMember,
           RemoveMember, SuspendAccount, ReactivateAccount, DeleteAccount, WriteAccount
  <2>2. QED
    BY <2>1, WriterIsHost
<1>3. new \subseteq Processes \X Workspaces \X Reasons
  BY <1>2
<1>4. \A x \in new : x[1] = p
  OBVIOUS
<1> HIDE DEF new
<1>5. late' \subseteq Processes \X Workspaces \X Reasons
  BY <1>1, <1>3 DEF LateInv
<1>6. ASSUME NEW q \in Processes, NEW v \in Workspaces, NEW reason \in Reasons,
             <<q, v, reason>> \in late'
      PROVE  /\ Lapsed(v, reason)'
             /\ (Op(q) # "create" /\ task[q].workspace = v)' => task'[q].step \in BeforeTheCheck(reason)
  <2>1. Lapsed(v, reason)'
    BY <1>1, <1>6
  <2>2. CASE q = p
    BY <2>1, <2>2, Finishing DEF BeforeTheCheck
  <2>3. CASE q # p
    <3>1. <<q, v, reason>> \in late
      BY <1>1, <1>4, <1>6, <2>3
    <3>2. task'[q] = task[q]
      BY <2>3, Finishing
    <3>3. QED
      BY <2>1, <3>1, <3>2 DEF LateInv, Op
  <2>4. QED
    BY <2>2, <2>3
<1>7. QED
  BY <1>5, <1>6 DEF LateInv

\* A read or a new operation lapses nothing, and passes no check that would fail.
LEMMA LateReads ==
  ASSUME AccessInv, LateInv, NEW p \in Processes, Start(p) \/ Read(p), UNCHANGED late
  PROVE  LateInv'
<1>1. UNCHANGED <<users, workspaces>>
  BY DEF Start, Read, BeginCreateWorkspace, BeginOnWorkspace, BeginOnTarget, Begin,
         FindActiveUser, FindWorkspace, CheckWorkspaceHostStatus, FindMember, FindTarget,
         Exists, Decide
<1>2. \A w, reason : Lapsed(w, reason)' <=> Lapsed(w, reason)
  BY <1>1 DEF Lapsed, CanAuthenticate
<1>3. task \in [Processes -> Tasks] /\ task[p] \in Tasks /\ Knows(task[p], workspaces)
  BY Facts
<1>4. ASSUME NEW t \in Tasks, task' = [task EXCEPT ![p] = t],
             \A w \in Workspaces, reason \in Reasons :
               <<p, w, reason>> \in late /\ t.op # "create" /\ t.workspace = w =>
                 t.step \in BeforeTheCheck(reason)
      PROVE  LateInv'
  <2>1. task'[p] = t /\ \A q \in Processes \ {p} : task'[q] = task[q]
    BY <1>3, <1>4
  <2>2. QED
    BY <1>2, <1>4, <2>1 DEF LateInv, Op
<1>5. ASSUME task' = [task EXCEPT ![p] = Idle]
      PROVE  LateInv'
  <2>1. Idle \in Tasks /\ Idle.step = "idle"
    BY IdleKnows DEF Idle
  <2>2. QED
    BY <1>4, <1>5, <2>1 DEF BeforeTheCheck
<1>6. CASE Start(p)
  <2>1. PICK op \in Operations, u \in Users, w \in Workspaces \cup {NoUser}, t \in Users \cup {NoUser} :
          Begin(p, op, u, w, t)
    BY <1>6 DEF Start, BeginCreateWorkspace, BeginOnWorkspace, BeginOnTarget, Operations,
                MemberOperations, AccountOperations, Created
  <2> DEFINE n == [op |-> op, step |-> "caller", caller |-> u, workspace |-> w, target |-> t]
  <2>2. task' = [task EXCEPT ![p] = n] /\ n \in Tasks /\ n.step = "caller"
    BY <2>1 DEF Begin, Tasks, Steps
  <2> HIDE DEF n
  <2>3. QED
    BY <1>4, <2>2 DEF BeforeTheCheck
<1>7. ASSUME NEW step \in Steps, task' = [task EXCEPT ![p].step = step],
             \A w \in Workspaces, reason \in Reasons :
               <<p, w, reason>> \in late /\ task[p].op # "create" /\ task[p].workspace = w =>
                 step \in BeforeTheCheck(reason)
      PROVE  LateInv'
  <2> DEFINE n == [task[p] EXCEPT !.step = step]
  <2>1. /\ task' = [task EXCEPT ![p] = n] /\ n \in Tasks /\ n.step = step
        /\ n.op = task[p].op /\ n.workspace = task[p].workspace
    BY <1>3, <1>7, MovesOn DEF Tasks
  <2> HIDE DEF n
  <2>2. QED
    BY <1>4, <1>7, <2>1
<1>8. ASSUME NEW fine, NEW step \in Steps, Decide(p, fine, step),
             \A w \in Workspaces, reason \in Reasons :
               fine /\ <<p, w, reason>> \in late /\ task[p].op # "create" /\ task[p].workspace = w =>
                 step \in BeforeTheCheck(reason)
      PROVE  LateInv'
  BY <1>5, <1>7, <1>8 DEF Decide, Goto, Finish
<1>9. \A w \in Workspaces, reason \in Reasons :
        <<p, w, reason>> \in late /\ task[p].op # "create" /\ task[p].workspace = w =>
          task[p].step \in BeforeTheCheck(reason) /\ Lapsed(w, reason)
  BY DEF LateInv, Op
<1>10. CASE FindActiveUser(p)
  <2> DEFINE step == IF task[p].op = "create" THEN "write" ELSE "workspace"
  <2>1. step \in Steps /\ Decide(p, CanAuthenticate(task[p].caller), step)
    BY <1>10 DEF FindActiveUser, Steps, Op
  <2>2. task[p].op # "create" => \A reason : step \in BeforeTheCheck(reason)
    BY DEF BeforeTheCheck
  <2> HIDE DEF step
  <2>3. QED
    BY <1>8, <2>1, <2>2
<1>11. CASE FindWorkspace(p)
  <2>1. Decide(p, task[p].workspace \in Live, "host") /\ "host" \in Steps
    BY <1>11 DEF FindWorkspace, Steps
  <2>2. ASSUME task[p].workspace \in Live, NEW w \in Workspaces, NEW reason \in Reasons,
               <<p, w, reason>> \in late, task[p].op # "create", task[p].workspace = w
        PROVE  "host" \in BeforeTheCheck(reason)
    BY <1>9, <2>2 DEF Live, Lapsed, BeforeTheCheck, Reasons
  <2>3. QED
    BY <1>8, <2>1, <2>2
<1>12. CASE CheckWorkspaceHostStatus(p)
  <2>1. /\ Decide(p, CanAuthenticate(workspaces[task[p].workspace].host), "member")
        /\ "member" \in Steps /\ task[p].step = "host"
    BY <1>12 DEF CheckWorkspaceHostStatus, At, Steps
  <2>2. ASSUME CanAuthenticate(workspaces[task[p].workspace].host),
               NEW w \in Workspaces, NEW reason \in Reasons,
               <<p, w, reason>> \in late, task[p].op # "create", task[p].workspace = w
        PROVE  FALSE
    BY <1>9, <2>1, <2>2 DEF Lapsed, BeforeTheCheck, Reasons
  <2>3. QED
    BY <1>8, <2>1, <2>2
<1>13. CASE FindMember(p) \/ FindTarget(p) \/ Exists(p)
  <2>1. task[p].step \in {"member", "target", "exists"}
    BY <1>13 DEF FindMember, FindTarget, Exists, At
  <2>2. \A reason \in Reasons : task[p].step \notin BeforeTheCheck(reason)
    BY <2>1 DEF BeforeTheCheck
  <2>3. ASSUME NEW fine, NEW step \in Steps, Decide(p, fine, step)
        PROVE  LateInv'
    BY <1>8, <1>9, <2>2, <2>3
  <2>4. {"write", "target", "exists"} \subseteq Steps
    BY DEF Steps
  <2>5. CASE FindMember(p)
    <3> DEFINE fine == HasRequiredRole(task[p].workspace, task[p].caller) /\ TargetAllowed(p)
               step == IF Op(p) \in {"rename", "deleteWorkspace"} THEN "write" ELSE "target"
    <3>1. Decide(p, fine, step) /\ step \in Steps
      BY <2>4, <2>5 DEF FindMember
    <3> HIDE DEF fine, step
    <3>2. QED
      BY <2>3, <3>1
  <2>6. CASE FindTarget(p)
    <3> DEFINE step == IF Op(p) = "addMember" THEN "exists" ELSE "write"
    <3>1. Decide(p, TargetFine(p), step) /\ step \in Steps
      BY <2>4, <2>6 DEF FindTarget
    <3> HIDE DEF step
    <3>2. QED
      BY <2>3, <3>1
  <2>7. CASE Exists(p)
    <3>1. Decide(p, members[task[p].workspace][task[p].target] = "none", "write")
      BY <2>7 DEF Exists
    <3>2. QED
      BY <2>3, <2>4, <3>1
  <2>8. QED
    BY <1>13, <2>5, <2>6, <2>7
<1>14. QED
  BY <1>6, <1>10, <1>11, <1>12, <1>13 DEF Read

LEMMA AlwaysLateInv == Spec => []LateInv
<1>1. Init => LateInv
  BY DEF Init, LateInv
<1>2. ASSUME AccessInv, LateInv, [Next]_vars
      PROVE  LateInv'
  <2>1. CASE UNCHANGED vars
    BY <1>2, <2>1 DEF vars, LateInv, Lapsed, CanAuthenticate, Op
  <2>2. CASE Next
    BY <1>2, <2>2, LateReads, LateWrites DEF Next
  <2>3. QED
    BY <1>2, <2>1, <2>2
<1>3. QED
  BY <1>1, <1>2, AlwaysAccessInv, PTL DEF Spec

(***************************************************************************)
(* Every variable keeps its type.                                          *)
(***************************************************************************)
THEOREM TypeCorrectness == Spec => []TypeOK
<1>1. AccessInv /\ LateInv => TypeOK
  BY DEF AccessInv, LateInv, RowsInv, RowTypes, TypeOK, Tasks
<1>2. QED
  BY <1>1, AlwaysAccessInv, AlwaysLateInv, PTL

(***************************************************************************)
(* A workspace has exactly one host, however its members come and go.      *)
(***************************************************************************)
THEOREM OneHost == Spec => []ExactlyOneHost
<1>1. AccessInv => ExactlyOneHost
  BY DEF AccessInv, RowsInv
<1>2. QED
  BY <1>1, AlwaysAccessInv, PTL

(***************************************************************************)
(* Nobody but the host writes, although the role was read long before.     *)
(***************************************************************************)
THEOREM NobodyElseWrites == Spec => OnlyHostWrites
<1>1. ASSUME AccessInv, NEW p \in Processes, Write(p), Op(p) # "create"
      PROVE  workspaces[task[p].workspace].host = task[p].caller
  <2>1. At(p, "write")
    BY <1>1 DEF Write, CreateWorkspace, UpdateWorkspace, DeleteWorkspace, WriteWorkspace,
                AddMember, RemoveMember, SuspendAccount, ReactivateAccount, DeleteAccount,
                WriteAccount
  <2>2. QED
    BY <1>1, <2>1, WriterIsHost
<1>2. AccessInv => \A p \in Processes : Write(p) /\ Op(p) # "create" =>
                     workspaces[task[p].workspace].host = task[p].caller
  BY <1>1
<1>3. QED
  BY <1>2, AlwaysAccessInv, PTL DEF Spec, OnlyHostWrites

(***************************************************************************)
(* The host keeps account and membership in the own workspace.             *)
(***************************************************************************)
THEOREM HostStaysSafe == Spec => HostIsSafeAtHome
<1>1. ASSUME AccessInv, NEW p \in Processes, Write(p), Op(p) # "create"
      PROVE  /\ users'[workspaces[task[p].workspace].host]
                  = users[workspaces[task[p].workspace].host]
             /\ members'[task[p].workspace][workspaces[task[p].workspace].host] = "host"
  <2>1. At(p, "write")
    BY <1>1 DEF Write, CreateWorkspace, UpdateWorkspace, DeleteWorkspace, WriteWorkspace,
                AddMember, RemoveMember, SuspendAccount, ReactivateAccount, DeleteAccount,
                WriteAccount
  <2>2. /\ task[p].workspace \in Workspaces /\ task[p].caller \in Users
        /\ workspaces[task[p].workspace].host = task[p].caller
        /\ members[task[p].workspace][task[p].caller] = "host"
    BY <1>1, <2>1, WriterIsHost
  <2>3. CASE UpdateWorkspace(p) \/ DeleteWorkspace(p)
    BY <1>1, <2>2, <2>3, WorkspaceRows
  <2>4. CASE AddMember(p) \/ RemoveMember(p)
    BY <1>1, <2>2, <2>4, MemberRows
  <2>5. CASE Account(p)
    <3>1. task[p].target # task[p].caller
      BY <1>1, <2>1, <2>5, WriterIsHost
      DEF Account, SuspendAccount, ReactivateAccount, DeleteAccount, WriteAccount, Op,
          HasTarget, AccountOperations
    <3>2. QED
      BY <1>1, <2>2, <2>5, <3>1, AccountRows
  <2>6. QED
    BY <1>1, <2>3, <2>4, <2>5 DEF Write, Account, CreateWorkspace
<1>2. AccessInv => \A p \in Processes : Op(p) # "create" /\ Write(p) =>
                     LET w == task[p].workspace  h == workspaces[w].host IN
                     users'[h] = users[h] /\ members'[w][h] = "host"
  BY <1>1
<1>3. QED
  BY <1>2, AlwaysAccessInv, PTL DEF Spec, HostIsSafeAtHome

(***************************************************************************)
(* After DeleteWorkspace the row of the workspace does not change again.   *)
(***************************************************************************)
THEOREM DeletedStaysFrozen == Spec => DeletedWorkspaceIsFrozen
<1>1. ASSUME AccessInv, [Next]_vars, NEW w \in Workspaces, workspaces[w].deleted
      PROVE  workspaces'[w] = workspaces[w]
  <2>1. ASSUME NEW p \in Processes, CreateWorkspace(p)
        PROVE  workspaces'[w] = workspaces[w]
    <3>1. w \in Created /\ RowTypes
      BY <1>1, <2>1, Facts DEF DeletedWasCreated
    <3>2. PICK v \in Workspaces \ Created :
            workspaces' = [workspaces EXCEPT ![v].host = task[p].caller]
      BY <2>1 DEF CreateWorkspace
    <3>3. QED
      BY <3>1, <3>2 DEF RowTypes
  <2>2. ASSUME NEW p \in Processes, UpdateWorkspace(p) \/ DeleteWorkspace(p)
        PROVE  workspaces'[w] = workspaces[w]
    BY <1>1, <2>2, WorkspaceRows
  <2>3. ASSUME NEW p \in Processes, AddMember(p) \/ RemoveMember(p) \/ Account(p)
        PROVE  workspaces'[w] = workspaces[w]
    BY <1>1, <2>3, MemberRows, AccountRows
  <2>4. ASSUME NEW p \in Processes, Start(p)
        PROVE  workspaces'[w] = workspaces[w]
    BY <2>4 DEF Start, BeginCreateWorkspace, BeginOnWorkspace, BeginOnTarget, Begin
  <2>5. CASE UNCHANGED vars
    BY <2>5 DEF vars
  <2>6. QED
    BY <1>1, <2>1, <2>2, <2>3, <2>4, <2>5
    DEF Next, Read, Write, Account, FindActiveUser, FindWorkspace, CheckWorkspaceHostStatus,
        FindMember, FindTarget, Exists, Decide
<1>2. AccessInv /\ [Next]_vars =>
        \A w \in Workspaces : workspaces[w].deleted => workspaces'[w] = workspaces[w]
  BY <1>1
<1>3. QED
  BY <1>2, AlwaysAccessInv, PTL DEF Spec, DeletedWorkspaceIsFrozen

(***************************************************************************)
(* Deleted accounts stay deleted, and only suspended ones are deleted.     *)
(***************************************************************************)
THEOREM AccountsFollowTheirCycle == Spec => AccountLifeCycle
<1>1. ASSUME AccessInv, [Next]_vars, NEW u \in Users
      PROVE  /\ users[u] = "deleted" => users'[u] = "deleted"
             /\ users'[u] = "deleted" => users[u] # "active"
  <2>1. ASSUME NEW p \in Processes, Account(p)
        PROVE  /\ users[u] = "deleted" => users'[u] = "deleted"
               /\ users'[u] = "deleted" => users[u] # "active"
    BY <1>1, <2>1, AccountRows
  <2>2. ASSUME NEW p \in Processes, Write(p), ~Account(p)
        PROVE  users' = users
    BY <2>2 DEF Write, Account, CreateWorkspace, UpdateWorkspace, DeleteWorkspace,
                WriteWorkspace, AddMember, RemoveMember
  <2>3. ASSUME NEW p \in Processes, Start(p)
        PROVE  users' = users
    BY <2>3 DEF Start, BeginCreateWorkspace, BeginOnWorkspace, BeginOnTarget, Begin
  <2>4. CASE UNCHANGED vars
    BY <2>4 DEF vars
  <2>5. QED
    BY <1>1, <2>1, <2>2, <2>3, <2>4
    DEF Next, Read, FindActiveUser, FindWorkspace, CheckWorkspaceHostStatus,
        FindMember, FindTarget, Exists, Decide
<1>2. AccessInv /\ [Next]_vars =>
        \A u \in Users : /\ users[u] = "deleted" => users'[u] = "deleted"
                         /\ users'[u] = "deleted" => users[u] # "active"
  BY <1>1
<1>3. QED
  BY <1>2, AlwaysAccessInv, PTL DEF Spec, AccountLifeCycle

(***************************************************************************)
(* A deletion or a suspension lets each goroutine finish one write more    *)
(* through the workspace, for any number of workspaces, users, goroutines  *)
(* and operations: the next operation begins before the check that refuses *)
(* it, and nothing of what the last one read is kept.                      *)
(***************************************************************************)
THEOREM LateWritesAreFew == Spec => OneLateWrite
<1>1. ASSUME AccessInv, LateInv, NEW p \in Processes, NEW reason \in Reasons,
             Write(p), Op(p) # "create"
      PROVE  <<p, task[p].workspace, reason>> \notin late
  <2>1. task[p].step = "write"
    BY <1>1 DEF Write, CreateWorkspace, UpdateWorkspace, DeleteWorkspace, WriteWorkspace,
                AddMember, RemoveMember, SuspendAccount, ReactivateAccount, DeleteAccount,
                WriteAccount, At
  <2>2. task[p].workspace \in Workspaces
    BY <1>1, <2>1, WriterIsHost DEF At
  <2>3. QED
    BY <1>1, <2>1, <2>2 DEF LateInv, BeforeTheCheck
<1>2. AccessInv /\ LateInv =>
        \A p \in Processes, reason \in Reasons :
          Write(p) /\ Op(p) # "create" /\ Lapsed(task[p].workspace, reason) =>
            <<p, task[p].workspace, reason>> \notin late
  BY <1>1
<1>3. QED
  BY <1>2, AlwaysAccessInv, AlwaysLateInv, PTL DEF Spec, OneLateWrite
=============================================================================
