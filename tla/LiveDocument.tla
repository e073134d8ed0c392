---------------------------- MODULE LiveDocument ----------------------------
(***************************************************************************)
(* The WebSocket hub of one server: one document of one workspace, the     *)
(* connections that edit it and those that watch the workspace's list, and *)
(* the requests that send to them or shut them out.                        *)
(*                                                                         *)
(* A connection is the goroutine of its handler, later of its ReadPump,    *)
(* and the goroutine of its WritePump.  The hub's lock is held to take a   *)
(* snapshot of the targets, never while sending, so every send is a step.  *)
(* The access check is one step here; WorkspaceAccess has its reads.  What *)
(* SetContent does in Redis is in DocumentPersistence, the presence keys   *)
(* are in EditorPresence; failed commands are there, too.                  *)
(***************************************************************************)
EXTENDS Naturals, Sequences, FiniteSets

CONSTANTS Users, NoUser,
          Note,         \* any message that carries no content
          SendCap,      \* capacity of Client.Send
          MaxBegun,     \* bound: connections accepted
          MaxEdits,     \* bound: edits and restores
          MaxRequests   \* bound: requests that notify; rights come back at most as often

ASSUME UsersAssumption == NoUser \notin Users
ASSUME BoundsAssumption ==
  /\ SendCap \in Nat \ {0} /\ MaxBegun \in Nat
  /\ MaxEdits \in Nat /\ MaxRequests \in Nat
ASSUME NoteAssumption == Note \notin 0..MaxEdits

VARIABLES members,      \* users who may enter the workspace
          wsOpen,       \* the workspace exists and its host is active
          docOpen,      \* the document is not deleted
          content,      \* the cached content, numbered by edit
          documents,    \* Hub.documents
          watchers,     \* Hub.workspaceWatchers
          ready,        \* clients with Ready set
          conn,         \* the state of each connection's goroutine
          socket,       \* "none", "open", "closed"
          queue,        \* Client.Send
          view,         \* the content its browser shows
          job,          \* what each goroutine still has to send
          plan,         \* notifications a request still has to send
          begun, edits, requests,
          raced,        \* history: clients that a disconnect missed on their way in
          mixed,        \* history: an edit met another edit or a join
          late          \* history: edits each client stored without the right to

rights == <<members, wsOpen, docOpen>>
hub == <<documents, watchers>>
wires == <<socket, queue, view>>
counters == <<begun, edits, requests>>
history == <<raced, mixed, late>>
vars == <<rights, content, hub, ready, conn, wires, job, plan, counters, history>>

Connections == 1..MaxBegun
Request == 0                             \* the goroutine of an HTTP request
Contents == 0..MaxEdits
Messages == Contents \cup {Note}

NoJob == [to |-> {}, told |-> {}, msg |-> Note, close |-> FALSE]
Off == [step |-> "off", user |-> NoUser, kind |-> "document", content |-> 0]

At(c, step) == conn[c].step = step
Goto(c, step) == conn' = [conn EXCEPT ![c].step = step]
User(c) == conn[c].user
IsEditor(c) == conn[c].kind = "document"

MayEnter(u) == wsOpen /\ u \in members
MayOpen(u) == docOpen /\ MayEnter(u)
Allowed(c) == IF IsEditor(c) THEN MayOpen(User(c)) ELSE MayEnter(User(c))

\* What a notification is sent to and whether it shuts out: user NoUser is everybody.
Broadcast(audience, msg) ==
  [audience |-> audience, user |-> NoUser, msg |-> msg, close |-> FALSE]
Disconnect(audience, user) ==
  [audience |-> audience, user |-> user, msg |-> Note, close |-> TRUE]

Audience(n) ==
  {c \in Connections :
     /\ n.audience = "all" \/ (n.audience = "documents" /\ IsEditor(c))
                           \/ (n.audience = "watchers" /\ ~IsEditor(c))
     /\ n.user \in {NoUser, User(c)}}

Init ==
  /\ members = Users /\ wsOpen = TRUE /\ docOpen = TRUE
  /\ content = 0
  /\ documents = {} /\ watchers = {} /\ ready = {}
  /\ conn = [c \in Connections |-> Off]
  /\ socket = [c \in Connections |-> "none"]
  /\ queue = [c \in Connections |-> <<>>]
  /\ view = [c \in Connections |-> 0]
  /\ job = [g \in Connections \cup {Request} |-> NoJob]
  /\ plan = <<>>
  /\ begun = 0 /\ edits = 0 /\ requests = 0
  /\ raced = {} /\ mixed = FALSE
  /\ late = [c \in Connections |-> 0]
----------------------------------------------------------------------------
(***************************************************************************)
(* Client.                                                                 *)
(***************************************************************************)
\* Mutant: waits for room in the channel.
TrySendBlocking(c, msg) ==
  /\ Len(queue[c]) < SendCap
  /\ queue' = [queue EXCEPT ![c] = Append(@, msg)]
  /\ UNCHANGED socket

TrySend(c, msg) ==
  \/ /\ Len(queue[c]) < SendCap
     /\ queue' = [queue EXCEPT ![c] = Append(@, msg)]
     /\ UNCHANGED socket
  \/ /\ Len(queue[c]) = SendCap
     /\ socket' = [socket EXCEPT ![c] = "closed"]
     /\ UNCHANGED queue

\* A message is on its way and arrives, or is lost when the socket closes.
WritePump(c) ==
  /\ socket[c] = "open" /\ queue[c] # <<>>
  /\ queue' = [queue EXCEPT ![c] = Tail(@)]
  /\ view' = IF Head(queue[c]) = Note THEN view ELSE [view EXCEPT ![c] = Head(queue[c])]
  /\ UNCHANGED <<rights, content, hub, ready, conn, socket, job, plan, counters, history>>

\* The browser leaves, the network fails, or no pong comes in time.
PeerCloses(c) ==
  /\ socket[c] = "open"
  /\ socket' = [socket EXCEPT ![c] = "closed"]
  /\ UNCHANGED <<rights, content, hub, ready, conn, queue, view, job, plan, counters, history>>

\* The loop over the targets: TrySend, and Close for a disconnect.
Deliver(g) ==
  /\ \E c \in job[g].to \ job[g].told :
       /\ TrySend(c, job[g].msg)
       /\ job' = IF job[g].close THEN [job EXCEPT ![g].told = @ \cup {c}]
                                 ELSE [job EXCEPT ![g].to = @ \ {c}]
  /\ job[g].told = {}
  /\ UNCHANGED <<rights, content, hub, ready, conn, view, plan, counters, history>>

Close(g) ==
  /\ \E c \in job[g].told :
       /\ socket' = [socket EXCEPT ![c] = "closed"]
       /\ job' = [job EXCEPT ![g].to = @ \ {c}, ![g].told = @ \ {c}]
  /\ UNCHANGED <<rights, content, hub, ready, conn, queue, view, plan, counters, history>>
----------------------------------------------------------------------------
(***************************************************************************)
(* What is under way: a change of content from the moment it is accepted   *)
(* until every browser has it, and a join from the moment the content is   *)
(* read until the hub knows the connection.                                *)
(***************************************************************************)
IsContent(msg) == msg # Note

Writing ==
  \/ \E c \in Connections : conn[c].step \in {"checked", "stored"}
  \/ \E i \in DOMAIN plan : IsContent(plan[i].msg)

Sending(g) == job[g].to # {} /\ IsContent(job[g].msg)
Unseen(c) == socket[c] = "open" /\ \E i \in DOMAIN queue[c] : IsContent(queue[c][i])

JoiningSteps == {"prepared", "registered", "greeted", "ready"}
Joining == \E c \in Connections : IsEditor(c) /\ conn[c].step \in JoiningSteps

\* What a change by g must not meet, for all browsers to end up with it.
Clash(g) ==
  \/ Writing \/ Joining
  \/ \E h \in DOMAIN job \ {g} : Sending(h)
  \/ g \in Connections /\ Unseen(g)

\* Past the last access check, not yet in the hub.
OnItsWay(c) == conn[c].step \in JoiningSteps \ {"prepared"}
----------------------------------------------------------------------------
(***************************************************************************)
(* HandleDocument and HandleWorkspace.                                     *)
(***************************************************************************)
\* PrepareConnection: access is checked, the content read.
Prepare(u, kind) ==
  /\ begun < MaxBegun
  /\ begun' = begun + 1
  /\ IF kind = "document" THEN MayOpen(u) ELSE MayEnter(u)
  /\ conn' = [conn EXCEPT ![begun'] =
       [step |-> IF kind = "document" THEN "prepared" ELSE "registered",
        user |-> u, kind |-> kind, content |-> content]]
  /\ mixed' = (mixed \/ (kind = "document" /\ Writing))
  /\ UNCHANGED <<rights, content, hub, ready, wires, job, plan, edits, requests, raced, late>>

\* RegisterConnection checks again; the content stays the one read before.
Register(c) ==
  /\ At(c, "prepared")
  /\ IF Allowed(c) THEN Goto(c, "registered") ELSE conn' = [conn EXCEPT ![c] = Off]
  /\ UNCHANGED <<rights, content, hub, ready, wires, job, plan, counters, history>>

\* Upgrade, the start of WritePump and the initial events; the others hear
\* EDITOR_JOINED if the user was not in the document (EditorPresence).
Greet(c) ==
  /\ At(c, "registered")
  /\ socket' = [socket EXCEPT ![c] = "open"]
  /\ queue' = [queue EXCEPT ![c] = <<IF IsEditor(c) THEN conn[c].content ELSE Note>>]
  /\ \/ UNCHANGED job
     \/ IsEditor(c) /\ job' = [job EXCEPT ![c].to = (documents \cap ready) \ {c}]
  /\ conn' = [conn EXCEPT ![c].step = "greeted", ![c].content = 0]
  /\ UNCHANGED <<rights, content, hub, ready, view, plan, counters, history>>

UpgradeFails(c) ==
  /\ At(c, "registered")
  /\ conn' = [conn EXCEPT ![c] = Off]
  /\ UNCHANGED <<rights, content, hub, ready, wires, job, plan, counters, history>>

\* Mutant: one set for both kinds.
HubRegisterOneSet(c) == documents' = documents \cup {c} /\ UNCHANGED watchers

HubRegister(c) ==
  /\ documents' = IF IsEditor(c) THEN documents \cup {c} ELSE documents
  /\ watchers' = IF IsEditor(c) THEN watchers ELSE watchers \cup {c}

\* First Ready.Store(true), then hub.Register; the mutant has them swapped.
AdmitSwapped(c, step) ==
  \/ step = "greeted" /\ HubRegister(c) /\ UNCHANGED ready
  \/ step = "ready" /\ ready' = ready \cup {c} /\ UNCHANGED hub

Admit(c, step) ==
  \/ step = "greeted" /\ ready' = ready \cup {c} /\ UNCHANGED hub
  \/ step = "ready" /\ HubRegister(c) /\ UNCHANGED ready

Enter(c) ==
  /\ conn[c].step \in {"greeted", "ready"}
  /\ job[c].to = {}
  /\ Admit(c, conn[c].step)
  /\ Goto(c, IF At(c, "greeted") THEN "ready" ELSE "reading")
  /\ UNCHANGED <<rights, content, wires, job, plan, counters, history>>
----------------------------------------------------------------------------
(***************************************************************************)
(* ReadPump: handleClientMessage, and cleanupClient at the end.            *)
(***************************************************************************)
\* Mutant: trusts the check made when the connection was accepted.
EditAllowedOnceOpen(c) == TRUE

EditAllowed(c) == MayOpen(User(c))

\* A DOCUMENT_EDIT is read and ApplyDocumentEdit checks access.
ReadEdit(c) ==
  /\ At(c, "reading") /\ IsEditor(c) /\ job[c].to = {} /\ socket[c] = "open"
  /\ edits < MaxEdits
  /\ edits' = edits + 1
  /\ view' = [view EXCEPT ![c] = edits']
  /\ IF EditAllowed(c)
     THEN /\ conn' = [conn EXCEPT ![c].step = "checked", ![c].content = edits']
          /\ mixed' = (mixed \/ Clash(c))
          /\ UNCHANGED <<socket, queue>>
     ELSE /\ TrySend(c, Note)
          /\ mixed' = TRUE
          /\ UNCHANGED conn
  /\ UNCHANGED <<rights, content, hub, ready, job, plan, begun, requests, raced, late>>

SetContent(c) ==
  /\ At(c, "checked")
  /\ content' = conn[c].content
  /\ late' = IF MayOpen(User(c)) THEN late ELSE [late EXCEPT ![c] = @ + 1]
  /\ Goto(c, "stored")
  /\ UNCHANGED <<rights, hub, ready, wires, job, plan, counters, raced, mixed>>

\* Mutant: leaves out every connection of the sender.
OthersOfOtherUsers(c) == {d \in documents \cap ready : User(d) # User(c)}

Others(c) == (documents \cap ready) \ {c}

BroadcastDocumentExcept(c) ==
  /\ At(c, "stored")
  /\ job' = [job EXCEPT ![c] = [NoJob EXCEPT !.to = Others(c), !.msg = conn[c].content]]
  /\ conn' = [conn EXCEPT ![c].step = "reading", ![c].content = 0]
  /\ UNCHANGED <<rights, content, hub, ready, wires, plan, counters, history>>

\* ReadMessage fails: hub.Unregister, then EDITOR_LEFT for the last connection.
HubUnregister(c) ==
  /\ At(c, "reading") /\ job[c].to = {} /\ socket[c] = "closed"
  /\ documents' = documents \ {c}
  /\ watchers' = watchers \ {c}
  /\ Goto(c, IF IsEditor(c) THEN "cleanup" ELSE "gone")
  /\ UNCHANGED <<rights, content, ready, wires, job, plan, counters, history>>

CleanupClient(c) ==
  /\ At(c, "cleanup")
  /\ \/ UNCHANGED job
     \/ job' = [job EXCEPT ![c] = [NoJob EXCEPT !.to = documents \cap ready]]
  /\ Goto(c, "gone")
  /\ UNCHANGED <<rights, content, hub, ready, wires, plan, counters, history>>
----------------------------------------------------------------------------
(***************************************************************************)
(* Requests: a change is committed, then its notifications go out in order.*)
(***************************************************************************)
Commit(notifications) ==
  /\ plan = <<>> /\ job[Request].to = {}
  /\ requests < MaxRequests
  /\ requests' = requests + 1
  /\ plan' = notifications
  /\ UNCHANGED <<hub, ready, conn, wires, job, begun>>

\* RemoveMember, SuspendAccount, DeleteAccount: DisconnectUser finds documents only.
UserLosesAccess ==
  \E u \in members :
    /\ Commit(<<Disconnect("documents", u)>>)
    /\ members' = members \ {u}
    /\ UNCHANGED <<wsOpen, docOpen, content, edits, history>>

\* AddMember, ReactivateAccount: nobody is told, so that these need no plan.
UserGainsAccess ==
  /\ \E u \in Users \ members :
       /\ members' = members \cup {u}
       /\ late' = [c \in Connections |-> IF User(c) = u THEN 0 ELSE late[c]]
  /\ UNCHANGED <<wsOpen, docOpen, content, hub, ready, conn, wires, job, plan>>
  /\ UNCHANGED <<counters, raced, mixed>>

\* The host's account is suspended or deleted, or DeleteWorkspace.
WorkspaceCloses ==
  /\ wsOpen
  /\ Commit(<<Disconnect("all", NoUser)>>)
  /\ wsOpen' = FALSE
  /\ UNCHANGED <<members, docOpen, content, edits, history>>

\* ReactivateAccount of a suspended host.
WorkspaceReopens ==
  /\ ~wsOpen
  /\ wsOpen' = TRUE
  /\ late' = [c \in Connections |-> 0]
  /\ UNCHANGED <<members, docOpen, content, hub, ready, conn, wires, job, plan>>
  /\ UNCHANGED <<counters, raced, mixed>>

DeleteDocument ==
  /\ docOpen /\ wsOpen
  /\ Commit(<<Broadcast("watchers", Note), Disconnect("documents", NoUser)>>)
  /\ docOpen' = FALSE
  /\ UNCHANGED <<members, wsOpen, content, edits, history>>

\* UpdateDocument; CreateDocument sends the first of the two only.
ChangeTitle ==
  /\ docOpen /\ wsOpen
  /\ Commit(<<Broadcast("watchers", Note), Broadcast("documents", Note)>>)
  /\ UNCHANGED <<rights, content, edits, history>>

\* RestoreVersion writes the cache after its transaction.
RestoreVersion ==
  /\ docOpen /\ wsOpen
  /\ edits < MaxEdits
  /\ edits' = edits + 1
  /\ content' = edits'
  /\ Commit(<<Broadcast("documents", edits')>>)
  /\ mixed' = (mixed \/ Clash(Request))
  /\ UNCHANGED <<rights, raced, late>>

\* Mutant: DisconnectUser and the others look at watchers only.
TargetsWatching(n) == watchers \cap ready \cap Audience(n)

\* Hub.Broadcast... and Hub.Disconnect...: the snapshot, and what leaves the hub.
Targets(n) == (documents \cup watchers) \cap ready \cap Audience(n)

Notify ==
  /\ plan # <<>> /\ job[Request].to = {}
  /\ LET n == Head(plan) IN
       /\ job' = [job EXCEPT ![Request] =
                    [to |-> Targets(n), told |-> {}, msg |-> n.msg, close |-> n.close]]
       /\ IF n.close
          THEN /\ documents' = IF n = Disconnect("documents", NoUser)
                               THEN {} ELSE documents \ Targets(n)
               /\ watchers' = watchers \ Audience(n)
               /\ raced' = raced \cup {c \in Audience(n) : OnItsWay(c)}
          ELSE UNCHANGED <<hub, raced>>
  /\ plan' = Tail(plan)
  /\ UNCHANGED <<rights, content, ready, conn, wires, counters, mixed, late>>
----------------------------------------------------------------------------
Work(c) ==
  \/ Register(c) \/ Greet(c) \/ Enter(c)
  \/ SetContent(c) \/ BroadcastDocumentExcept(c)
  \/ HubUnregister(c) \/ CleanupClient(c)
  \/ Deliver(c)

Serve == Notify \/ Deliver(Request) \/ Close(Request)

Ask ==
  \/ UserLosesAccess \/ UserGainsAccess \/ WorkspaceCloses \/ WorkspaceReopens
  \/ DeleteDocument \/ ChangeTitle \/ RestoreVersion

Next ==
  \/ \E u \in Users, kind \in {"document", "workspace"} : Prepare(u, kind)
  \/ \E c \in Connections : \/ Work(c) \/ UpgradeFails(c) \/ ReadEdit(c)
                            \/ WritePump(c) \/ PeerCloses(c)
  \/ Ask
  \/ Serve

Spec == Init /\ [][Next]_vars
----------------------------------------------------------------------------
(***************************************************************************)
(* The types; the two sets of the hub hold the connections of their kind,  *)
(* and no channel holds more than its capacity.                            *)
(***************************************************************************)
TypeOK ==
  /\ members \subseteq Users /\ wsOpen \in BOOLEAN /\ docOpen \in BOOLEAN
  /\ content \in Contents
  /\ documents \subseteq {c \in Connections : IsEditor(c)}
  /\ watchers \subseteq {c \in Connections : ~IsEditor(c)}
  /\ ready \subseteq Connections
  /\ conn \in [Connections -> [step : JoiningSteps \cup {"off", "reading", "checked",
                                          "stored", "cleanup", "gone"},
                               user : Users \cup {NoUser},
                               kind : {"document", "workspace"}, content : Contents]]
  /\ socket \in [Connections -> {"none", "open", "closed"}]
  /\ \A c \in Connections : queue[c] \in Seq(Messages) /\ Len(queue[c]) <= SendCap
  /\ view \in [Connections -> Contents]
  /\ job \in [Connections \cup {Request} ->
               [to : SUBSET Connections, told : SUBSET Connections,
                msg : Messages, close : BOOLEAN]]
  /\ begun \in 0..MaxBegun /\ edits \in 0..MaxEdits /\ requests \in 0..MaxRequests
  /\ raced \subseteq Connections /\ mixed \in BOOLEAN
  /\ late \in [Connections -> 0..MaxEdits]

(***************************************************************************)
(* No disconnect forgets a connection: one that reads from an open socket  *)
(* is in the hub, or among the targets about to be closed.  This rests on  *)
(* the order of Ready and Register, because DisconnectDocument drops the   *)
(* whole entry of the document but closes the ready clients only.          *)
(***************************************************************************)
NoOrphans ==
  \A c \in Connections : At(c, "reading") /\ socket[c] = "open" =>
    c \in documents \cup watchers \/ (job[Request].close /\ c \in job[Request].to)

(***************************************************************************)
(* Who lost the right to the document does not stay among its connections: *)
(* a disconnect that covers them is still to come, unless it passed while  *)
(* they were on their way in.  Watchers of the list are only sought when   *)
(* the whole workspace closes.                                             *)
(***************************************************************************)
ShutOut(c) == IF IsEditor(c) THEN ~MayOpen(User(c)) ELSE ~wsOpen

NoOutsiderListens ==
  \A c \in documents \cup watchers : ShutOut(c) /\ c \notin raced =>
    \E i \in DOMAIN plan : plan[i].close /\ c \in Audience(plan[i])

(***************************************************************************)
(* After the right to edit is lost, a connection gets at most one more     *)
(* edit stored: the one that was checked before.                           *)
(***************************************************************************)
OneLateEdit == \A c \in Connections : late[c] <= 1

(***************************************************************************)
(* Once everything sent has arrived, every browser in the document shows   *)
(* the stored content, if no edit met another edit, a restore or a join on *)
(* its way (they are stored and sent without a common lock, and the first  *)
(* content is read long before the hub knows the connection).              *)
(***************************************************************************)
Quiet ==
  /\ ~Writing
  /\ \A g \in DOMAIN job : ~Sending(g)
  /\ \A c \in Connections : ~Unseen(c)

ViewsConverge ==
  Quiet /\ ~mixed => \A c \in documents :
    At(c, "reading") /\ socket[c] = "open" => view[c] = content

(***************************************************************************)
(* A client that connects is given the latest content: with a single edit, *)
(* which no other can overtake, every browser in the document ends up with *)
(* it.  Refuted: the content is read before the hub knows the connection.  *)
(***************************************************************************)
SyncIsLatest ==
  Quiet /\ edits <= 1 => \A c \in documents :
    At(c, "reading") /\ socket[c] = "open" => view[c] = content

(***************************************************************************)
(* Nobody waits for anybody: whoever has something to send, or a connection*)
(* whose socket is closed, can take its next step at once, so that no slow *)
(* or dead client holds up another client or a request.                    *)
(***************************************************************************)
NobodyWaits ==
  /\ \A g \in DOMAIN job : job[g].to # {} => ENABLED (Deliver(g) \/ Close(g))
  /\ \A c \in Connections :
       socket[c] = "closed" => At(c, "gone") \/ ENABLED Work(c)
=============================================================================
