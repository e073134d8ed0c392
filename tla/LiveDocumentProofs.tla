------------------------- MODULE LiveDocumentProofs -------------------------
(***************************************************************************)
(* What holds of LiveDocument for any number of users, connections, edits, *)
(* requests and any capacity of the channels.                              *)
(***************************************************************************)
EXTENDS LiveDocument, SequenceTheorems, FiniteSetTheorems, TLAPS

AllSteps == JoiningSteps \cup {"off", "reading", "checked", "stored", "cleanup", "gone"}

\* The steps between hub.Register and hub.Unregister.
Active == {"reading", "checked", "stored"}

ConnTypes ==
  /\ conn \in [Connections -> [step : AllSteps, user : Users \cup {NoUser},
                               kind : {"document", "workspace"}, content : Contents]]
  /\ documents \subseteq {c \in Connections : IsEditor(c)}
  /\ watchers \subseteq {c \in Connections : ~IsEditor(c)}
  /\ ready \subseteq Connections /\ raced \subseteq Connections

WireTypes ==
  /\ content \in Contents
  /\ socket \in [Connections -> {"none", "open", "closed"}]
  /\ queue \in [Connections -> Seq(Messages)]
  /\ \A c \in Connections : Len(queue[c]) <= SendCap
  /\ view \in [Connections -> Contents]

Notifications == [audience : {"all", "documents", "watchers"}, user : Users \cup {NoUser},
                  msg : Messages, close : BOOLEAN]

JobTypes ==
  /\ job \in [Connections \cup {Request} ->
               [to : SUBSET Connections, told : SUBSET Connections,
                msg : Messages, close : BOOLEAN]]
  /\ plan \in Seq(Notifications)

CountTypes ==
  /\ members \subseteq Users
  /\ begun \in 0..MaxBegun /\ edits \in 0..MaxEdits /\ requests \in 0..MaxRequests

\* A connection is born once.
Unborn == \A c \in Connections : c > begun => conn[c] = Off

\* Who is in the hub reads, and a client is ready before it is registered.
HubSteps ==
  /\ \A c \in documents \cup watchers : conn[c].step \in Active
  /\ \A c \in Connections : conn[c].step \in {"ready"} \cup Active => c \in ready

Base == ConnTypes /\ WireTypes /\ JobTypes /\ CountTypes /\ Unborn /\ HubSteps
----------------------------------------------------------------------------
\* The steps that leave the connections and the hub alone.
Elsewhere ==
  \/ \E c \in Connections : WritePump(c) \/ PeerCloses(c)
  \/ \E g \in Connections \cup {Request} : Deliver(g) \/ Close(g)
  \/ Ask

LEMMA Cases ==
  ASSUME [Next]_vars
  PROVE  \/ \E u \in Users, kind \in {"document", "workspace"} : Prepare(u, kind)
         \/ \E c \in Connections :
              \/ Register(c) \/ Greet(c) \/ UpgradeFails(c) \/ Enter(c)
              \/ ReadEdit(c) \/ SetContent(c) \/ BroadcastDocumentExcept(c)
              \/ HubUnregister(c) \/ CleanupClient(c)
         \/ Notify
         \/ Elsewhere
         \/ UNCHANGED vars
BY DEF Next, Work, Serve, Elsewhere

LEMMA ElsewhereLeaves ==
  ASSUME Elsewhere
  PROVE  /\ UNCHANGED <<conn, documents, watchers, ready, raced>>
         /\ UNCHANGED begun
<1>1. ASSUME NEW c \in Connections, WritePump(c) \/ PeerCloses(c)
      PROVE  UNCHANGED <<conn, documents, watchers, ready, raced, begun>>
  BY <1>1 DEF WritePump, PeerCloses, hub, history, counters
<1>2. ASSUME NEW g \in Connections \cup {Request}, Deliver(g) \/ Close(g)
      PROVE  UNCHANGED <<conn, documents, watchers, ready, raced, begun>>
  BY <1>2 DEF Deliver, Close, hub, history, counters
<1>3. CASE Ask
  BY <1>3 DEF Ask, UserLosesAccess, UserGainsAccess, WorkspaceCloses, WorkspaceReopens,
              DeleteDocument, ChangeTitle, RestoreVersion, Commit, hub, history, counters
<1>4. QED
  BY <1>1, <1>2, <1>3 DEF Elsewhere
----------------------------------------------------------------------------
\* Types of the constants.
LEMMA Sorts ==
  /\ Connections \subseteq Nat \ {0} /\ Request \notin Connections
  /\ 0 \in Contents /\ Contents \subseteq Messages /\ Note \in Messages
  /\ NoJob \in [to : SUBSET Connections, told : SUBSET Connections,
                msg : Messages, close : BOOLEAN]
  /\ Off \in [step : AllSteps, user : Users \cup {NoUser},
              kind : {"document", "workspace"}, content : Contents]
BY BoundsAssumption DEF Connections, Request, Contents, Messages, NoJob, Off, AllSteps

\* A connection moves on: its user and kind stay.
LEMMA Moved ==
  ASSUME ConnTypes, NEW c \in Connections, NEW step \in AllSteps, NEW k \in Contents,
         conn' = [conn EXCEPT ![c].step = step, ![c].content = k]
         \/ conn' = [conn EXCEPT ![c].step = step]
  PROVE  /\ conn' \in [Connections -> [step : AllSteps, user : Users \cup {NoUser},
                                       kind : {"document", "workspace"}, content : Contents]]
         /\ conn'[c].step = step /\ conn'[c].user = conn[c].user
         /\ conn'[c].kind = conn[c].kind
         /\ \A d \in Connections \ {c} : conn'[d] = conn[d]
BY DEF ConnTypes

\* Nothing is known of a connection that has ended before it was in the hub.
Ended(c) == conn' = [conn EXCEPT ![c] = Off]

\* What one connection does to its own entry, seen by all the invariants.
MovesTo(c, step) ==
  /\ conn' \in [Connections -> [step : AllSteps, user : Users \cup {NoUser},
                                kind : {"document", "workspace"}, content : Contents]]
  /\ conn'[c].step = step /\ conn'[c].user = conn[c].user
  /\ conn'[c].kind = conn[c].kind
  /\ \A d \in Connections \ {c} : conn'[d] = conn[d]

\* How the entries of the connections and the hub change together.
Born(u, kind) ==
  /\ begun < MaxBegun /\ begun' = begun + 1
  /\ conn' = [conn EXCEPT ![begun + 1] =
       [step |-> IF kind = "document" THEN "prepared" ELSE "registered",
        user |-> u, kind |-> kind, content |-> content]]
  /\ UNCHANGED <<documents, watchers, ready, raced>>

Walks(c, from, to) == conn[c].step = from /\ MovesTo(c, to) /\ begun' = begun

ConnMoves ==
  \/ \E u \in Users, kind \in {"document", "workspace"} :
       Born(u, kind) /\ IF kind = "document" THEN MayOpen(u) ELSE MayEnter(u)
  \/ \E c \in Connections :
       \/ /\ conn[c].step \in {"prepared", "registered"} /\ Ended(c)
          /\ UNCHANGED <<documents, watchers, ready, raced, begun>>
       \/ /\ \/ Walks(c, "prepared", "registered") /\ Allowed(c)
             \/ Walks(c, "registered", "greeted")
             \/ Walks(c, "reading", "checked") /\ MayOpen(User(c)) /\ MaxEdits > 0
             \/ Walks(c, "reading", "reading")
             \/ Walks(c, "checked", "stored")
             \/ Walks(c, "stored", "reading")
             \/ Walks(c, "cleanup", "gone")
          /\ UNCHANGED <<documents, watchers, ready, raced>>
       \/ /\ Walks(c, "greeted", "ready")
          /\ ready' = ready \cup {c} /\ UNCHANGED <<documents, watchers, raced>>
       \/ /\ Walks(c, "ready", "reading")
          /\ IF IsEditor(c) THEN documents' = documents \cup {c} /\ watchers' = watchers
                            ELSE documents' = documents /\ watchers' = watchers \cup {c}
          /\ UNCHANGED <<ready, raced>>
       \/ /\ Walks(c, "reading", IF IsEditor(c) THEN "cleanup" ELSE "gone")
          /\ documents' = documents \ {c} /\ watchers' = watchers \ {c}
          /\ socket[c] = "closed" /\ UNCHANGED <<ready, raced>>
  \/ UNCHANGED <<conn, documents, watchers, ready, raced, begun>>

LEMMA Moves ==
  ASSUME Base, [Next]_vars
  PROVE  ConnMoves \/ Notify
<1>1. ConnTypes /\ content \in Contents /\ edits \in Nat /\ MaxEdits \in Nat
  BY BoundsAssumption DEF Base, WireTypes, CountTypes
<1>2. ASSUME NEW u \in Users, NEW kind \in {"document", "workspace"}, Prepare(u, kind)
      PROVE  ConnMoves
  BY <1>2 DEF Prepare, ConnMoves, Born, hub
<1>3. ASSUME NEW c \in Connections, Register(c)
      PROVE  ConnMoves
  <2>1. CASE Allowed(c)
    <3>1. conn[c].step = "prepared" /\ conn' = [conn EXCEPT ![c].step = "registered"]
          /\ UNCHANGED <<documents, watchers, ready, raced, begun>>
      BY <1>3, <2>1 DEF Register, At, Goto, hub, history, counters
    <3>2. MovesTo(c, "registered")
      BY <1>1, <3>1, Moved, Sorts DEF MovesTo, AllSteps, JoiningSteps
    <3>3. QED
      BY <2>1, <3>1, <3>2 DEF ConnMoves, Walks
  <2>2. CASE ~Allowed(c)
    BY <1>3, <2>2 DEF Register, At, ConnMoves, Ended, hub, history, counters
  <2>3. QED
    BY <2>1, <2>2
<1>4. ASSUME NEW c \in Connections, Greet(c)
      PROVE  ConnMoves
  <2>1. conn[c].step = "registered" /\ conn' = [conn EXCEPT ![c].step = "greeted", ![c].content = 0]
        /\ UNCHANGED <<documents, watchers, ready, raced, begun>>
    BY <1>4 DEF Greet, At, hub, history, counters
  <2>2. MovesTo(c, "greeted")
    BY <1>1, <2>1, Moved, Sorts DEF MovesTo, AllSteps, JoiningSteps
  <2>3. QED
    BY <2>1, <2>2 DEF ConnMoves, Walks
<1>5. ASSUME NEW c \in Connections, UpgradeFails(c)
      PROVE  ConnMoves
  BY <1>5 DEF UpgradeFails, At, ConnMoves, Ended, hub, history, counters
<1>6. ASSUME NEW c \in Connections, Enter(c)
      PROVE  ConnMoves
  <2>1. CASE conn[c].step = "greeted"
    <3>1. conn' = [conn EXCEPT ![c].step = "ready"] /\ ready' = ready \cup {c}
          /\ UNCHANGED <<documents, watchers, raced, begun>>
      BY <1>6, <2>1 DEF Enter, Admit, Goto, At, hub, history, counters
    <3>2. MovesTo(c, "ready")
      BY <1>1, <3>1, Moved DEF MovesTo, AllSteps, JoiningSteps
    <3>3. QED
      BY <2>1, <3>1, <3>2 DEF ConnMoves, Walks
  <2>2. CASE conn[c].step = "ready"
    <3>1. conn' = [conn EXCEPT ![c].step = "reading"] /\ HubRegister(c)
          /\ UNCHANGED <<ready, raced, begun>>
      BY <1>6, <2>2 DEF Enter, Admit, Goto, At, history, counters
    <3>2. MovesTo(c, "reading")
      BY <1>1, <3>1, Moved DEF MovesTo, AllSteps
    <3>3. QED
      BY <2>2, <3>1, <3>2 DEF ConnMoves, Walks, HubRegister
  <2>3. QED
    BY <1>6, <2>1, <2>2 DEF Enter
<1>7. ASSUME NEW c \in Connections, ReadEdit(c)
      PROVE  ConnMoves
  <2>1. conn[c].step = "reading" /\ edits' = edits + 1 /\ edits < MaxEdits
        /\ UNCHANGED <<documents, watchers, ready, raced, begun>>
    BY <1>7 DEF ReadEdit, At, hub
  <2>2. CASE MayOpen(User(c))
    <3>1. conn' = [conn EXCEPT ![c].step = "checked", ![c].content = edits']
      BY <1>7, <2>2 DEF ReadEdit, EditAllowed
    <3>2. edits + 1 \in Contents
      BY <1>1, <2>1 DEF Contents
    <3>3. MovesTo(c, "checked")
      BY <1>1, <2>1, <3>1, <3>2, Moved DEF MovesTo, AllSteps
    <3>4. MaxEdits > 0
      BY <1>1, <2>1
    <3>5. QED
      BY <2>1, <2>2, <3>3, <3>4 DEF ConnMoves, Walks
  <2>3. CASE ~MayOpen(User(c))
    BY <1>7, <2>1, <2>3 DEF ReadEdit, EditAllowed, ConnMoves
  <2>4. QED
    BY <2>2, <2>3
<1>8. ASSUME NEW c \in Connections, SetContent(c)
      PROVE  ConnMoves
  <2>1. conn[c].step = "checked" /\ conn' = [conn EXCEPT ![c].step = "stored"]
        /\ UNCHANGED <<documents, watchers, ready, raced, begun>>
    BY <1>8 DEF SetContent, At, Goto, hub, counters
  <2>2. MovesTo(c, "stored")
    BY <1>1, <2>1, Moved DEF MovesTo, AllSteps
  <2>3. QED
    BY <2>1, <2>2 DEF ConnMoves, Walks
<1>9. ASSUME NEW c \in Connections, BroadcastDocumentExcept(c)
      PROVE  ConnMoves
  <2>1. conn[c].step = "stored" /\ conn' = [conn EXCEPT ![c].step = "reading", ![c].content = 0]
        /\ UNCHANGED <<documents, watchers, ready, raced, begun>>
    BY <1>9 DEF BroadcastDocumentExcept, At, hub, history, counters
  <2>2. MovesTo(c, "reading")
    BY <1>1, <2>1, Moved, Sorts DEF MovesTo, AllSteps
  <2>3. QED
    BY <2>1, <2>2 DEF ConnMoves, Walks
<1>10. ASSUME NEW c \in Connections, HubUnregister(c)
       PROVE  ConnMoves
  <2> DEFINE next == IF IsEditor(c) THEN "cleanup" ELSE "gone"
  <2>1. conn[c].step = "reading" /\ conn' = [conn EXCEPT ![c].step = next]
        /\ documents' = documents \ {c} /\ watchers' = watchers \ {c} /\ socket[c] = "closed"
        /\ UNCHANGED <<ready, raced, begun>>
    BY <1>10 DEF HubUnregister, At, Goto, history, counters
  <2>2. next \in AllSteps
    BY DEF AllSteps
  <2> HIDE DEF next
  <2>3. MovesTo(c, next)
    BY <1>1, <2>1, <2>2, Moved DEF MovesTo
  <2>4. QED
    BY <2>1, <2>3 DEF ConnMoves, Walks, next
<1>11. ASSUME NEW c \in Connections, CleanupClient(c)
       PROVE  ConnMoves
  <2>1. conn[c].step = "cleanup" /\ conn' = [conn EXCEPT ![c].step = "gone"]
        /\ UNCHANGED <<documents, watchers, ready, raced, begun>>
    BY <1>11 DEF CleanupClient, At, Goto, hub, history, counters
  <2>2. MovesTo(c, "gone")
    BY <1>1, <2>1, Moved DEF MovesTo, AllSteps
  <2>3. QED
    BY <2>1, <2>2 DEF ConnMoves, Walks
<1>12. CASE Elsewhere
  BY <1>12, ElsewhereLeaves DEF ConnMoves
<1>13. CASE UNCHANGED vars
  BY <1>13 DEF vars, hub, history, counters, ConnMoves
<1>14. QED
  BY <1>2, <1>3, <1>4, <1>5, <1>6, <1>7, <1>8, <1>9, <1>10, <1>11, <1>12, <1>13, Cases
----------------------------------------------------------------------------
(***************************************************************************)
(* Types.                                                                  *)
(***************************************************************************)
LEMMA NotifyKeepsConns ==
  ASSUME Base, Notify
  PROVE  /\ UNCHANGED <<conn, ready, begun>>
         /\ documents' \subseteq documents /\ watchers' \subseteq watchers
         /\ raced \subseteq raced' /\ raced' \subseteq Connections
BY DEF Notify, Base, ConnTypes, Targets, Audience, hub, counters

LEMMA BornMoves ==
  ASSUME Base, NEW u \in Users, NEW kind \in {"document", "workspace"}, Born(u, kind)
  PROVE  /\ begun + 1 \in Connections /\ begun \in Nat /\ conn[begun + 1] = Off
         /\ conn' \in [Connections -> [step : AllSteps, user : Users \cup {NoUser},
                                       kind : {"document", "workspace"}, content : Contents]]
         /\ conn'[begun + 1].step = IF kind = "document" THEN "prepared" ELSE "registered"
         /\ conn'[begun + 1].user = u /\ conn'[begun + 1].kind = kind
         /\ \A d \in Connections \ {begun + 1} : conn'[d] = conn[d]
<1>1. begun + 1 \in Connections /\ begun \in Nat
  BY BoundsAssumption DEF Base, CountTypes, Born, Connections
<1>2. conn[begun + 1] = Off
  BY <1>1 DEF Base, Unborn
<1> DEFINE r == [step |-> IF kind = "document" THEN "prepared" ELSE "registered",
                 user |-> u, kind |-> kind, content |-> content]
<1>3. r \in [step : AllSteps, user : Users \cup {NoUser},
             kind : {"document", "workspace"}, content : Contents]
  BY DEF AllSteps, JoiningSteps, Base, WireTypes
<1>4. r.step = IF kind = "document" THEN "prepared" ELSE "registered"
  OBVIOUS
<1>5. r.user = u /\ r.kind = kind
  OBVIOUS
<1>6. conn' = [conn EXCEPT ![begun + 1] = r]
  BY DEF Born
<1> HIDE DEF r
<1>7. QED
  BY <1>1, <1>2, <1>3, <1>4, <1>5, <1>6 DEF Base, ConnTypes

LEMMA ConnTypesStep ==
  ASSUME Base, ConnMoves \/ Notify
  PROVE  ConnTypes' /\ Unborn' /\ HubSteps'
<1>1. ConnTypes /\ Unborn /\ HubSteps /\ begun \in Nat
  BY DEF Base, CountTypes
<1>2. CASE Notify
  BY <1>1, <1>2, NotifyKeepsConns DEF ConnTypes, Unborn, HubSteps, IsEditor
<1>3. ASSUME NEW u \in Users, NEW kind \in {"document", "workspace"}, Born(u, kind)
      PROVE  ConnTypes' /\ Unborn' /\ HubSteps'
  <2>1. /\ begun + 1 \in Connections
        /\ conn[begun + 1].step = "off" /\ conn'[begun + 1].step \in {"prepared", "registered"}
        /\ \A d \in Connections \ {begun + 1} : conn'[d] = conn[d]
    BY <1>3, BornMoves DEF Off
  <2>2. begun + 1 \notin documents \cup watchers
    BY <1>1, <2>1 DEF HubSteps, Active
  <2>3. UNCHANGED <<documents, watchers, ready, raced>> /\ begun' = begun + 1
    BY <1>3 DEF Born
  <2>4. ConnTypes'
    BY <1>1, <1>3, <2>1, <2>2, <2>3, BornMoves DEF ConnTypes, IsEditor
  <2>5. Unborn'
    <3> SUFFICES ASSUME NEW d \in Connections, d > begun + 1
                 PROVE  conn'[d] = Off
      BY <2>3 DEF Unborn
    <3>1. d \in Nat /\ d > begun /\ d # begun + 1
      BY <1>1, Sorts
    <3>2. QED
      BY <1>1, <2>1, <3>1 DEF Unborn
  <2>6. HubSteps'
    BY <1>1, <2>1, <2>2, <2>3 DEF HubSteps, Active, ConnTypes
  <2>7. QED
    BY <2>4, <2>5, <2>6
<1>4. ASSUME NEW c \in Connections, conn[c].step \in {"prepared", "registered"}, Ended(c),
             UNCHANGED <<documents, watchers, ready, raced, begun>>
      PROVE  ConnTypes' /\ Unborn' /\ HubSteps'
  <2>1. c \notin documents \cup watchers
    BY <1>1, <1>4 DEF HubSteps, Active
  <2>2. conn'[c] = Off /\ \A d \in Connections \ {c} : conn'[d] = conn[d]
    BY <1>1, <1>4 DEF Ended, ConnTypes
  <2>3. ConnTypes'
    BY <1>1, <1>4, <2>1, <2>2, Sorts DEF ConnTypes, IsEditor, Ended
  <2>4. Unborn' /\ HubSteps'
    BY <1>1, <1>4, <2>1, <2>2 DEF Unborn, HubSteps, Active, Off, ConnTypes
  <2>5. QED
    BY <2>3, <2>4
<1>5. ASSUME NEW c \in Connections, NEW from \in AllSteps \ {"off"}, NEW to \in AllSteps,
             Walks(c, from, to),
             ready \subseteq ready', ready' \subseteq Connections, raced' = raced,
             to \in {"ready"} \cup Active => c \in ready',
             documents' \subseteq {d \in documents \cup {c} : conn'[d].kind = "document"},
             watchers' \subseteq {d \in watchers \cup {c} : conn'[d].kind # "document"},
             c \in documents' \cup watchers' => to \in Active
      PROVE  ConnTypes' /\ Unborn' /\ HubSteps'
  <2>1. MovesTo(c, to) /\ begun' = begun /\ conn[c].step = from
    BY <1>5 DEF Walks
  <2>2. ConnTypes'
    BY <1>1, <1>5, <2>1 DEF ConnTypes, IsEditor, MovesTo
  <2>3. c <= begun
    BY <1>1, <1>5, <2>1, Sorts DEF Unborn, Off
  <2>4. Unborn'
    <3> SUFFICES ASSUME NEW d \in Connections, d > begun
                 PROVE  conn'[d] = Off
      BY <2>1 DEF Unborn
    <3>1. d # c
      BY <1>1, <2>3, Sorts
    <3>2. QED
      BY <1>1, <2>1, <3>1 DEF Unborn, MovesTo
  <2>5. HubSteps'
    BY <1>1, <1>5, <2>1 DEF HubSteps, MovesTo, ConnTypes
  <2>6. QED
    BY <2>2, <2>4, <2>5
<1>6. ASSUME NEW c \in Connections, NEW from \in AllSteps \ {"off"}, NEW to \in AllSteps,
             Walks(c, from, to), UNCHANGED <<documents, watchers, ready, raced>>,
             from \in {"reading", "checked", "stored"} => to \in Active,
             to \in {"ready"} \cup Active => from \in Active
      PROVE  ConnTypes' /\ Unborn' /\ HubSteps'
  <2>1. MovesTo(c, to) /\ conn[c].step = from
    BY <1>6 DEF Walks
  <2>2. /\ \A d \in documents : conn'[d].kind = "document"
        /\ \A d \in watchers : conn'[d].kind # "document"
    BY <1>1, <2>1 DEF ConnTypes, IsEditor, MovesTo
  <2>3. c \in documents \cup watchers => from \in Active
    BY <1>1, <2>1 DEF HubSteps
  <2>4. to \in {"ready"} \cup Active => c \in ready
    BY <1>1, <1>6, <2>1 DEF HubSteps
  <2>5. QED
    BY <1>1, <1>5, <1>6, <2>2, <2>3, <2>4 DEF Active, ConnTypes
<1>7. ASSUME NEW c \in Connections, Walks(c, "greeted", "ready"),
             ready' = ready \cup {c}, UNCHANGED <<documents, watchers, raced>>
      PROVE  ConnTypes' /\ Unborn' /\ HubSteps'
  <2>1. MovesTo(c, "ready") /\ conn[c].step = "greeted"
    BY <1>7 DEF Walks
  <2>2. c \notin documents \cup watchers
    BY <1>1, <2>1 DEF HubSteps, Active
  <2>3. /\ \A d \in documents : conn'[d].kind = "document"
        /\ \A d \in watchers : conn'[d].kind # "document"
    BY <1>1, <2>1 DEF ConnTypes, IsEditor, MovesTo
  <2>4. ready' \subseteq Connections
    BY <1>1, <1>7 DEF ConnTypes
  <2>5. QED
    BY <1>5, <1>7, <2>2, <2>3, <2>4 DEF AllSteps, JoiningSteps
<1>8. ASSUME NEW c \in Connections, Walks(c, "ready", "reading"),
             IF IsEditor(c) THEN documents' = documents \cup {c} /\ watchers' = watchers
                            ELSE documents' = documents /\ watchers' = watchers \cup {c},
             UNCHANGED <<ready, raced>>
      PROVE  ConnTypes' /\ Unborn' /\ HubSteps'
  <2>1. MovesTo(c, "reading") /\ conn[c].step = "ready"
    BY <1>8 DEF Walks
  <2>2. c \in ready
    BY <1>1, <2>1 DEF HubSteps
  <2>3. /\ \A d \in documents' : d \in documents \cup {c} /\ conn'[d].kind = "document"
        /\ \A d \in watchers' : d \in watchers \cup {c} /\ conn'[d].kind # "document"
    BY <1>1, <1>8, <2>1 DEF ConnTypes, IsEditor, MovesTo
  <2>4. QED
    BY <1>1, <1>5, <1>8, <2>2, <2>3 DEF AllSteps, JoiningSteps, Active, ConnTypes
<1>9. ASSUME NEW c \in Connections, NEW to \in AllSteps, Walks(c, "reading", to),
             documents' = documents \ {c}, watchers' = watchers \ {c},
             to \in {"cleanup", "gone"}, UNCHANGED <<ready, raced>>
      PROVE  ConnTypes' /\ Unborn' /\ HubSteps'
  <2>1. MovesTo(c, to)
    BY <1>9 DEF Walks
  <2>2. /\ \A d \in documents' : conn'[d].kind = "document"
        /\ \A d \in watchers' : conn'[d].kind # "document"
    BY <1>1, <1>9, <2>1 DEF ConnTypes, IsEditor, MovesTo
  <2>3. QED
    BY <1>1, <1>5, <1>9, <2>2 DEF AllSteps, Active, ConnTypes
<1>10. CASE UNCHANGED <<conn, documents, watchers, ready, raced, begun>>
  BY <1>1, <1>10 DEF ConnTypes, Unborn, HubSteps, IsEditor
<1>11. QED
  BY <1>2, <1>3, <1>4, <1>6, <1>7, <1>8, <1>9, <1>10
  DEF ConnMoves, AllSteps, JoiningSteps, Active

LEMMA TrySendTypes ==
  ASSUME WireTypes, NEW c \in Connections, NEW msg \in Messages, TrySend(c, msg)
  PROVE  /\ socket' \in [Connections -> {"none", "open", "closed"}]
         /\ queue' \in [Connections -> Seq(Messages)]
         /\ \A d \in Connections : Len(queue'[d]) <= SendCap
<1>1. SendCap \in Nat /\ queue[c] \in Seq(Messages)
  BY BoundsAssumption DEF WireTypes
<1>2. CASE Len(queue[c]) < SendCap /\ queue' = [queue EXCEPT ![c] = Append(@, msg)]
           /\ UNCHANGED socket
  <2>1. Append(queue[c], msg) \in Seq(Messages) /\ Len(Append(queue[c], msg)) = Len(queue[c]) + 1
        /\ Len(queue[c]) \in Nat
    BY <1>1
  <2>2. Len(Append(queue[c], msg)) <= SendCap
    BY <1>1, <1>2, <2>1
  <2>3. QED
    BY <1>2, <2>1, <2>2 DEF WireTypes
<1>3. CASE socket' = [socket EXCEPT ![c] = "closed"] /\ UNCHANGED queue
  BY <1>3 DEF WireTypes
<1>4. QED
  BY <1>2, <1>3 DEF TrySend

LEMMA WireTypesStep ==
  ASSUME Base, [Next]_vars
  PROVE  WireTypes'
<1>1. WireTypes /\ ConnTypes /\ JobTypes /\ edits \in Nat
  BY DEF Base, CountTypes
<1>2. SendCap \in Nat \ {0} /\ MaxEdits \in Nat
  BY BoundsAssumption
<1>3. ASSUME UNCHANGED <<content, wires>>
      PROVE  WireTypes'
  BY <1>1, <1>3 DEF WireTypes, wires
<1>4. ASSUME NEW c \in Connections, Greet(c)
      PROVE  WireTypes'
  <2> DEFINE m == IF IsEditor(c) THEN conn[c].content ELSE Note
  <2>1. m \in Messages
    BY <1>1, Sorts DEF ConnTypes
  <2> HIDE DEF m
  <2>2. <<m>> \in Seq(Messages) /\ Len(<<m>>) = 1
    BY <2>1
  <2>3. queue' = [queue EXCEPT ![c] = <<m>>] /\ socket' = [socket EXCEPT ![c] = "open"]
        /\ UNCHANGED <<content, view>>
    BY <1>4 DEF Greet, m
  <2>4. QED
    BY <1>1, <1>2, <2>2, <2>3 DEF WireTypes
<1>5. ASSUME NEW c \in Connections, ReadEdit(c)
      PROVE  WireTypes'
  <2>1. edits + 1 \in Contents
    BY <1>1, <1>2, <1>5 DEF ReadEdit, Contents
  <2>2. view' \in [Connections -> Contents] /\ content' = content
    BY <1>1, <1>5, <2>1 DEF ReadEdit, WireTypes
  <2>3. UNCHANGED <<socket, queue>> \/ TrySend(c, Note)
    BY <1>5 DEF ReadEdit
  <2>4. QED
    BY <1>1, <2>2, <2>3, TrySendTypes, Sorts DEF WireTypes
<1>6. ASSUME NEW c \in Connections, SetContent(c)
      PROVE  WireTypes'
  BY <1>1, <1>6 DEF SetContent, WireTypes, ConnTypes, wires
<1>7. ASSUME NEW c \in Connections, WritePump(c)
      PROVE  WireTypes'
  <2>1. queue[c] \in Seq(Messages) /\ queue[c] # <<>> /\ Len(queue[c]) <= SendCap
    BY <1>1, <1>7 DEF WritePump, WireTypes
  <2>2. Head(queue[c]) \in Messages /\ Tail(queue[c]) \in Seq(Messages)
        /\ Len(Tail(queue[c])) = Len(queue[c]) - 1 /\ Len(queue[c]) \in Nat
    BY <2>1, HeadTailProperties
  <2>3. Len(Tail(queue[c])) <= SendCap
    BY <1>2, <2>1, <2>2
  <2>4. queue' = [queue EXCEPT ![c] = Tail(queue[c])] /\ UNCHANGED <<content, socket>>
    BY <1>7 DEF WritePump
  <2>5. view' \in [Connections -> Contents]
    BY <1>1, <1>7, <2>2 DEF WritePump, WireTypes, Messages
  <2>6. QED
    BY <1>1, <2>2, <2>3, <2>4, <2>5 DEF WireTypes
<1>8. ASSUME NEW c \in Connections, PeerCloses(c)
      PROVE  WireTypes'
  BY <1>1, <1>8 DEF PeerCloses, WireTypes
<1>9. ASSUME NEW g \in Connections \cup {Request}, Deliver(g)
      PROVE  WireTypes'
  <2>1. PICK c \in job[g].to \ job[g].told : TrySend(c, job[g].msg)
    BY <1>9 DEF Deliver
  <2>2. c \in Connections /\ job[g].msg \in Messages
    BY <1>1, <2>1 DEF JobTypes
  <2>3. UNCHANGED <<content, view>>
    BY <1>9 DEF Deliver
  <2>4. QED
    BY <1>1, <2>1, <2>2, <2>3, TrySendTypes DEF WireTypes
<1>10. ASSUME NEW g \in Connections \cup {Request}, Close(g)
       PROVE  WireTypes'
  BY <1>1, <1>10 DEF Close, WireTypes, JobTypes
<1>11. ASSUME RestoreVersion
       PROVE  WireTypes'
  <2>1. edits + 1 \in Contents
    BY <1>1, <1>2, <1>11 DEF RestoreVersion, Contents
  <2>2. QED
    BY <1>1, <1>11, <2>1 DEF RestoreVersion, Commit, WireTypes, wires
<1>12. CASE Ask
  BY <1>3, <1>11, <1>12 DEF Ask, UserLosesAccess, UserGainsAccess, WorkspaceCloses,
     WorkspaceReopens, DeleteDocument, ChangeTitle, Commit, wires
<1>13. ASSUME NEW u \in Users, NEW kind \in {"document", "workspace"}, Prepare(u, kind)
       PROVE  WireTypes'
  BY <1>3, <1>13 DEF Prepare
<1>14. ASSUME NEW c \in Connections, Register(c) \/ UpgradeFails(c)
       PROVE  WireTypes'
  BY <1>3, <1>14 DEF Register, UpgradeFails
<1>15. ASSUME NEW c \in Connections, Enter(c)
       PROVE  WireTypes'
  BY <1>3, <1>15 DEF Enter
<1>16. ASSUME NEW c \in Connections,
              BroadcastDocumentExcept(c) \/ HubUnregister(c) \/ CleanupClient(c)
       PROVE  WireTypes'
  BY <1>3, <1>16 DEF BroadcastDocumentExcept, HubUnregister, CleanupClient
<1>17. CASE Notify
  BY <1>3, <1>17 DEF Notify
<1>18. CASE UNCHANGED vars
  BY <1>3, <1>18 DEF vars
<1>19. QED
  BY <1>4, <1>5, <1>6, <1>7, <1>8, <1>9, <1>10, <1>12, <1>13, <1>14, <1>15, <1>16, <1>17,
     <1>18, Cases DEF Elsewhere

\* Messages and targets of a job.
Jobs == [to : SUBSET Connections, told : SUBSET Connections, msg : Messages, close : BOOLEAN]

LEMMA TargetsChange ==
  ASSUME NEW S, NEW f \in [S -> Jobs], NEW g \in S, NEW cs \in SUBSET Connections
  PROVE  /\ [f EXCEPT ![g].to = cs] \in [S -> Jobs]
         /\ [f EXCEPT ![g].told = cs] \in [S -> Jobs]
<1>1. f[g] \in Jobs
  OBVIOUS
<1>2. [f[g] EXCEPT !.to = cs] \in Jobs /\ [f[g] EXCEPT !.told = cs] \in Jobs
  BY <1>1 DEF Jobs
<1>3. QED
  BY <1>2

LEMMA JobTypesStep ==
  ASSUME Base, [Next]_vars
  PROVE  JobTypes'
<1>1. ConnTypes /\ job \in [Connections \cup {Request} -> Jobs] /\ plan \in Seq(Notifications)
  BY DEF Base, JobTypes, Jobs
<1>2. edits \in Nat /\ MaxEdits \in Nat
  BY BoundsAssumption DEF Base, CountTypes
<1>3. ASSUME UNCHANGED <<job, plan>>
      PROVE  JobTypes'
  BY <1>1, <1>3 DEF JobTypes, Jobs
<1>4. ASSUME NEW g \in Connections \cup {Request}, NEW r \in Jobs,
             job' = [job EXCEPT ![g] = r], plan' \in Seq(Notifications)
      PROVE  JobTypes'
  BY <1>1, <1>4 DEF JobTypes, Jobs
<1>5. ASSUME job' \in [Connections \cup {Request} -> Jobs], UNCHANGED plan
      PROVE  JobTypes'
  BY <1>1, <1>5 DEF JobTypes, Jobs
<1>6. documents \cap ready \in SUBSET Connections
  BY <1>1 DEF ConnTypes
<1>7. ASSUME NEW c \in Connections, Greet(c)
      PROVE  JobTypes'
  <2>1. plan' = plan
    BY <1>7 DEF Greet
  <2>2. CASE job' = [job EXCEPT ![c].to = (documents \cap ready) \ {c}]
    BY <1>1, <1>5, <1>6, <2>1, <2>2, TargetsChange
  <2>3. CASE UNCHANGED job
    BY <1>3, <2>1, <2>3
  <2>4. QED
    BY <1>7, <2>2, <2>3 DEF Greet
<1>8. ASSUME NEW c \in Connections, BroadcastDocumentExcept(c)
      PROVE  JobTypes'
  <2>1. [NoJob EXCEPT !.to = Others(c), !.msg = conn[c].content] \in Jobs
    BY <1>1, <1>6, Sorts DEF Jobs, NoJob, Others, ConnTypes
  <2>2. QED
    BY <1>1, <1>4, <1>8, <2>1 DEF BroadcastDocumentExcept
<1>9. ASSUME NEW c \in Connections, CleanupClient(c)
      PROVE  JobTypes'
  <2>1. [NoJob EXCEPT !.to = documents \cap ready] \in Jobs
    BY <1>6, Sorts DEF Jobs, NoJob
  <2>2. QED
    BY <1>1, <1>3, <1>4, <1>9, <2>1 DEF CleanupClient
<1>10. ASSUME NEW g \in Connections \cup {Request}, Deliver(g)
       PROVE  JobTypes'
  <2>1. PICK c \in job[g].to \ job[g].told :
          job' = IF job[g].close THEN [job EXCEPT ![g].told = @ \cup {c}]
                                 ELSE [job EXCEPT ![g].to = @ \ {c}]
    BY <1>10 DEF Deliver
  <2>2. plan' = plan
    BY <1>10 DEF Deliver
  <2>3. job[g] \in Jobs /\ c \in Connections
    BY <1>1, <2>1 DEF Jobs
  <2>4. job[g].told \cup {c} \in SUBSET Connections /\ job[g].to \ {c} \in SUBSET Connections
    BY <2>3 DEF Jobs
  <2>5. \/ job' = [job EXCEPT ![g].told = job[g].told \cup {c}]
        \/ job' = [job EXCEPT ![g].to = job[g].to \ {c}]
    BY <2>1
  <2>6. PICK cs \in SUBSET Connections : \/ job' = [job EXCEPT ![g].told = cs]
                                         \/ job' = [job EXCEPT ![g].to = cs]
    BY <2>4, <2>5
  <2>7. /\ [job EXCEPT ![g].told = cs] \in [Connections \cup {Request} -> Jobs]
        /\ [job EXCEPT ![g].to = cs] \in [Connections \cup {Request} -> Jobs]
    BY <1>1, TargetsChange
  <2>8. job' \in [Connections \cup {Request} -> Jobs]
    BY <2>6, <2>7
  <2>9. QED
    BY <1>5, <2>2, <2>8
<1>11. ASSUME NEW g \in Connections \cup {Request}, Close(g)
       PROVE  JobTypes'
  <2>1. PICK c \in job[g].told : job' = [job EXCEPT ![g].to = @ \ {c}, ![g].told = @ \ {c}]
    BY <1>11 DEF Close
  <2>2. plan' = plan
    BY <1>11 DEF Close
  <2>3. job[g].told \ {c} \in SUBSET Connections /\ job[g].to \ {c} \in SUBSET Connections
    BY <1>1 DEF Jobs
  <2>4. job' = [job EXCEPT ![g].to = job[g].to \ {c}, ![g].told = job[g].told \ {c}]
    BY <2>1
  <2>5. PICK to \in SUBSET Connections, told \in SUBSET Connections :
          job' = [job EXCEPT ![g].to = to, ![g].told = told]
    BY <2>3, <2>4
  <2> DEFINE h == [job EXCEPT ![g].to = to]
  <2>6. h \in [Connections \cup {Request} -> Jobs]
    BY <1>1, TargetsChange
  <2>7. [h EXCEPT ![g].told = told] \in [Connections \cup {Request} -> Jobs]
    BY <2>6, TargetsChange
  <2>8. job' \in [Connections \cup {Request} -> Jobs]
    BY <2>5, <2>7
  <2>9. QED
    BY <1>5, <2>2, <2>8
<1>12. CASE Notify
  <2>1. plan # <<>> /\ plan' = Tail(plan)
        /\ job' = [job EXCEPT ![Request] = [to |-> Targets(Head(plan)), told |-> {},
                                            msg |-> Head(plan).msg, close |-> Head(plan).close]]
    BY <1>12 DEF Notify
  <2>2. Head(plan) \in Notifications /\ Tail(plan) \in Seq(Notifications)
    BY <1>1, <2>1, HeadTailProperties
  <2>3. [to |-> Targets(Head(plan)), told |-> {}, msg |-> Head(plan).msg,
         close |-> Head(plan).close] \in Jobs
    BY <1>1, <2>2 DEF Jobs, Targets, Notifications, ConnTypes
  <2>4. QED
    BY <1>4, <2>1, <2>2, <2>3
<1>13. CASE Ask
  <2>1. ASSUME NEW ns \in Seq(Notifications), Commit(ns)
        PROVE  JobTypes'
    BY <1>1, <2>1 DEF Commit, JobTypes, Jobs
  <2>2. ASSUME NEW n \in Notifications
        PROVE  <<n>> \in Seq(Notifications)
    OBVIOUS
  <2>3. ASSUME NEW n \in Notifications, NEW k \in Notifications
        PROVE  <<n, k>> \in Seq(Notifications)
    OBVIOUS
  <2>4. ASSUME NEW a \in {"all", "documents", "watchers"}, NEW m \in Messages,
               NEW u \in Users \cup {NoUser}
        PROVE  Broadcast(a, m) \in Notifications /\ Disconnect(a, u) \in Notifications
    BY Sorts DEF Broadcast, Disconnect, Notifications
  <2>5. CASE UserLosesAccess
    <3>1. PICK u \in members : Commit(<<Disconnect("documents", u)>>)
      BY <2>5 DEF UserLosesAccess
    <3>2. u \in Users \cup {NoUser}
      BY <3>1 DEF Base, CountTypes
    <3>3. QED
      BY <2>1, <2>2, <2>4, <3>1, <3>2, Sorts
  <2>6. CASE UserGainsAccess \/ WorkspaceReopens
    BY <1>3, <2>6 DEF UserGainsAccess, WorkspaceReopens
  <2>7. CASE WorkspaceCloses
    BY <2>1, <2>2, <2>4, <2>7, Sorts DEF WorkspaceCloses
  <2>8. CASE DeleteDocument
    BY <2>1, <2>3, <2>4, <2>8, Sorts DEF DeleteDocument
  <2>9. CASE ChangeTitle
    BY <2>1, <2>3, <2>4, <2>9, Sorts DEF ChangeTitle
  <2>10. CASE RestoreVersion
    <3>1. edits + 1 \in Messages
      BY <1>2, <2>10 DEF RestoreVersion, Contents, Messages
    <3>2. Commit(<<Broadcast("documents", edits + 1)>>)
      BY <2>10 DEF RestoreVersion
    <3>3. QED
      BY <2>1, <2>2, <2>4, <3>1, <3>2
  <2>11. QED
    BY <1>13, <2>5, <2>6, <2>7, <2>8, <2>9, <2>10 DEF Ask
<1>14. ASSUME NEW u \in Users, NEW kind \in {"document", "workspace"}, Prepare(u, kind)
       PROVE  JobTypes'
  BY <1>3, <1>14 DEF Prepare
<1>15. ASSUME NEW c \in Connections,
              \/ Register(c) \/ UpgradeFails(c) \/ Enter(c) \/ ReadEdit(c) \/ SetContent(c)
              \/ HubUnregister(c) \/ WritePump(c) \/ PeerCloses(c)
       PROVE  JobTypes'
  BY <1>3, <1>15 DEF Register, UpgradeFails, Enter, ReadEdit, SetContent, HubUnregister,
     WritePump, PeerCloses
<1>16. CASE UNCHANGED vars
  BY <1>3, <1>16 DEF vars
<1>17. QED
  BY <1>7, <1>8, <1>9, <1>10, <1>11, <1>12, <1>13, <1>14, <1>15, <1>16, Cases DEF Elsewhere

LEMMA CountTypesStep ==
  ASSUME Base, [Next]_vars
  PROVE  CountTypes'
<1>1. CountTypes /\ MaxBegun \in Nat /\ MaxEdits \in Nat /\ MaxRequests \in Nat
  BY BoundsAssumption DEF Base
<1>2. ASSUME UNCHANGED <<rights, counters>>
      PROVE  CountTypes'
  BY <1>1, <1>2 DEF CountTypes, rights, counters
<1>3. ASSUME NEW u \in Users, NEW kind \in {"document", "workspace"}, Prepare(u, kind)
      PROVE  CountTypes'
  BY <1>1, <1>3 DEF Prepare, CountTypes, rights
<1>4. ASSUME NEW c \in Connections, ReadEdit(c)
      PROVE  CountTypes'
  BY <1>1, <1>4 DEF ReadEdit, CountTypes, rights
<1>5. CASE Ask
  <2>1. CASE UserLosesAccess
    BY <1>1, <2>1 DEF UserLosesAccess, Commit, CountTypes
  <2>2. CASE UserGainsAccess
    BY <1>1, <2>2 DEF UserGainsAccess, CountTypes, counters
  <2>3. CASE WorkspaceCloses
    BY <1>1, <2>3 DEF WorkspaceCloses, Commit, CountTypes
  <2>4. CASE WorkspaceReopens
    BY <1>1, <2>4 DEF WorkspaceReopens, CountTypes, counters
  <2>5. CASE DeleteDocument
    BY <1>1, <2>5 DEF DeleteDocument, Commit, CountTypes
  <2>6. CASE ChangeTitle
    BY <1>1, <2>6 DEF ChangeTitle, Commit, CountTypes, rights
  <2>7. CASE RestoreVersion
    BY <1>1, <2>7 DEF RestoreVersion, Commit, CountTypes, rights
  <2>8. QED
    BY <1>5, <2>1, <2>2, <2>3, <2>4, <2>5, <2>6, <2>7 DEF Ask
<1>6. ASSUME NEW c \in Connections,
             \/ Register(c) \/ UpgradeFails(c) \/ Greet(c) \/ Enter(c) \/ SetContent(c)
             \/ BroadcastDocumentExcept(c) \/ HubUnregister(c) \/ CleanupClient(c)
             \/ WritePump(c) \/ PeerCloses(c)
      PROVE  CountTypes'
  BY <1>2, <1>6 DEF Register, UpgradeFails, Greet, Enter, SetContent,
     BroadcastDocumentExcept, HubUnregister, CleanupClient, WritePump, PeerCloses
<1>7. ASSUME NEW g \in Connections \cup {Request}, Deliver(g) \/ Close(g)
      PROVE  CountTypes'
  BY <1>2, <1>7 DEF Deliver, Close
<1>8. CASE Notify \/ UNCHANGED vars
  BY <1>2, <1>8 DEF Notify, vars
<1>9. QED
  BY <1>3, <1>4, <1>5, <1>6, <1>7, <1>8, Cases DEF Elsewhere

LEMMA BaseInit ==
  ASSUME Init
  PROVE  Base
<1>1. ConnTypes
  BY Sorts DEF Init, ConnTypes
<1>2. WireTypes
  BY BoundsAssumption, Sorts DEF Init, WireTypes
<1>3. JobTypes
  BY Sorts DEF Init, JobTypes
<1>4. CountTypes
  BY BoundsAssumption DEF Init, CountTypes
<1>5. Unborn /\ HubSteps
  BY DEF Init, Unborn, HubSteps, Off, Active
<1>6. QED
  BY <1>1, <1>2, <1>3, <1>4, <1>5 DEF Base

LEMMA BaseStep ==
  ASSUME Base, [Next]_vars
  PROVE  Base'
BY Moves, ConnTypesStep, WireTypesStep, JobTypesStep, CountTypesStep DEF Base
----------------------------------------------------------------------------
(***************************************************************************)
(* No orphans: whoever is between Register and Unregister with an open     *)
(* socket is in the hub or about to be closed.                             *)
(***************************************************************************)
InHub(c) == c \in documents \cup watchers
AboutToClose(c) == job[Request].close /\ c \in job[Request].to

Reached ==
  \A c \in Connections : conn[c].step \in Active /\ socket[c] = "open" =>
    InHub(c) \/ AboutToClose(c)

\* A connection comes to read by way of the hub and leaves the hub when it stops.
LEMMA StaysInHub ==
  ASSUME Base, ConnMoves, NEW c \in Connections, conn'[c].step \in Active
  PROVE  InHub(c)' \/ (conn[c].step \in Active /\ ~InHub(c))
<1>1. ConnTypes /\ HubSteps
  BY DEF Base
<1>2. ASSUME NEW u \in Users, NEW kind \in {"document", "workspace"}, Born(u, kind)
      PROVE  InHub(c)' \/ (conn[c].step \in Active /\ ~InHub(c))
  <2>1. /\ conn'[begun + 1].step \in {"prepared", "registered"}
        /\ \A d \in Connections \ {begun + 1} : conn'[d] = conn[d]
    BY <1>2, BornMoves
  <2>2. UNCHANGED <<documents, watchers>>
    BY <1>2 DEF Born
  <2>3. QED
    BY <2>1, <2>2 DEF Active, InHub
<1>3. ASSUME NEW d \in Connections, Ended(d), UNCHANGED <<documents, watchers>>
      PROVE  InHub(c)' \/ (conn[c].step \in Active /\ ~InHub(c))
  BY <1>1, <1>3 DEF Ended, ConnTypes, Off, Active, InHub
<1>4. ASSUME NEW d \in Connections, NEW from, NEW to, Walks(d, from, to),
             UNCHANGED <<documents, watchers>>, to \in Active => from \in Active
      PROVE  InHub(c)' \/ (conn[c].step \in Active /\ ~InHub(c))
  BY <1>4 DEF Walks, MovesTo, InHub
<1>5. ASSUME NEW d \in Connections, Walks(d, "ready", "reading"),
             IF IsEditor(d) THEN documents' = documents \cup {d} /\ watchers' = watchers
                            ELSE documents' = documents /\ watchers' = watchers \cup {d}
      PROVE  InHub(c)' \/ (conn[c].step \in Active /\ ~InHub(c))
  BY <1>5 DEF Walks, MovesTo, InHub
<1>6. ASSUME NEW d \in Connections, NEW to, Walks(d, "reading", to), to \notin Active,
             documents' = documents \ {d}, watchers' = watchers \ {d}
      PROVE  InHub(c)' \/ (conn[c].step \in Active /\ ~InHub(c))
  BY <1>6 DEF Walks, MovesTo, InHub
<1>7. CASE UNCHANGED <<conn, documents, watchers>>
  BY <1>7 DEF InHub
<1>8. QED
  BY <1>2, <1>3, <1>4, <1>5, <1>6, <1>7 DEF ConnMoves, Active

\* A socket opens only in Greet.
LEMMA OpenBefore ==
  ASSUME Base, [Next]_vars, NEW c \in Connections, conn'[c].step \in Active, socket'[c] = "open"
  PROVE  socket[c] = "open"
<1>1. WireTypes /\ JobTypes /\ ConnTypes
  BY DEF Base
<1>2. ASSUME NEW d, NEW msg, TrySend(d, msg)
      PROVE  socket[c] = "open"
  BY <1>1, <1>2 DEF TrySend, WireTypes
<1>3. ASSUME NEW d \in Connections, Greet(d)
      PROVE  socket[c] = "open"
  <2>1. conn'[d].step = "greeted" /\ (c # d => socket'[c] = socket[c])
    BY <1>1, <1>3 DEF Greet, ConnTypes, WireTypes
  <2>2. QED
    BY <2>1 DEF Active
<1>4. ASSUME NEW d \in Connections, ReadEdit(d)
      PROVE  socket[c] = "open"
  BY <1>2, <1>4 DEF ReadEdit
<1>5. ASSUME NEW g \in Connections \cup {Request}, Deliver(g) \/ Close(g)
      PROVE  socket[c] = "open"
  <2>1. CASE Deliver(g)
    BY <1>2, <2>1 DEF Deliver
  <2>2. CASE Close(g)
    BY <1>1, <2>2 DEF Close, WireTypes
  <2>3. QED
    BY <1>5, <2>1, <2>2
<1>6. ASSUME NEW d \in Connections, PeerCloses(d)
      PROVE  socket[c] = "open"
  BY <1>1, <1>6 DEF PeerCloses, WireTypes
<1>7. ASSUME NEW d \in Connections,
             \/ Register(d) \/ UpgradeFails(d) \/ Enter(d) \/ SetContent(d) \/ WritePump(d)
             \/ BroadcastDocumentExcept(d) \/ HubUnregister(d) \/ CleanupClient(d)
      PROVE  socket[c] = "open"
  BY <1>7 DEF Register, UpgradeFails, Enter, SetContent, WritePump,
     BroadcastDocumentExcept, HubUnregister, CleanupClient, wires
<1>8. ASSUME NEW u \in Users, NEW kind \in {"document", "workspace"}, Prepare(u, kind)
      PROVE  socket[c] = "open"
  BY <1>8 DEF Prepare, wires
<1>9. CASE Ask
  BY <1>9 DEF Ask, UserLosesAccess, UserGainsAccess, WorkspaceCloses, WorkspaceReopens,
              DeleteDocument, ChangeTitle, RestoreVersion, Commit, wires
<1>10. CASE Notify \/ UNCHANGED vars
  BY <1>10 DEF Notify, vars, wires
<1>11. QED
  BY <1>3, <1>4, <1>5, <1>6, <1>7, <1>8, <1>9, <1>10, Cases DEF Elsewhere

\* A request that closes does not let go of a target before its socket is closed.
LEMMA ClosesInTheEnd ==
  ASSUME Base, [Next]_vars, NEW c \in Connections, AboutToClose(c)
  PROVE  AboutToClose(c)' \/ socket'[c] # "open"
<1>1. JobTypes /\ WireTypes /\ Request \notin Connections
  BY Sorts DEF Base
<1>2. ASSUME job'[Request] = job[Request]
      PROVE  AboutToClose(c)'
  BY <1>2 DEF AboutToClose
<1>3. ASSUME NEW g \in Connections \cup {Request}, Deliver(g)
      PROVE  AboutToClose(c)'
  <2>1. PICK d \in job[g].to \ job[g].told :
          job' = IF job[g].close THEN [job EXCEPT ![g].told = @ \cup {d}]
                                 ELSE [job EXCEPT ![g].to = @ \ {d}]
    BY <1>3 DEF Deliver
  <2>2. QED
    BY <1>1, <2>1 DEF JobTypes, AboutToClose
<1>4. ASSUME NEW g \in Connections \cup {Request}, Close(g)
      PROVE  AboutToClose(c)' \/ socket'[c] # "open"
  <2>1. PICK d \in job[g].told :
          /\ socket' = [socket EXCEPT ![d] = "closed"]
          /\ job' = [job EXCEPT ![g].to = @ \ {d}, ![g].told = @ \ {d}]
    BY <1>4 DEF Close
  <2>2. CASE d = c
    BY <1>1, <2>1, <2>2 DEF WireTypes
  <2>3. CASE d # c
    <3>1. job'[Request].close = job[Request].close
      BY <1>1, <2>1 DEF JobTypes
    <3>2. c \in job'[Request].to
      BY <1>1, <2>1, <2>3 DEF JobTypes, AboutToClose
    <3>3. QED
      BY <3>1, <3>2 DEF AboutToClose
  <2>4. QED
    BY <2>2, <2>3
<1>5. ASSUME NEW d \in Connections, Greet(d) \/ BroadcastDocumentExcept(d) \/ CleanupClient(d)
      PROVE  AboutToClose(c)'
  BY <1>1, <1>2, <1>5 DEF Greet, BroadcastDocumentExcept, CleanupClient, JobTypes
<1>6. ASSUME NEW d \in Connections,
             \/ Register(d) \/ UpgradeFails(d) \/ Enter(d) \/ SetContent(d) \/ WritePump(d)
             \/ HubUnregister(d) \/ ReadEdit(d) \/ PeerCloses(d)
      PROVE  AboutToClose(c)'
  BY <1>2, <1>6 DEF Register, UpgradeFails, Enter, SetContent, WritePump,
     HubUnregister, ReadEdit, PeerCloses
<1>7. ASSUME NEW u \in Users, NEW kind \in {"document", "workspace"}, Prepare(u, kind)
      PROVE  AboutToClose(c)'
  BY <1>2, <1>7 DEF Prepare
<1>8. CASE Ask
  BY <1>2, <1>8 DEF Ask, UserLosesAccess, UserGainsAccess, WorkspaceCloses, WorkspaceReopens,
     DeleteDocument, ChangeTitle, RestoreVersion, Commit
<1>9. CASE UNCHANGED vars
  BY <1>2, <1>9 DEF vars
<1>10. CASE Notify
  BY <1>10 DEF Notify, AboutToClose
<1>11. QED
  BY <1>3, <1>4, <1>5, <1>6, <1>7, <1>8, <1>9, <1>10, Cases DEF Elsewhere

\* A disconnect closes everybody it takes out of the hub: they are ready.
LEMMA NotifyReaches ==
  ASSUME Base, Notify, NEW c \in Connections, InHub(c)
  PROVE  InHub(c)' \/ AboutToClose(c)'
<1>1. ConnTypes /\ HubSteps /\ JobTypes
  BY DEF Base
<1>2. c \in ready
  BY <1>1 DEF HubSteps, InHub
<1> DEFINE n == Head(plan)
<1>3. job'[Request].to = Targets(n) /\ job'[Request].close = n.close
  BY <1>1 DEF Notify, JobTypes
<1>4. CASE ~n.close
  BY <1>4 DEF Notify, InHub, hub
<1>5. CASE n.close
  <2>1. CASE n = Disconnect("documents", NoUser) /\ c \in documents
    <3>1. n.audience = "documents" /\ n.user = NoUser
      BY <2>1 DEF Disconnect
    <3>2. c \in Targets(n)
      BY <1>1, <1>2, <2>1, <3>1 DEF Targets, Audience, ConnTypes
    <3>3. QED
      BY <1>3, <1>5, <3>2 DEF AboutToClose
  <2>2. CASE ~(n = Disconnect("documents", NoUser)) /\ c \in documents
    <3>1. documents' = documents \ Targets(n)
      BY <1>5, <2>2 DEF Notify
    <3>2. QED
      BY <1>3, <1>5, <2>2, <3>1 DEF AboutToClose, InHub
  <2>3. CASE c \in watchers
    <3>1. watchers' = watchers \ Audience(n)
      BY <1>5 DEF Notify
    <3>2. QED
      BY <1>2, <1>3, <1>5, <2>3, <3>1 DEF AboutToClose, InHub, Targets
  <2>4. QED
    BY <2>1, <2>2, <2>3 DEF InHub
<1>6. QED
  BY <1>4, <1>5

LEMMA ReachedStep ==
  ASSUME Base, Reached, [Next]_vars
  PROVE  Reached'
<1> SUFFICES ASSUME NEW c \in Connections, conn'[c].step \in Active, socket'[c] = "open"
             PROVE  InHub(c)' \/ AboutToClose(c)'
  BY DEF Reached
<1>1. socket[c] = "open"
  BY OpenBefore
<1>2. CASE Notify
  <2>1. conn' = conn /\ ~AboutToClose(c)
    BY <1>2 DEF Notify, AboutToClose
  <2>2. InHub(c)
    BY <1>1, <2>1 DEF Reached
  <2>3. QED
    BY <1>2, <2>2, NotifyReaches
<1>3. CASE ConnMoves
  BY <1>1, <1>3, StaysInHub, ClosesInTheEnd DEF Reached
<1>4. QED
  BY <1>2, <1>3, Moves

----------------------------------------------------------------------------
(***************************************************************************)
(* Late edits: the check forgives none, and none can be pending without it.*)
(***************************************************************************)
Late ==
  /\ late \in [Connections -> {0, 1}]
  /\ \A c \in Connections : late[c] = 1 => ~MayOpen(User(c)) /\ MaxEdits > 0
  /\ \A c \in Connections : conn[c].step \in JoiningSteps \cup {"off", "checked"} => late[c] = 0
  /\ \A c \in Connections : conn[c].step = "checked" => MaxEdits > 0

\* What leaves rights and the count alone.
LEMMA SameLate ==
  ASSUME Base, Late, [Next]_vars,
         ~Ask, ~\E c \in Connections : SetContent(c)
  PROVE  UNCHANGED <<members, wsOpen, docOpen, late>>
<1>1. ASSUME NEW u \in Users, NEW kind \in {"document", "workspace"}, Prepare(u, kind)
      PROVE  UNCHANGED <<members, wsOpen, docOpen, late>>
  BY <1>1 DEF Prepare, rights
<1>2. ASSUME NEW c \in Connections,
             \/ Register(c) \/ Greet(c) \/ UpgradeFails(c) \/ Enter(c) \/ ReadEdit(c)
             \/ BroadcastDocumentExcept(c) \/ HubUnregister(c) \/ CleanupClient(c)
             \/ WritePump(c) \/ PeerCloses(c)
      PROVE  UNCHANGED <<members, wsOpen, docOpen, late>>
  BY <1>2 DEF Register, Greet, UpgradeFails, Enter, ReadEdit, BroadcastDocumentExcept,
     HubUnregister, CleanupClient, WritePump, PeerCloses, rights, history
<1>3. ASSUME NEW g \in Connections \cup {Request}, Deliver(g) \/ Close(g)
      PROVE  UNCHANGED <<members, wsOpen, docOpen, late>>
  BY <1>3 DEF Deliver, Close, rights, history
<1>4. CASE Notify \/ UNCHANGED vars
  BY <1>4 DEF Notify, vars, rights, history
<1>5. QED
  BY <1>1, <1>2, <1>3, <1>4, Cases DEF Elsewhere

\* Somebody may open the document who could not before: their counts are reset.
LEMMA RightsReset ==
  ASSUME Base, Late, Ask
  PROVE  /\ late' \in [Connections -> {0, 1}]
         /\ \A c \in Connections : late'[c] = 1 => late[c] = 1 /\ ~MayOpen(User(c))'
<1>1. /\ late \in [Connections -> {0, 1}]
      /\ \A c \in Connections : late[c] = 1 => ~MayOpen(User(c))
      /\ UNCHANGED conn
  BY ElsewhereLeaves DEF Late, Elsewhere
<1>2. CASE UserLosesAccess
  BY <1>1, <1>2 DEF UserLosesAccess, history, MayOpen, MayEnter, User
<1>3. CASE UserGainsAccess
  <2>1. PICK u \in Users : /\ members' = members \cup {u}
                           /\ late' = [c \in Connections |-> IF User(c) = u THEN 0 ELSE late[c]]
    BY <1>3 DEF UserGainsAccess
  <2>2. UNCHANGED <<wsOpen, docOpen>>
    BY <1>3 DEF UserGainsAccess
  <2>3. QED
    BY <1>1, <2>1, <2>2 DEF MayOpen, MayEnter, User
<1>4. CASE WorkspaceCloses
  BY <1>1, <1>4 DEF WorkspaceCloses, history, MayOpen, MayEnter, User
<1>5. CASE WorkspaceReopens
  BY <1>1, <1>5 DEF WorkspaceReopens
<1>6. CASE DeleteDocument
  BY <1>1, <1>6 DEF DeleteDocument, history, MayOpen, MayEnter, User
<1>7. CASE ChangeTitle \/ RestoreVersion
  BY <1>1, <1>7 DEF ChangeTitle, RestoreVersion, rights, history, MayOpen, MayEnter, User
<1>8. QED
  BY <1>2, <1>3, <1>4, <1>5, <1>6, <1>7 DEF Ask

\* One connection moves and the counts stay.
LEMMA LateMoves ==
  ASSUME Base, Late, UNCHANGED <<members, wsOpen, docOpen, late>>, ConnMoves
  PROVE  Late'
<1>1. ConnTypes /\ late \in [Connections -> {0, 1}]
  BY DEF Base, Late
<1>2. ASSUME NEW d \in Connections, \A c \in Connections \ {d} : conn'[c] = conn[c],
             late[d] = 1 => ~MayOpen(User(d))', conn'[d].step = "checked" => MaxEdits > 0,
             conn'[d].step \in JoiningSteps \cup {"off", "checked"} => late[d] = 0
      PROVE  Late'
  BY <1>2 DEF Late, MayOpen, MayEnter, User
<1>3. ASSUME NEW u \in Users, NEW kind \in {"document", "workspace"}, Born(u, kind)
      PROVE  Late'
  <2>1. /\ begun + 1 \in Connections /\ conn[begun + 1].step = "off"
        /\ conn'[begun + 1].step \in {"prepared", "registered"}
        /\ \A d \in Connections \ {begun + 1} : conn'[d] = conn[d]
    BY <1>3, BornMoves DEF Off
  <2>2. late[begun + 1] = 0
    BY <2>1 DEF Late
  <2>3. QED
    BY <1>2, <2>1, <2>2
<1>4. ASSUME NEW d \in Connections, conn[d].step \in {"prepared", "registered"}, Ended(d)
      PROVE  Late'
  <2>1. conn'[d].step = "off" /\ \A c \in Connections \ {d} : conn'[c] = conn[c]
    BY <1>1, <1>4 DEF Ended, ConnTypes, Off
  <2>2. late[d] = 0
    BY <1>4 DEF Late, JoiningSteps
  <2>3. QED
    BY <1>2, <2>1, <2>2
<1>5. ASSUME NEW d \in Connections, NEW from, NEW to, Walks(d, from, to),
             \/ from \in JoiningSteps /\ to # "checked"
             \/ to = "checked" /\ MayOpen(User(d)) /\ MaxEdits > 0
             \/ to \notin JoiningSteps \cup {"off", "checked"}
      PROVE  Late'
  <2>1. /\ conn[d].step = from /\ conn'[d].step = to /\ conn'[d].user = conn[d].user
        /\ \A c \in Connections \ {d} : conn'[c] = conn[c]
    BY <1>5 DEF Walks, MovesTo
  <2>2. late[d] = 1 => ~MayOpen(User(d))'
    BY <2>1 DEF Late, MayOpen, MayEnter, User
  <2>3. to \in JoiningSteps \cup {"off", "checked"} => late[d] = 0
    BY <1>1, <1>5, <2>1 DEF Late
  <2>4. QED
    BY <1>2, <1>5, <2>1, <2>2, <2>3
<1>6. CASE UNCHANGED conn
  BY <1>6 DEF Late, MayOpen, MayEnter, User
<1>7. QED
  BY <1>3, <1>4, <1>5, <1>6 DEF ConnMoves, JoiningSteps

LEMMA LateStep ==
  ASSUME Base, Late, [Next]_vars
  PROVE  Late'
<1>1. ConnTypes /\ edits \in Nat /\ MaxEdits \in Nat /\ late \in [Connections -> {0, 1}]
  BY BoundsAssumption DEF Base, Late, CountTypes
<1>2. ASSUME NEW c \in Connections, SetContent(c)
      PROVE  Late'
  <2>1. /\ conn[c].step = "checked" /\ conn' = [conn EXCEPT ![c].step = "stored"]
        /\ late' = IF MayOpen(User(c)) THEN late ELSE [late EXCEPT ![c] = late[c] + 1]
        /\ UNCHANGED <<members, wsOpen, docOpen>>
    BY <1>2 DEF SetContent, At, Goto, rights
  <2>2. late[c] = 0 /\ MaxEdits > 0
    BY <2>1 DEF Late
  <2>3. /\ conn'[c].step = "stored"
        /\ \A d \in Connections : conn'[d].user = conn[d].user
        /\ \A d \in Connections \ {c} : conn'[d].step = conn[d].step
    BY <1>1, <2>1 DEF ConnTypes
  <2>4. /\ late' \in [Connections -> {0, 1}]
        /\ \A d \in Connections \ {c} : late'[d] = late[d]
        /\ late'[c] = 1 => ~MayOpen(User(c))
    BY <1>1, <2>1, <2>2
  <2>5. \A d \in Connections : MayOpen(User(d))' <=> MayOpen(User(d))
    BY <2>1, <2>3 DEF MayOpen, MayEnter, User
  <2>6. QED
    BY <2>2, <2>3, <2>4, <2>5 DEF Late, JoiningSteps
<1>3. CASE Ask
  <2>1. conn' = conn
    BY <1>3, ElsewhereLeaves DEF Elsewhere
  <2>2. QED
    BY <1>3, <2>1, RightsReset DEF Late
<1>4. CASE ~Ask /\ ~\E c \in Connections : SetContent(c)
  <2>1. UNCHANGED <<members, wsOpen, docOpen, late>>
    BY <1>4, SameLate
  <2>2. CASE Notify
    <3>1. conn' = conn
      BY <2>2 DEF Notify
    <3>2. QED
      BY <2>1, <3>1 DEF Late, MayOpen, MayEnter, User
  <2>3. CASE ConnMoves
    BY <2>1, <2>3, LateMoves
  <2>4. QED
    BY <2>2, <2>3, Moves
<1>5. QED
  BY <1>2, <1>3, <1>4
----------------------------------------------------------------------------
(***************************************************************************)
(* Who lost the right: a disconnect is still to come for them, in the hub  *)
(* or past the last check on the way to it.                                *)
(***************************************************************************)
Covered(c) == \E i \in DOMAIN plan : plan[i].close /\ c \in Audience(plan[i])

Sought ==
  \A c \in Connections :
    (InHub(c) \/ OnItsWay(c)) /\ ShutOut(c) /\ c \notin raced => Covered(c)

\* Steps that leave rights and plan alone.
LEMMA SameRights ==
  ASSUME [Next]_vars, ~Ask, ~Notify
  PROVE  UNCHANGED <<members, wsOpen, docOpen, plan>>
<1>1. ASSUME NEW u \in Users, NEW kind \in {"document", "workspace"}, Prepare(u, kind)
      PROVE  UNCHANGED <<members, wsOpen, docOpen, plan>>
  BY <1>1 DEF Prepare, rights
<1>2. ASSUME NEW c \in Connections,
             \/ Register(c) \/ Greet(c) \/ UpgradeFails(c) \/ Enter(c) \/ ReadEdit(c)
             \/ SetContent(c) \/ BroadcastDocumentExcept(c) \/ HubUnregister(c)
             \/ CleanupClient(c) \/ WritePump(c) \/ PeerCloses(c)
      PROVE  UNCHANGED <<members, wsOpen, docOpen, plan>>
  BY <1>2 DEF Register, Greet, UpgradeFails, Enter, ReadEdit, SetContent,
     BroadcastDocumentExcept, HubUnregister, CleanupClient, WritePump, PeerCloses, rights
<1>3. ASSUME NEW g \in Connections \cup {Request}, Deliver(g) \/ Close(g)
      PROVE  UNCHANGED <<members, wsOpen, docOpen, plan>>
  BY <1>3 DEF Deliver, Close, rights
<1>4. CASE UNCHANGED vars
  BY <1>4 DEF vars, rights
<1>5. QED
  BY <1>1, <1>2, <1>3, <1>4, Cases DEF Elsewhere

LEMMA SoughtMoves ==
  ASSUME Base, Sought, ConnMoves, UNCHANGED <<members, wsOpen, docOpen, plan>>
  PROVE  Sought'
<1>1. ConnTypes /\ HubSteps
  BY DEF Base
<1>2. ASSUME NEW c \in Connections, conn'[c].user = conn[c].user, conn'[c].kind = conn[c].kind
      PROVE  (ShutOut(c)' <=> ShutOut(c)) /\ (Covered(c) => Covered(c)')
  BY <1>2 DEF ShutOut, IsEditor, MayOpen, MayEnter, User, Covered, Audience
<1>3. ASSUME NEW d \in Connections, \A c \in Connections \ {d} : conn'[c] = conn[c], raced' = raced,
             \A c \in Connections \ {d} : InHub(c)' => InHub(c),
             ((InHub(d) \/ OnItsWay(d)) /\ ShutOut(d))' /\ d \notin raced => Covered(d)'
      PROVE  Sought'
  <2> SUFFICES ASSUME NEW c \in Connections \ {d},
                      ((InHub(c) \/ OnItsWay(c)) /\ ShutOut(c) /\ c \notin raced)'
               PROVE  Covered(c)'
    BY <1>3 DEF Sought
  <2>1. (InHub(c) \/ OnItsWay(c)) /\ ShutOut(c) /\ c \notin raced
    BY <1>2, <1>3 DEF OnItsWay
  <2>2. QED
    BY <1>2, <1>3, <2>1 DEF Sought
<1>4. ASSUME NEW u \in Users, NEW kind \in {"document", "workspace"}, Born(u, kind),
             IF kind = "document" THEN MayOpen(u) ELSE MayEnter(u)
      PROVE  Sought'
  <2>1. PICK d \in Connections :
        /\ conn[d].step = "off"
        /\ conn'[d].step = IF kind = "document" THEN "prepared" ELSE "registered"
        /\ conn'[d].user = u /\ conn'[d].kind = kind
        /\ \A c \in Connections \ {d} : conn'[c] = conn[c]
    BY <1>4, BornMoves DEF Off
  <2>2. UNCHANGED <<documents, watchers, raced>>
    BY <1>4 DEF Born
  <2>3. ~InHub(d)'
    BY <1>1, <2>1, <2>2 DEF HubSteps, Active, InHub
  <2>4. OnItsWay(d)' => ~ShutOut(d)'
    BY <1>4, <2>1 DEF OnItsWay, ShutOut, IsEditor, User, MayOpen, MayEnter
  <2>5. QED
    BY <1>3, <2>1, <2>2, <2>3, <2>4 DEF InHub
<1>5. ASSUME NEW d \in Connections, conn[d].step \in {"prepared", "registered"}, Ended(d),
             UNCHANGED <<documents, watchers, raced>>
      PROVE  Sought'
  <2>1. conn'[d].step = "off" /\ \A c \in Connections \ {d} : conn'[c] = conn[c]
    BY <1>1, <1>5 DEF Ended, ConnTypes, Off
  <2>2. ~InHub(d)' /\ ~OnItsWay(d)'
    BY <1>1, <1>5, <2>1 DEF HubSteps, Active, InHub, OnItsWay, JoiningSteps
  <2>3. QED
    BY <1>3, <1>5, <2>1, <2>2 DEF InHub
<1>6. ASSUME NEW d \in Connections, NEW from, NEW to, Walks(d, from, to), raced' = raced,
             documents' \subseteq documents \cup {d}, watchers' \subseteq watchers \cup {d},
             \/ from = "prepared" /\ to = "registered" /\ Allowed(d)
                /\ UNCHANGED <<documents, watchers>>
             \/ from \in {"registered", "greeted", "ready"}
             \/ to \notin JoiningSteps /\ documents' \subseteq documents
                /\ watchers' \subseteq watchers
      PROVE  Sought'
  <2>1. /\ conn[d].step = from /\ conn'[d].step = to
        /\ conn'[d].user = conn[d].user /\ conn'[d].kind = conn[d].kind
        /\ \A c \in Connections \ {d} : conn'[c] = conn[c]
    BY <1>6 DEF Walks, MovesTo
  <2>2. (ShutOut(d)' <=> ShutOut(d)) /\ (Covered(d) => Covered(d)')
    BY <1>2, <2>1
  <2>3. CASE from = "prepared" /\ to = "registered" /\ Allowed(d)
             /\ UNCHANGED <<documents, watchers>>
    <3>1. ~ShutOut(d)
      BY <2>3 DEF Allowed, ShutOut, MayOpen, MayEnter
    <3>2. QED
      BY <1>3, <1>6, <2>1, <2>2, <2>3, <3>1 DEF InHub
  <2>4. CASE from \in {"registered", "greeted", "ready"}
    <3>1. OnItsWay(d)
      BY <2>1, <2>4 DEF OnItsWay, JoiningSteps
    <3>2. QED
      BY <1>3, <1>6, <2>1, <2>2, <3>1 DEF InHub, Sought
  <2>5. CASE to \notin JoiningSteps /\ documents' \subseteq documents
             /\ watchers' \subseteq watchers
    <3>1. ~OnItsWay(d)'
      BY <2>1, <2>5 DEF OnItsWay
    <3>2. QED
      BY <1>3, <1>6, <2>1, <2>2, <2>5, <3>1 DEF InHub, Sought
  <2>6. QED
    BY <1>6, <2>3, <2>4, <2>5
<1>7. CASE UNCHANGED <<conn, documents, watchers, raced>>
  BY <1>2, <1>7 DEF Sought, InHub, OnItsWay
<1>8. ASSUME NEW d \in Connections,
             \/ Walks(d, "prepared", "registered") /\ Allowed(d)
             \/ Walks(d, "registered", "greeted")
             \/ Walks(d, "reading", "checked")
             \/ Walks(d, "reading", "reading")
             \/ Walks(d, "checked", "stored")
             \/ Walks(d, "stored", "reading")
             \/ Walks(d, "cleanup", "gone"),
             UNCHANGED <<documents, watchers, raced>>
      PROVE  Sought'
  BY <1>6, <1>8 DEF JoiningSteps
<1>9. ASSUME NEW d \in Connections, Walks(d, "greeted", "ready"),
             UNCHANGED <<documents, watchers, raced>>
      PROVE  Sought'
  BY <1>6, <1>9
<1>10. ASSUME NEW d \in Connections, Walks(d, "ready", "reading"), raced' = raced,
              IF IsEditor(d) THEN documents' = documents \cup {d} /\ watchers' = watchers
                             ELSE documents' = documents /\ watchers' = watchers \cup {d}
       PROVE  Sought'
  BY <1>6, <1>10
<1>11. ASSUME NEW d \in Connections, NEW to \in {"cleanup", "gone"}, Walks(d, "reading", to),
              raced' = raced, documents' = documents \ {d}, watchers' = watchers \ {d}
       PROVE  Sought'
  BY <1>6, <1>11 DEF JoiningSteps
<1>12. QED
  BY <1>4, <1>5, <1>7, <1>8, <1>9, <1>10, <1>11 DEF ConnMoves

LEMMA SoughtNotify ==
  ASSUME Base, Sought, Notify
  PROVE  Sought'
<1>1. ConnTypes /\ HubSteps /\ plan \in Seq(Notifications) /\ plan # <<>>
  BY DEF Base, JobTypes, Notify
<1>2. UNCHANGED <<conn, members, wsOpen, docOpen>> /\ plan' = Tail(plan)
      /\ documents' \subseteq documents /\ watchers' \subseteq watchers /\ raced \subseteq raced'
  BY NotifyKeepsConns DEF Notify, rights
<1> DEFINE n == Head(plan)
<1> SUFFICES ASSUME NEW c \in Connections,
                    ((InHub(c) \/ OnItsWay(c)) /\ ShutOut(c) /\ c \notin raced)'
             PROVE  Covered(c)'
  BY DEF Sought
<1>3. (InHub(c) \/ OnItsWay(c)) /\ ShutOut(c) /\ c \notin raced
  BY <1>2 DEF InHub, OnItsWay, ShutOut, IsEditor, User, MayOpen, MayEnter
<1>4. PICK i \in DOMAIN plan : plan[i].close /\ c \in Audience(plan[i])
  BY <1>3 DEF Sought, Covered
<1>5. ~(n.close /\ c \in Audience(n))
  <2> SUFFICES ASSUME n.close, c \in Audience(n)
               PROVE  FALSE
    OBVIOUS
  <2>1. /\ documents' = IF n = Disconnect("documents", NoUser) THEN {} ELSE documents \ Targets(n)
        /\ watchers' = watchers \ Audience(n)
        /\ raced' = raced \cup {d \in Audience(n) : OnItsWay(d)}
    BY DEF Notify
  <2>2. ~OnItsWay(c)
    BY <1>3, <2>1
  <2>3. c \notin watchers'
    BY <2>1
  <2>4. c \in documents => c \in Targets(n)
    BY <1>1 DEF Targets, HubSteps
  <2>5. c \notin documents'
    BY <1>2, <2>1, <2>4
  <2>6. QED
    BY <1>2, <1>3, <2>2, <2>3, <2>5 DEF InHub, OnItsWay
<1>6. i \in 2..Len(plan) /\ i \in Nat /\ Len(plan) \in Nat
  <2>1. i \in 1..Len(plan) /\ Len(plan) \in Nat
    BY <1>1, <1>4
  <2>2. i # 1
    BY <1>1, <1>4, <1>5
  <2>3. QED
    BY <2>1, <2>2
<1>7. i - 1 \in DOMAIN Tail(plan) /\ Tail(plan)[i - 1] = plan[i]
  BY <1>1, <1>6, HeadTailProperties
<1>8. QED
  BY <1>2, <1>4, <1>7 DEF Covered, Audience, IsEditor, User

LEMMA SoughtAsk ==
  ASSUME Base, Sought, Ask
  PROVE  Sought'
<1>1. ConnTypes /\ UNCHANGED <<conn, documents, watchers, raced>> /\ members \subseteq Users
  BY ElsewhereLeaves DEF Elsewhere, Base, CountTypes
<1>2. \A c \in Connections : OnItsWay(c)' = OnItsWay(c) /\ InHub(c)' = InHub(c)
  BY <1>1 DEF OnItsWay, InHub
<1>3. plan = <<>> => \A c \in Connections :
        (InHub(c) \/ OnItsWay(c)) /\ c \notin raced => ~ShutOut(c)
  BY DEF Sought, Covered
<1>4. ASSUME \A c \in Connections : ShutOut(c)' => ShutOut(c), plan = <<>>
      PROVE  Sought'
  BY <1>1, <1>2, <1>3, <1>4 DEF Sought
<1>5. ASSUME \A c \in Connections : ShutOut(c)' => ShutOut(c) \/ Covered(c)', plan = <<>>
      PROVE  Sought'
  BY <1>1, <1>2, <1>3, <1>5 DEF Sought
<1>6. CASE UserLosesAccess
  <2>1. PICK u \in members : /\ plan = <<>> /\ plan' = <<Disconnect("documents", u)>>
                             /\ members' = members \ {u} /\ UNCHANGED <<wsOpen, docOpen>>
    BY <1>6 DEF UserLosesAccess, Commit
  <2>2. ASSUME NEW c \in Connections, ShutOut(c)', ~ShutOut(c)
        PROVE  IsEditor(c) /\ User(c) = u
    BY <1>1, <2>1, <2>2 DEF ShutOut, IsEditor, User, MayOpen, MayEnter
  <2>3. ASSUME NEW c \in Connections, IsEditor(c), User(c) = u
        PROVE  Covered(c)'
    <3>1. 1 \in DOMAIN plan' /\ plan'[1] = Disconnect("documents", u)
      BY <2>1
    <3>2. Disconnect("documents", u).close /\ Disconnect("documents", u).audience = "documents"
          /\ Disconnect("documents", u).user = u
      BY DEF Disconnect
    <3>3. QED
      BY <1>1, <2>3, <3>1, <3>2 DEF Covered, Audience, IsEditor, User
  <2>4. QED
    BY <1>5, <2>1, <2>2, <2>3
<1>7. CASE UserGainsAccess \/ WorkspaceReopens
  <2>1. plan' = plan /\ members \subseteq members' /\ (wsOpen => wsOpen') /\ docOpen' = docOpen
    BY <1>7 DEF UserGainsAccess, WorkspaceReopens
  <2>2. \A c \in Connections : ShutOut(c)' => ShutOut(c)
    BY <1>1, <2>1 DEF ShutOut, IsEditor, User, MayOpen, MayEnter
  <2>3. \A c \in Connections : Covered(c) => Covered(c)'
    BY <1>1, <2>1 DEF Covered, Audience, IsEditor, User
  <2>4. QED
    BY <1>1, <1>2, <2>2, <2>3 DEF Sought
<1>8. CASE WorkspaceCloses
  <2>1. plan = <<>> /\ plan' = <<Disconnect("all", NoUser)>>
    BY <1>8 DEF WorkspaceCloses, Commit
  <2>2. 1 \in DOMAIN plan' /\ plan'[1] = Disconnect("all", NoUser)
    BY <2>1
  <2>3. Disconnect("all", NoUser).close /\ Disconnect("all", NoUser).audience = "all"
        /\ Disconnect("all", NoUser).user = NoUser
    BY DEF Disconnect
  <2>4. \A c \in Connections : Covered(c)'
    BY <2>2, <2>3 DEF Covered, Audience
  <2>5. QED
    BY <1>5, <2>1, <2>4
<1>9. CASE DeleteDocument
  <2>1. /\ plan = <<>>
        /\ plan' = <<Broadcast("watchers", Note), Disconnect("documents", NoUser)>>
        /\ UNCHANGED <<members, wsOpen>>
    BY <1>9 DEF DeleteDocument, Commit
  <2>2. 2 \in DOMAIN plan' /\ plan'[2] = Disconnect("documents", NoUser)
    BY <2>1
  <2>3. Disconnect("documents", NoUser).close
        /\ Disconnect("documents", NoUser).audience = "documents"
        /\ Disconnect("documents", NoUser).user = NoUser
    BY DEF Disconnect
  <2>4. \A c \in Connections : IsEditor(c) => Covered(c)'
    BY <1>1, <2>2, <2>3 DEF Covered, Audience, IsEditor
  <2>5. \A c \in Connections : ~IsEditor(c) /\ ShutOut(c)' => ShutOut(c)
    BY <1>1, <2>1 DEF ShutOut, IsEditor
  <2>6. QED
    BY <1>5, <2>1, <2>4, <2>5
<1>10. CASE ChangeTitle \/ RestoreVersion
  <2>1. plan = <<>> /\ UNCHANGED <<members, wsOpen, docOpen>>
    BY <1>10 DEF ChangeTitle, RestoreVersion, Commit, rights
  <2>2. QED
    BY <1>1, <1>4, <2>1 DEF ShutOut, IsEditor, User, MayOpen, MayEnter
<1>11. QED
  BY <1>6, <1>7, <1>8, <1>9, <1>10 DEF Ask

LEMMA SoughtStep ==
  ASSUME Base, Sought, [Next]_vars
  PROVE  Sought'
BY Moves, SameRights, SoughtMoves, SoughtNotify, SoughtAsk
----------------------------------------------------------------------------
(***************************************************************************)
(* The views converge.  As long as no change met another or a join, there  *)
(* is one change at a time, which is being written, or announced, or sent, *)
(* and every browser shows the content or is about to be sent it.          *)
(***************************************************************************)
Goroutines == Connections \cup {Request}

WritingAt(c) == conn[c].step \in {"checked", "stored"}
Announced == \E i \in DOMAIN plan : IsContent(plan[i].msg)

OneChange ==
  /\ \A c, d \in Connections : WritingAt(c) /\ WritingAt(d) => c = d
  /\ \A c \in Connections : WritingAt(c) => ~Announced
  /\ (\E c \in Connections : WritingAt(c)) \/ Announced
       => ~Joining /\ \A g \in Goroutines : ~Sending(g)
  /\ \A g, h \in Goroutines : Sending(g) /\ Sending(h) => g = h

\* What is being sent is the content.
SendsContent ==
  /\ Announced => plan = <<Broadcast("documents", content)>>
  /\ \A c \in Connections : conn[c].step = "stored" => conn[c].content = content
  /\ \A g \in Goroutines : Sending(g) => job[g].msg = content

\* A connection sends contents between its first edit and its end only.
SendsNotes(c) ==
  /\ conn[c].step \in {"off"} \cup JoiningSteps => job[c].msg = Note
  /\ conn[c].step = "cleanup" => job[c].to = {}

\* What a browser shows once its queue is empty.
Plain(q) == \A i \in DOMAIN q : ~IsContent(q[i])
EndsWith(q, k) ==
  \E i \in DOMAIN q : q[i] = k /\ \A j \in DOMAIN q : j > i => ~IsContent(q[j])

Bare(c, k) == Plain(queue[c]) /\ view[c] = k
Shows(c, k) == EndsWith(queue[c], k) \/ Bare(c, k)

\* The content is still to be sent to connection c.
Coming(c) ==
  \/ Announced
  \/ \E d \in Connections \ {c} : conn[d].step = "stored"
  \/ \E g \in Goroutines : Sending(g) /\ c \in job[g].to

Seen(c) ==
  /\ conn[c].step \in {"prepared", "registered"} /\ IsEditor(c) => conn[c].content = content
  /\ conn[c].step \in {"greeted", "ready"} /\ IsEditor(c) /\ socket[c] = "open"
       => Shows(c, content)
  /\ c \in documents /\ socket[c] = "open" =>
       IF WritingAt(c) THEN Bare(c, conn[c].content) ELSE Shows(c, content) \/ Coming(c)

ViewInv ==
  /\ \A c \in Connections : SendsNotes(c)
  /\ ~mixed => OneChange /\ SendsContent /\ \A c \in Connections : Seen(c)
----------------------------------------------------------------------------
\* A note at the end of a queue changes nothing, a content is shown next.
LEMMA AppendShows ==
  ASSUME NEW q \in Seq(Messages), NEW m \in Messages
  PROVE  /\ m = Note /\ Plain(q) => Plain(Append(q, m))
         /\ \A k : m = Note /\ EndsWith(q, k) => EndsWith(Append(q, m), k)
         /\ EndsWith(Append(q, m), m)
<1>1. Len(q) \in Nat /\ DOMAIN q = 1..Len(q)
  OBVIOUS
<1> DEFINE r == Append(q, m)
<1>2. DOMAIN r = 1..Len(q) + 1 /\ r[Len(q) + 1] = m /\ \A i \in 1..Len(q) : r[i] = q[i]
  BY <1>1
<1> HIDE DEF r
<1>3. m = Note /\ Plain(q) => Plain(r)
  BY <1>1, <1>2 DEF Plain, IsContent
<1>4. ASSUME NEW k, m = Note, EndsWith(q, k)
      PROVE  EndsWith(r, k)
  <2>1. PICK i \in DOMAIN q : q[i] = k /\ \A j \in DOMAIN q : j > i => ~IsContent(q[j])
    BY <1>4 DEF EndsWith
  <2>2. i \in DOMAIN r /\ r[i] = k
    BY <1>1, <1>2, <2>1
  <2>3. \A j \in DOMAIN r : j > i => ~IsContent(r[j])
    BY <1>1, <1>2, <1>4, <2>1 DEF IsContent
  <2>4. QED
    BY <2>2, <2>3 DEF EndsWith
<1>5. EndsWith(r, m)
  <2>1. Len(q) + 1 \in DOMAIN r /\ \A j \in DOMAIN r : ~(j > Len(q) + 1)
    BY <1>1, <1>2
  <2>2. QED
    BY <1>2, <2>1 DEF EndsWith
<1>6. QED
  BY <1>3, <1>4, <1>5 DEF r

\* Taking the head of a queue and showing it.
LEMMA TailShows ==
  ASSUME NEW q \in Seq(Messages), q # <<>>
  PROVE  /\ Plain(q) => Head(q) = Note /\ Plain(Tail(q))
         /\ \A k \in Contents : EndsWith(q, k) =>
              EndsWith(Tail(q), k) \/ (Head(q) = k /\ Plain(Tail(q)))
<1>1. /\ Len(q) \in Nat \ {0} /\ DOMAIN q = 1..Len(q) /\ Head(q) = q[1]
      /\ DOMAIN Tail(q) = 1..Len(q) - 1 /\ \A i \in 1..Len(q) - 1 : Tail(q)[i] = q[i + 1]
  OBVIOUS
<1>2. Plain(q) => Head(q) = Note /\ Plain(Tail(q))
  BY <1>1 DEF Plain, IsContent
<1>3. ASSUME NEW k \in Contents, EndsWith(q, k)
      PROVE  EndsWith(Tail(q), k) \/ (Head(q) = k /\ Plain(Tail(q)))
  <2>1. PICK i \in DOMAIN q : q[i] = k /\ \A j \in DOMAIN q : j > i => ~IsContent(q[j])
    BY <1>3 DEF EndsWith
  <2>2. CASE i = 1
    <3>1. Plain(Tail(q))
      BY <1>1, <2>1, <2>2 DEF Plain
    <3>2. QED
      BY <1>1, <2>1, <2>2, <3>1
  <2>3. CASE i # 1
    <3>1. i - 1 \in DOMAIN Tail(q) /\ Tail(q)[i - 1] = k
      BY <1>1, <2>1, <2>3
    <3>2. \A j \in DOMAIN Tail(q) : j > i - 1 => ~IsContent(Tail(q)[j])
      BY <1>1, <2>1, <2>3
    <3>3. QED
      BY <3>1, <3>2 DEF EndsWith
  <2>4. QED
    BY <2>2, <2>3
<1>4. QED
  BY <1>2, <1>3

\* What was shown stays so.
Kept(c) ==
  /\ socket'[c] = "open" => socket[c] = "open"
  /\ \A k \in Contents : Shows(c, k) => Shows(c, k)'
  /\ \A k \in Contents : Bare(c, k) => Bare(c, k)'

LEMMA SameIsKept ==
  ASSUME NEW c \in Connections, queue'[c] = queue[c], view'[c] = view[c],
         socket'[c] = "open" => socket[c] = "open"
  PROVE  Kept(c)
BY DEF Kept, Shows, Bare

LEMMA PumpKeeps ==
  ASSUME Base, NEW d \in Connections, WritePump(d), NEW c \in Connections
  PROVE  Kept(c)
<1>1. queue \in [Connections -> Seq(Messages)] /\ view \in [Connections -> Contents]
  BY DEF Base, WireTypes
<1>2. Note \notin Contents
  BY NoteAssumption DEF Contents
<1>3. CASE c # d
  BY <1>1, <1>3, SameIsKept DEF WritePump
<1>4. CASE c = d
  <2>1. queue[c] \in Seq(Messages) /\ queue[c] # <<>> /\ queue'[c] = Tail(queue[c])
        /\ socket' = socket
    BY <1>1, <1>4 DEF WritePump
  <2>2. view'[c] = IF Head(queue[c]) = Note THEN view[c] ELSE Head(queue[c])
    BY <1>1, <1>4 DEF WritePump
  <2>3. \A k \in Contents : Bare(c, k) => Bare(c, k)'
    BY <2>1, <2>2, TailShows DEF Bare
  <2>4. \A k \in Contents : EndsWith(queue[c], k) => Shows(c, k)'
    BY <1>2, <2>1, <2>2, TailShows DEF Bare, Shows
  <2>5. QED
    BY <2>1, <2>3, <2>4 DEF Kept, Shows
<1>5. QED
  BY <1>3, <1>4

\* A send is seen by its target only, and a note by nobody.
LEMMA SendKeeps ==
  ASSUME Base, NEW d \in Connections, NEW m \in Messages, TrySend(d, m), NEW c \in Connections,
         view'[c] = view[c]
  PROVE  /\ c # d \/ m = Note => Kept(c)
         /\ socket'[c] = "open" => socket[c] = "open"
         /\ c = d /\ socket'[c] = "open" => Shows(c, m)'
<1>1. /\ queue \in [Connections -> Seq(Messages)]
      /\ socket \in [Connections -> {"none", "open", "closed"}]
  BY DEF Base, WireTypes
<1>2. CASE queue' = [queue EXCEPT ![d] = Append(@, m)] /\ socket' = socket
  <2>1. CASE c # d
    BY <1>1, <1>2, <2>1, SameIsKept
  <2>2. CASE c = d
    <3>1. queue[c] \in Seq(Messages) /\ queue'[c] = Append(queue[c], m)
      BY <1>1, <1>2, <2>2
    <3>2. m = Note => Kept(c)
      BY <1>2, <3>1, AppendShows DEF Kept, Shows, Bare
    <3>3. Shows(c, m)'
      BY <3>1, AppendShows DEF Shows
    <3>4. QED
      BY <1>2, <2>2, <3>2, <3>3
  <2>3. QED
    BY <2>1, <2>2
<1>3. CASE socket' = [socket EXCEPT ![d] = "closed"] /\ queue' = queue
  BY <1>1, <1>3, SameIsKept
<1>4. QED
  BY <1>2, <1>3 DEF TrySend
----------------------------------------------------------------------------
\* A step that begins no change keeps what is said of changes.
LEMMA NoNewChange ==
  ASSUME OneChange, SendsContent, content' = content,
         \A c \in Connections : WritingAt(c)' => conn'[c] = conn[c],
         Joining' => Joining \/ ~Writing,
         Announced' => Announced /\ plan' = plan,
         \A g \in Goroutines : Sending(g)' => Sending(g) /\ job'[g].msg = job[g].msg
  PROVE  OneChange' /\ SendsContent'
<1>1. \A c \in Connections : WritingAt(c)' => WritingAt(c)
  BY DEF WritingAt
<1>2. Writing <=> (\E c \in Connections : WritingAt(c)) \/ Announced
  BY DEF Writing, WritingAt, Announced
<1>3. OneChange'
  BY <1>1, <1>2 DEF OneChange
<1>4. Announced' => plan' = <<Broadcast("documents", content')>>
  BY DEF SendsContent
<1>5. \A c \in Connections : conn'[c].step = "stored" => conn'[c].content = content'
  BY DEF SendsContent, WritingAt
<1>6. \A g \in Goroutines : Sending(g)' => job'[g].msg = content'
  BY DEF SendsContent
<1>7. QED
  BY <1>3, <1>4, <1>5, <1>6 DEF SendsContent

\* What is still to be sent to a connection.
LEMMA ComingStays ==
  ASSUME NEW c \in Connections, Coming(c),
         Announced => Announced',
         \A d \in Connections \ {c} : conn[d].step = "stored" => conn'[d].step = "stored",
         \A g \in Goroutines : Sending(g) /\ c \in job[g].to =>
                                 Sending(g)' /\ c \in job'[g].to
  PROVE  Coming(c)'
BY DEF Coming

\* A connection whose own state stays.
LEMMA SeenStays ==
  ASSUME Base, NEW c \in Connections, Seen(c), Kept(c),
         conn'[c] = conn[c], content' = content,
         c \in documents' => c \in documents,
         Coming(c) /\ c \in documents' /\ socket'[c] = "open" => Coming(c)' \/ Shows(c, content)'
  PROVE  Seen(c)'
<1>1. content \in Contents /\ conn[c].content \in Contents
  BY DEF Base, WireTypes, ConnTypes
<1>2. Shows(c, content) => Shows(c, content)'
  BY <1>1 DEF Kept, Shows, Bare
<1>3. Bare(c, conn[c].content) => Bare(c, conn[c].content)'
  BY <1>1 DEF Kept, Bare
<1>4. IsEditor(c)' = IsEditor(c) /\ WritingAt(c)' = WritingAt(c)
  BY DEF IsEditor, WritingAt
<1>5. conn'[c].step \in {"prepared", "registered"} /\ IsEditor(c)' => conn'[c].content = content'
  BY <1>4 DEF Seen
<1>6. conn'[c].step \in {"greeted", "ready"} /\ IsEditor(c)' /\ socket'[c] = "open"
        => Shows(c, content)'
  BY <1>2, <1>4 DEF Seen, Kept
<1>7. ASSUME c \in documents', socket'[c] = "open"
      PROVE  IF WritingAt(c)' THEN Bare(c, conn[c].content)'
                              ELSE Shows(c, content)' \/ Coming(c)'
  <2>1. c \in documents /\ socket[c] = "open"
    BY <1>7 DEF Kept
  <2>2. IF WritingAt(c) THEN Bare(c, conn[c].content) ELSE Shows(c, content) \/ Coming(c)
    BY <2>1 DEF Seen
  <2>3. QED
    BY <1>2, <1>3, <1>4, <1>7, <2>2
<1>8. QED
  BY <1>5, <1>6, <1>7 DEF Seen

\* Steps of the wires only.
LEMMA WiresMove ==
  ASSUME Base, ViewInv, UNCHANGED <<content, conn, job, plan, documents, mixed>>,
         \A c \in Connections : Kept(c)
  PROVE  ViewInv'
<1>1. \A c \in Connections : SendsNotes(c)'
  BY DEF ViewInv, SendsNotes
<1>2. ASSUME ~mixed
      PROVE  OneChange' /\ SendsContent' /\ \A c \in Connections : Seen(c)'
  <2>1. OneChange /\ SendsContent /\ \A c \in Connections : Seen(c)
    BY <1>2 DEF ViewInv
  <2>2. /\ Joining' = Joining /\ Announced' = Announced
        /\ \A g \in Goroutines : Sending(g)' = Sending(g)
    BY DEF Joining, IsEditor, Announced, Sending
  <2>3. OneChange' /\ SendsContent'
    BY <2>1, <2>2, NoNewChange
  <2>4. \A c \in Connections : Coming(c) => Coming(c)'
    BY <2>2 DEF Coming
  <2>5. QED
    BY <2>1, <2>3, <2>4, SeenStays
<1>3. QED
  BY <1>1, <1>2 DEF ViewInv

\* One connection moves on, without an edit; the others see nothing of it.
LEMMA OneMoves ==
  ASSUME Base, ViewInv, NEW c \in Connections,
         UNCHANGED <<content, plan>>, ~mixed' => ~mixed,
         ~WritingAt(c), ~WritingAt(c)',
         Joining' => Joining \/ ~Writing \/ mixed',
         ~Sending(c), ~Sending(c)',
         \A d \in Connections \ {c} :
           /\ conn'[d] = conn[d] /\ queue'[d] = queue[d] /\ view'[d] = view[d]
           /\ socket'[d] = socket[d]
           /\ d \in documents' => d \in documents,
         \A g \in Goroutines \ {c} : job'[g] = job[g],
         SendsNotes(c)',
         ~mixed /\ ~mixed' /\ Seen(c) => Seen(c)'
  PROVE  ViewInv'
<1>1. \A d \in Connections : SendsNotes(d)'
  BY DEF ViewInv, SendsNotes, Goroutines
<1>2. ASSUME ~mixed'
      PROVE  OneChange' /\ SendsContent' /\ \A d \in Connections : Seen(d)'
  <2>1. ~mixed /\ OneChange /\ SendsContent /\ \A d \in Connections : Seen(d)
    BY <1>2 DEF ViewInv
  <2>2. \A g \in Goroutines : /\ Sending(g)' = Sending(g)
                              /\ Sending(g) => job'[g] = job[g]
    BY DEF Sending
  <2>3. Announced' = Announced /\ \A d \in Connections : WritingAt(d)' => conn'[d] = conn[d]
    BY DEF Announced
  <2>4. OneChange' /\ SendsContent'
    BY <1>2, <2>1, <2>2, <2>3, NoNewChange
  <2>5. ASSUME NEW d \in Connections \ {c}
        PROVE  Seen(d)'
    <3>1. Kept(d)
      BY SameIsKept
    <3>2. \A e \in Connections \ {d} : conn[e].step = "stored" => conn'[e].step = "stored"
      BY DEF WritingAt
    <3>3. Coming(d) => Coming(d)'
      BY <2>2, <2>3, <3>2, ComingStays
    <3>4. QED
      BY <2>1, <3>1, <3>3, SeenStays
  <2>6. QED
    BY <2>1, <2>4, <2>5, <1>2
<1>3. QED
  BY <1>1, <1>2 DEF ViewInv
----------------------------------------------------------------------------
\* A connection that comes in.
LEMMA PrepareViews ==
  ASSUME Base, ViewInv, NEW u \in Users, NEW kind \in {"document", "workspace"}, Prepare(u, kind)
  PROVE  ViewInv'
<1>1. Born(u, kind)
  BY DEF Prepare, Born, hub, history
<1> PICK c \in Connections : c = begun + 1
  BY <1>1, BornMoves
<1>2. /\ conn[c] = Off
      /\ conn'[c].step = IF kind = "document" THEN "prepared" ELSE "registered"
      /\ conn'[c].kind = kind
      /\ \A d \in Connections \ {c} : conn'[d] = conn[d]
  BY <1>1, BornMoves
<1>3. conn'[c].content = content
  BY <1>1, <1>2, BornMoves DEF Born, Base, ConnTypes
<1>4. /\ UNCHANGED <<content, plan, documents, queue, view, socket, job>>
      /\ mixed' = (mixed \/ (kind = "document" /\ Writing))
  BY DEF Prepare, hub, wires
<1>5. c \notin documents
  BY <1>2 DEF Base, HubSteps, Off, Active
<1>6. ~WritingAt(c) /\ ~WritingAt(c)'
  BY <1>2 DEF WritingAt, Off
<1>7. job[c].msg = Note /\ job' = job
  BY <1>2, <1>4 DEF ViewInv, SendsNotes, Off
<1>8. ~Sending(c) /\ ~Sending(c)'
  BY <1>7 DEF Sending, IsContent
<1>9. SendsNotes(c)'
  BY <1>2, <1>7 DEF SendsNotes
<1>10. Joining' => Joining \/ ~Writing \/ mixed'
  <2>1. CASE kind = "document"
    BY <1>4, <2>1
  <2>2. CASE kind = "workspace"
    BY <1>2, <2>2 DEF Joining, IsEditor
  <2>3. QED
    BY <2>1, <2>2
<1>11. Seen(c)'
  BY <1>2, <1>3, <1>4, <1>5 DEF Seen, IsEditor
<1>12. ~mixed' => ~mixed
  BY <1>4
<1>13. UNCHANGED <<content, plan, documents, queue, view, socket, job>>
  BY <1>4
<1>14. QED
  BY <1>2, <1>6, <1>8, <1>9, <1>10, <1>11, <1>12, <1>13, OneMoves

\* What a connection's own step leaves alone.
LEMMA OwnStep ==
  ASSUME Base, NEW c \in Connections,
         \/ Register(c) \/ UpgradeFails(c) \/ Greet(c) \/ Enter(c)
         \/ HubUnregister(c) \/ CleanupClient(c)
  PROVE  /\ UNCHANGED <<content, plan, mixed, view>>
         /\ conn[c].step \in {"prepared", "registered", "greeted", "ready", "reading", "cleanup"}
         /\ conn'[c].step \in {"off", "registered", "greeted", "ready", "reading", "cleanup", "gone"}
         /\ conn'[c].step \in JoiningSteps => conn[c].step \in JoiningSteps
                                              /\ conn'[c].kind = conn[c].kind
         /\ \A d \in Connections \ {c} :
              /\ conn'[d] = conn[d] /\ queue'[d] = queue[d] /\ socket'[d] = socket[d]
              /\ d \in documents' => d \in documents
         /\ \A g \in Goroutines \ {c} : job'[g] = job[g]
<1>1. /\ conn \in [Connections -> [step : AllSteps, user : Users \cup {NoUser},
                                   kind : {"document", "workspace"}, content : Contents]]
      /\ queue \in [Connections -> Seq(Messages)]
      /\ socket \in [Connections -> {"none", "open", "closed"}]
      /\ job \in [Goroutines -> Jobs]
  BY DEF Base, ConnTypes, WireTypes, JobTypes, Jobs, Goroutines
<1>2. CASE Register(c)
  BY <1>1, <1>2 DEF Register, At, Goto, Off, JoiningSteps, hub, wires, history
<1>3. CASE UpgradeFails(c)
  BY <1>1, <1>3 DEF UpgradeFails, At, Off, JoiningSteps, hub, wires, history
<1>4. CASE Greet(c)
  <2>1. /\ UNCHANGED <<content, plan, mixed, view, documents>> /\ conn[c].step = "registered"
        /\ conn' = [conn EXCEPT ![c].step = "greeted", ![c].content = 0]
    BY <1>4 DEF Greet, At, hub, history
  <2>2. /\ \A d \in Connections \ {c} : queue'[d] = queue[d] /\ socket'[d] = socket[d]
        /\ \A g \in Goroutines \ {c} : job'[g] = job[g]
    BY <1>1, <1>4 DEF Greet
  <2>3. QED
    BY <1>1, <2>1, <2>2 DEF JoiningSteps
<1>5. CASE Enter(c)
  <2>1. UNCHANGED <<content, plan, mixed, view, queue, socket, job>>
    BY <1>5 DEF Enter, wires, history
  <2>2. \A d \in Connections \ {c} : d \in documents' => d \in documents
    BY <1>5 DEF Enter, Admit, HubRegister, hub
  <2>3. PICK step \in {"ready", "reading"} : conn' = [conn EXCEPT ![c].step = step]
    BY <1>5 DEF Enter, Goto
  <2>4. conn[c].step \in {"greeted", "ready"}
    BY <1>5 DEF Enter
  <2>5. QED
    BY <1>1, <2>1, <2>2, <2>3, <2>4 DEF JoiningSteps
<1>6. CASE HubUnregister(c)
  <2>1. PICK step \in {"cleanup", "gone"} : conn' = [conn EXCEPT ![c].step = step]
    BY <1>6 DEF HubUnregister, Goto
  <2>2. /\ UNCHANGED <<content, plan, mixed, view, queue, socket, job>>
        /\ documents' = documents \ {c} /\ conn[c].step = "reading"
    BY <1>6 DEF HubUnregister, At, wires, history
  <2>3. QED
    BY <1>1, <2>1, <2>2 DEF JoiningSteps
<1>7. CASE CleanupClient(c)
  <2>1. /\ UNCHANGED <<content, plan, mixed, view, queue, socket, documents>>
        /\ conn' = [conn EXCEPT ![c].step = "gone"] /\ conn[c].step = "cleanup"
    BY <1>7 DEF CleanupClient, At, Goto, hub, wires, history
  <2>2. \A g \in Goroutines \ {c} : job'[g] = job[g]
    BY <1>1, <1>7 DEF CleanupClient
  <2>3. QED
    BY <1>1, <2>1, <2>2 DEF JoiningSteps
<1>8. QED
  BY <1>2, <1>3, <1>4, <1>5, <1>6, <1>7

\* A connection in one of these steps sends no content, before or after.
LEMMA OwnJob ==
  ASSUME Base, NEW c \in Connections, SendsNotes(c),
         \/ Register(c) \/ UpgradeFails(c) \/ Greet(c) \/ Enter(c)
         \/ HubUnregister(c) \/ CleanupClient(c)
  PROVE  ~Sending(c) /\ ~Sending(c)' /\ SendsNotes(c)'
<1>1. /\ conn \in [Connections -> [step : AllSteps, user : Users \cup {NoUser},
                                   kind : {"document", "workspace"}, content : Contents]]
      /\ job \in [Goroutines -> Jobs] /\ c \in Goroutines
  BY DEF Base, ConnTypes, JobTypes, Jobs, Goroutines
<1>2. CASE Register(c) \/ UpgradeFails(c)
  <2>1. job' = job /\ conn[c].step \in JoiningSteps
    BY <1>2 DEF Register, UpgradeFails, At, JoiningSteps
  <2>2. conn'[c].step \in {"off"} \cup JoiningSteps
    BY <1>1, <1>2 DEF Register, UpgradeFails, Goto, Off, JoiningSteps
  <2>3. QED
    BY <2>1, <2>2 DEF SendsNotes, Sending, IsContent, JoiningSteps
<1>3. CASE Greet(c)
  <2>1. job[c].msg = Note
    BY <1>3 DEF Greet, At, SendsNotes, JoiningSteps
  <2>2. job'[c].msg = Note
    BY <1>1, <1>3, <2>1 DEF Greet, Jobs
  <2>3. conn'[c].step = "greeted"
    BY <1>1, <1>3 DEF Greet
  <2>4. QED
    BY <2>1, <2>2, <2>3 DEF SendsNotes, Sending, IsContent
<1>4. CASE Enter(c) \/ HubUnregister(c)
  <2>1. job' = job /\ job[c].to = {}
    BY <1>4 DEF Enter, HubUnregister
  <2>2. conn'[c].step \in JoiningSteps => job[c].msg = Note
    BY <1>1, <1>4 DEF Enter, HubUnregister, Goto, At, SendsNotes, JoiningSteps
  <2>3. conn'[c].step # "off"
    BY <1>1, <1>4 DEF Enter, HubUnregister, Goto
  <2>4. QED
    BY <2>1, <2>2, <2>3 DEF SendsNotes, Sending
<1>5. CASE CleanupClient(c)
  <2>1. conn[c].step = "cleanup" /\ conn'[c].step = "gone"
    BY <1>1, <1>5 DEF CleanupClient, At, Goto
  <2>2. job[c].to = {}
    BY <2>1 DEF SendsNotes
  <2>3. job'[c] = job[c] \/ job'[c].msg = Note
    BY <1>1, <1>5 DEF CleanupClient, NoJob
  <2>4. QED
    BY <2>1, <2>2, <2>3 DEF SendsNotes, Sending, IsContent, JoiningSteps
<1>6. QED
  BY <1>2, <1>3, <1>4, <1>5

\* It shows the content as soon as it is in the document.
LEMMA OwnView ==
  ASSUME Base, NEW c \in Connections, Seen(c),
         \/ Register(c) \/ UpgradeFails(c) \/ Greet(c) \/ Enter(c)
         \/ HubUnregister(c) \/ CleanupClient(c)
  PROVE  Seen(c)'
<1>1. /\ conn \in [Connections -> [step : AllSteps, user : Users \cup {NoUser},
                                   kind : {"document", "workspace"}, content : Contents]]
      /\ queue \in [Connections -> Seq(Messages)]
      /\ socket \in [Connections -> {"none", "open", "closed"}]
      /\ \A d \in documents \cup watchers : conn[d].step \in Active
      /\ content \in Contents
  BY DEF Base, ConnTypes, WireTypes, HubSteps
<1>2. ASSUME conn'[c].step \in {"off", "cleanup", "gone"}, c \notin documents'
      PROVE  Seen(c)'
  BY <1>2 DEF Seen
<1>3. CASE Register(c) \/ UpgradeFails(c)
  <2>1. /\ UNCHANGED <<content, documents>> /\ c \notin documents
        /\ conn[c].step \in {"prepared", "registered"}
    BY <1>1, <1>3 DEF Register, UpgradeFails, At, hub, Active
  <2>2. \/ conn'[c].step = "off"
        \/ conn'[c].step = "registered" /\ conn'[c].kind = conn[c].kind
           /\ conn'[c].content = conn[c].content
    BY <1>1, <1>3 DEF Register, UpgradeFails, Goto, Off
  <2>3. QED
    BY <1>2, <2>1, <2>2 DEF Seen, IsEditor
<1>4. CASE Greet(c)
  <2>1. /\ UNCHANGED <<content, documents>> /\ c \notin documents
        /\ conn[c].step = "registered" /\ conn'[c].step = "greeted" /\ conn'[c].kind = conn[c].kind
    BY <1>1, <1>4 DEF Greet, At, hub, Active
  <2>2. IsEditor(c) => queue'[c] = <<content>>
    BY <1>1, <1>4, <2>1 DEF Greet, Seen
  <2>3. IsEditor(c) => Shows(c, content)'
    <3>1. EndsWith(<<content>>, content)
      BY DEF EndsWith
    <3>2. QED
      BY <2>1, <2>2, <3>1 DEF Shows
  <2>4. QED
    BY <2>1, <2>3 DEF Seen, IsEditor
<1>5. CASE Enter(c)
  <2>1. UNCHANGED <<content, queue, view, socket>> /\ c \notin documents
        /\ conn[c].step \in {"greeted", "ready"}
    BY <1>1, <1>5 DEF Enter, wires, Active
  <2>2. conn'[c].step \in {"ready", "reading"} /\ conn'[c].kind = conn[c].kind
    BY <1>1, <1>5 DEF Enter, Goto
  <2>3. c \in documents' => IsEditor(c)
    BY <1>5, <2>1 DEF Enter, Admit, HubRegister, hub
  <2>4. IsEditor(c) /\ socket[c] = "open" => Shows(c, content)'
    BY <2>1 DEF Seen, Shows, Bare
  <2>5. QED
    BY <2>1, <2>2, <2>3, <2>4 DEF Seen, IsEditor, WritingAt
<1>6. CASE HubUnregister(c)
  BY <1>1, <1>2, <1>6 DEF HubUnregister, Goto
<1>7. CASE CleanupClient(c)
  BY <1>1, <1>2, <1>7 DEF CleanupClient, At, Goto, hub, Active
<1>8. QED
  BY <1>3, <1>4, <1>5, <1>6, <1>7

LEMMA OwnStepViews ==
  ASSUME Base, ViewInv, NEW c \in Connections,
         \/ Register(c) \/ UpgradeFails(c) \/ Greet(c) \/ Enter(c)
         \/ HubUnregister(c) \/ CleanupClient(c)
  PROVE  ViewInv'
<1>1. SendsNotes(c)
  BY DEF ViewInv
<1>2. ~Sending(c) /\ ~Sending(c)' /\ SendsNotes(c)'
  BY <1>1, OwnJob
<1>3. ~WritingAt(c) /\ ~WritingAt(c)'
  BY OwnStep DEF WritingAt
<1>4. Joining' => Joining
  BY OwnStep DEF Joining, IsEditor
<1>5. Seen(c) => Seen(c)'
  BY OwnView
<1>6. /\ UNCHANGED <<content, plan, mixed, view>>
      /\ \A d \in Connections \ {c} :
           /\ conn'[d] = conn[d] /\ queue'[d] = queue[d] /\ socket'[d] = socket[d]
           /\ d \in documents' => d \in documents
      /\ \A g \in Goroutines \ {c} : job'[g] = job[g]
  BY OwnStep
<1>7. QED
  BY <1>2, <1>3, <1>4, <1>5, <1>6, OneMoves
----------------------------------------------------------------------------
\* A goroutine is done with one of its targets.
LEMMA JobsMove ==
  ASSUME Base, ViewInv, NEW d \in Connections,
         UNCHANGED <<content, conn, plan, documents, mixed>>,
         \A g \in Goroutines : /\ job'[g].msg = job[g].msg
                               /\ job'[g].to \subseteq job[g].to
                               /\ job[g].to \subseteq job'[g].to \cup {d},
         \A c \in Connections \ {d} : Kept(c),
         OneChange /\ SendsContent /\ Seen(d) => Seen(d)'
  PROVE  ViewInv'
<1>1. \A c \in Connections : SendsNotes(c)'
  BY DEF ViewInv, SendsNotes, Goroutines
<1>2. ASSUME ~mixed
      PROVE  OneChange' /\ SendsContent' /\ \A c \in Connections : Seen(c)'
  <2>1. OneChange /\ SendsContent /\ \A c \in Connections : Seen(c)
    BY <1>2 DEF ViewInv
  <2>2. Joining' = Joining /\ Announced' = Announced
    BY DEF Joining, IsEditor, Announced
  <2>3. \A g \in Goroutines : Sending(g)' => Sending(g)
    BY DEF Sending
  <2>4. OneChange' /\ SendsContent'
    BY <2>1, <2>2, <2>3, NoNewChange
  <2>5. ASSUME NEW c \in Connections \ {d}
        PROVE  Seen(c)'
    <3>1. \A g \in Goroutines : Sending(g) /\ c \in job[g].to => Sending(g)' /\ c \in job'[g].to
      BY DEF Sending
    <3>2. Coming(c) => Coming(c)'
      BY <2>2, <3>1, ComingStays
    <3>3. QED
      BY <2>1, <3>2, SeenStays
  <2>6. QED
    BY <2>1, <2>4, <2>5
<1>3. QED
  BY <1>1, <1>2 DEF ViewInv

LEMMA DeliverViews ==
  ASSUME Base, ViewInv, NEW g \in Goroutines, Deliver(g)
  PROVE  ViewInv'
<1>1. job \in [Goroutines -> Jobs] /\ content \in Contents
  BY DEF Base, JobTypes, WireTypes, Jobs, Goroutines
<1>2. PICK d \in job[g].to \ job[g].told :
        /\ TrySend(d, job[g].msg)
        /\ job' = IF job[g].close THEN [job EXCEPT ![g].told = @ \cup {d}]
                                  ELSE [job EXCEPT ![g].to = @ \ {d}]
  BY DEF Deliver
<1>3. UNCHANGED <<content, conn, plan, documents, mixed, view>>
  BY DEF Deliver, hub, history
<1>4. d \in Connections /\ job[g].msg \in Messages
  BY <1>1, <1>2 DEF Jobs
<1>5. \A h \in Goroutines : /\ job'[h].msg = job[h].msg
                            /\ job'[h].to \subseteq job[h].to
                            /\ job[h].to \subseteq job'[h].to \cup {d}
  <2>1. CASE job[g].close
    BY <1>1, <1>2, <2>1 DEF Jobs
  <2>2. CASE ~job[g].close
    BY <1>1, <1>2, <2>2 DEF Jobs
  <2>3. QED
    BY <2>1, <2>2
<1>6. \A c \in Connections \ {d} : Kept(c)
  BY <1>2, <1>3, <1>4, SendKeeps
<1>7. ASSUME OneChange, SendsContent, Seen(d)
      PROVE  Seen(d)'
  <2>1. CASE job[g].msg = Note
    <3>1. Kept(d)
      BY <1>2, <1>3, <1>4, <2>1, SendKeeps
    <3>2. ~Sending(g) /\ \A h \in Goroutines \ {g} : job'[h] = job[h]
      BY <1>1, <1>2, <2>1 DEF Sending, IsContent
    <3>3. Announced' = Announced
          /\ \A h \in Goroutines : Sending(h) => Sending(h)' /\ job'[h] = job[h]
      BY <1>3, <3>2 DEF Announced, Sending
    <3>4. Coming(d) => Coming(d)'
      BY <1>3, <1>4, <3>3, ComingStays
    <3>5. QED
      BY <1>3, <1>4, <1>7, <3>1, <3>4, SeenStays
  <2>2. CASE job[g].msg # Note
    <3>1. Sending(g)
      BY <1>2, <2>2 DEF Sending, IsContent
    <3>2. job[g].msg = content /\ ~WritingAt(d)
      BY <1>4, <1>7, <3>1 DEF SendsContent, OneChange
    <3>3. socket'[d] = "open" => Shows(d, content)'
      BY <1>2, <1>3, <1>4, <3>2, SendKeeps DEF Shows, Bare
    <3>4. ~WritingAt(d)'
      BY <1>3, <3>2 DEF WritingAt
    <3>5. QED
      BY <1>3, <1>7, <3>3, <3>4 DEF Seen, IsEditor
  <2>3. QED
    BY <2>1, <2>2
<1>8. QED
  BY <1>3, <1>4, <1>5, <1>6, <1>7, JobsMove

LEMMA CloseViews ==
  ASSUME Base, ViewInv, NEW g \in Goroutines, Close(g)
  PROVE  ViewInv'
<1>1. job \in [Goroutines -> Jobs] /\ socket \in [Connections -> {"none", "open", "closed"}]
  BY DEF Base, JobTypes, WireTypes, Jobs, Goroutines
<1>2. PICK d \in job[g].told :
        /\ socket' = [socket EXCEPT ![d] = "closed"]
        /\ job' = [job EXCEPT ![g].to = @ \ {d}, ![g].told = @ \ {d}]
  BY DEF Close
<1>3. UNCHANGED <<content, conn, plan, documents, mixed, view, queue>>
  BY DEF Close, hub, history
<1>4. d \in Connections
  BY <1>1, <1>2 DEF Jobs
<1>5. \A h \in Goroutines : /\ job'[h].msg = job[h].msg
                            /\ job'[h].to \subseteq job[h].to
                            /\ job[h].to \subseteq job'[h].to \cup {d}
  BY <1>1, <1>2 DEF Jobs
<1>6. \A c \in Connections : Kept(c)
  BY <1>1, <1>2, <1>3, SameIsKept
<1>7. socket'[d] # "open"
  BY <1>1, <1>2, <1>4
<1>8. Seen(d) => Seen(d)'
  BY <1>3, <1>4, <1>6, <1>7, SeenStays
<1>9. QED
  BY <1>3, <1>4, <1>5, <1>6, <1>8, JobsMove
----------------------------------------------------------------------------
\* A request that changes no content.
LEMMA NotesAsked ==
  ASSUME Base, ViewInv, NEW ns \in Seq(Notifications), Commit(ns),
         \A i \in DOMAIN ns : ns[i].msg = Note,
         UNCHANGED <<content, mixed>>
  PROVE  ViewInv'
<1>1. /\ UNCHANGED <<documents, conn, queue, view, socket, job>>
      /\ plan = <<>> /\ plan' = ns
  BY DEF Commit, hub, wires
<1>2. ~Announced /\ ~Announced'
  BY <1>1 DEF Announced, IsContent
<1>3. \A c \in Connections : SendsNotes(c)'
  BY <1>1 DEF ViewInv, SendsNotes
<1>4. ASSUME ~mixed
      PROVE  OneChange' /\ SendsContent' /\ \A c \in Connections : Seen(c)'
  <2>1. OneChange /\ SendsContent /\ \A c \in Connections : Seen(c)
    BY <1>4 DEF ViewInv
  <2>2. Joining' = Joining /\ \A g \in Goroutines : Sending(g)' = Sending(g)
    BY <1>1 DEF Joining, IsEditor, Sending
  <2>3. OneChange' /\ SendsContent'
    BY <1>1, <1>2, <2>1, <2>2, NoNewChange
  <2>4. \A c \in Connections : Coming(c) => Coming(c)'
    BY <1>1, <1>2, <2>2 DEF Coming
  <2>5. \A c \in Connections : Kept(c)
    BY <1>1, SameIsKept
  <2>6. QED
    BY <1>1, <2>1, <2>3, <2>4, <2>5, SeenStays
<1>5. QED
  BY <1>3, <1>4 DEF ViewInv

LEMMA RestoreViews ==
  ASSUME Base, ViewInv, RestoreVersion
  PROVE  ViewInv'
<1>1. /\ UNCHANGED <<documents, conn, queue, view, socket, job>>
      /\ plan' = <<Broadcast("documents", content')>> /\ job[Request].to = {}
      /\ content' = edits + 1 /\ mixed' = (mixed \/ Clash(Request))
  BY DEF RestoreVersion, Commit, hub, wires
<1>2. content' \in Contents /\ Note \notin Contents
  BY <1>1, NoteAssumption, BoundsAssumption DEF RestoreVersion, Base, CountTypes, Contents
<1>3. Announced'
  BY <1>1, <1>2 DEF Announced, Broadcast, IsContent
<1>4. \A c \in Connections : SendsNotes(c)'
  BY <1>1 DEF ViewInv, SendsNotes
<1>5. ASSUME ~mixed'
      PROVE  OneChange' /\ SendsContent' /\ \A c \in Connections : Seen(c)'
  <2>1. ~Writing /\ ~Joining /\ \A h \in Goroutines \ {Request} : ~Sending(h)
    BY <1>1, <1>5 DEF Clash, Base, JobTypes, Goroutines
  <2>2. \A g \in Goroutines : ~Sending(g)'
    BY <1>1, <2>1 DEF Sending
  <2>3. ~Joining' /\ \A c \in Connections : ~WritingAt(c)'
    BY <1>1, <2>1 DEF Joining, IsEditor, Writing, WritingAt
  <2>4. OneChange'
    BY <2>2, <2>3 DEF OneChange
  <2>5. SendsContent'
    BY <1>1, <2>2, <2>3 DEF SendsContent, WritingAt
  <2>6. ASSUME NEW c \in Connections
        PROVE  Seen(c)'
    BY <1>3, <2>3 DEF Seen, Coming, Joining, JoiningSteps
  <2>7. QED
    BY <2>4, <2>5, <2>6
<1>6. QED
  BY <1>4, <1>5 DEF ViewInv

LEMMA AskViews ==
  ASSUME Base, ViewInv, Ask
  PROVE  ViewInv'
<1>1. ASSUME NEW a \in {"all", "documents", "watchers"}, NEW u \in Users \cup {NoUser}
      PROVE  /\ Broadcast(a, Note) \in Notifications /\ Disconnect(a, u) \in Notifications
             /\ Broadcast(a, Note).msg = Note /\ Disconnect(a, u).msg = Note
  BY Sorts DEF Broadcast, Disconnect, Notifications
<1>2. ASSUME NEW n \in Notifications, n.msg = Note, Commit(<<n>>), UNCHANGED <<content, mixed>>
      PROVE  ViewInv'
  <2>1. <<n>> \in Seq(Notifications) /\ \A i \in DOMAIN <<n>> : <<n>>[i].msg = Note
    BY <1>2
  <2>2. QED
    BY <1>2, <2>1, NotesAsked
<1>3. ASSUME NEW n \in Notifications, NEW m \in Notifications, n.msg = Note, m.msg = Note,
             Commit(<<n, m>>), UNCHANGED <<content, mixed>>
      PROVE  ViewInv'
  <2>1. <<n, m>> \in Seq(Notifications) /\ \A i \in DOMAIN <<n, m>> : <<n, m>>[i].msg = Note
    BY <1>3
  <2>2. QED
    BY <1>3, <2>1, NotesAsked
<1>4. CASE UserLosesAccess
  <2>1. PICK u \in members : Commit(<<Disconnect("documents", u)>>)
    BY <1>4 DEF UserLosesAccess
  <2>2. u \in Users \cup {NoUser} /\ UNCHANGED <<content, mixed>>
    BY <1>4, <2>1 DEF Base, CountTypes, UserLosesAccess, history
  <2>3. QED
    BY <1>1, <1>2, <2>1, <2>2
<1>5. CASE WorkspaceCloses
  BY <1>1, <1>2, <1>5 DEF WorkspaceCloses, history
<1>6. CASE DeleteDocument
  BY <1>1, <1>3, <1>6 DEF DeleteDocument, history
<1>7. CASE ChangeTitle
  BY <1>1, <1>3, <1>7 DEF ChangeTitle, history
<1>8. CASE UserGainsAccess \/ WorkspaceReopens
  <2>1. UNCHANGED <<content, conn, job, plan, documents, mixed, queue, view, socket>>
    BY <1>8 DEF UserGainsAccess, WorkspaceReopens, hub, wires
  <2>2. QED
    BY <2>1, SameIsKept, WiresMove
<1>9. QED
  BY <1>4, <1>5, <1>6, <1>7, <1>8, RestoreViews DEF Ask

LEMMA NotifyViews ==
  ASSUME Base, ViewInv, Notify
  PROVE  ViewInv'
<1> DEFINE n == Head(plan)
<1>1. /\ job \in [Goroutines -> Jobs] /\ plan \in Seq(Notifications)
      /\ content \in Contents /\ Note \notin Contents /\ Request \in Goroutines
  BY NoteAssumption DEF Base, JobTypes, WireTypes, Jobs, Goroutines, Contents
<1>2. /\ UNCHANGED <<content, conn, queue, view, socket, mixed>>
      /\ plan # <<>> /\ plan' = Tail(plan) /\ job[Request].to = {}
      /\ job' = [job EXCEPT ![Request] =
                   [to |-> Targets(n), told |-> {}, msg |-> n.msg, close |-> n.close]]
  BY DEF Notify, wires
<1>3. documents' \subseteq documents
  BY NotifyKeepsConns
<1>4. /\ \A g \in Goroutines \ {Request} : job'[g] = job[g]
      /\ job'[Request].to = Targets(n) /\ job'[Request].msg = n.msg
  BY <1>1, <1>2
<1>5. ~Sending(Request) /\ \A g \in Goroutines \ {Request} : Sending(g)' = Sending(g)
  BY <1>2, <1>4 DEF Sending
<1>6. \A c \in Connections : SendsNotes(c)'
  BY <1>2, <1>4, Sorts DEF ViewInv, SendsNotes, Goroutines
<1>7. Joining' = Joining /\ \A c \in Connections : Kept(c) /\ WritingAt(c)' = WritingAt(c)
  BY <1>2, SameIsKept DEF Joining, IsEditor, WritingAt
<1>8. ASSUME ~mixed, ~Announced
      PROVE  OneChange' /\ SendsContent' /\ \A c \in Connections : Seen(c)'
  <2>1. OneChange /\ SendsContent /\ \A c \in Connections : Seen(c)
    BY <1>8 DEF ViewInv
  <2>2. n.msg = Note /\ ~Announced'
    <3>1. Len(plan) \in Nat \ {0} /\ DOMAIN plan = 1..Len(plan) /\ n = plan[1]
          /\ DOMAIN Tail(plan) = 1..Len(plan) - 1
          /\ \A i \in 1..Len(plan) - 1 : Tail(plan)[i] = plan[i + 1]
      BY <1>1, <1>2
    <3>2. QED
      BY <1>2, <1>8, <3>1 DEF Announced, IsContent
  <2>3. ~Sending(Request)'
    BY <1>4, <2>2 DEF Sending, IsContent
  <2>4. \A g \in Goroutines : (Sending(g)' <=> Sending(g)) /\ (Sending(g) => job'[g] = job[g])
    BY <1>4, <1>5, <2>3
  <2>5. OneChange' /\ SendsContent'
    BY <1>2, <1>7, <2>1, <2>2, <2>4, NoNewChange
  <2>6. \A c \in Connections : Coming(c) => Coming(c)'
    BY <1>2, <1>8, <2>4, ComingStays
  <2>7. QED
    BY <1>2, <1>3, <1>7, <2>1, <2>5, <2>6, SeenStays
<1>9. ASSUME ~mixed, Announced
      PROVE  OneChange' /\ SendsContent' /\ \A c \in Connections : Seen(c)'
  <2>1. OneChange /\ SendsContent /\ \A c \in Connections : Seen(c)
    BY <1>9 DEF ViewInv
  <2>2. plan = <<Broadcast("documents", content)>>
    BY <1>9, <2>1 DEF SendsContent
  <2>3. n.msg = content /\ n.user = NoUser /\ n.audience = "documents" /\ plan' = <<>>
    BY <1>2, <2>2 DEF Broadcast
  <2>4. ~Announced'
    BY <2>3 DEF Announced
  <2>5. ~Joining /\ \A c \in Connections : ~WritingAt(c)
    BY <1>9, <2>1 DEF OneChange
  <2>6. \A g \in Goroutines \ {Request} : ~Sending(g)'
    BY <1>5, <1>9, <2>1 DEF OneChange
  <2>7. OneChange'
    BY <1>7, <2>4, <2>5, <2>6 DEF OneChange
  <2>8. SendsContent'
    BY <1>2, <1>4, <1>7, <2>3, <2>4, <2>5, <2>6 DEF SendsContent, WritingAt
  <2>9. ASSUME NEW c \in Connections, c \in documents
        PROVE  Coming(c)'
    <3>1. c \in ready /\ IsEditor(c)
      BY <2>9 DEF Base, HubSteps, ConnTypes
    <3>2. c \in Targets(n)
      BY <2>3, <2>9, <3>1 DEF Targets, Audience
    <3>3. Sending(Request)' /\ c \in job'[Request].to
      BY <1>1, <1>4, <2>3, <3>2 DEF Sending, IsContent
    <3>4. QED
      BY <1>1, <3>3 DEF Coming
  <2>10. QED
    BY <1>2, <1>3, <1>7, <2>1, <2>7, <2>8, <2>9, SeenStays
<1>10. QED
  BY <1>2, <1>6, <1>8, <1>9 DEF ViewInv
----------------------------------------------------------------------------
\* The three steps of an edit.
LEMMA ReadEditViews ==
  ASSUME Base, ViewInv, NEW c \in Connections, ReadEdit(c)
  PROVE  ViewInv'
<1>1. /\ conn \in [Connections -> [step : AllSteps, user : Users \cup {NoUser},
                                   kind : {"document", "workspace"}, content : Contents]]
      /\ view \in [Connections -> Contents] /\ DOMAIN job = Goroutines /\ c \in Goroutines
  BY DEF Base, ConnTypes, WireTypes, JobTypes, Goroutines
<1>2. /\ UNCHANGED <<content, documents, job, plan>>
      /\ conn[c].step = "reading" /\ job[c].to = {} /\ socket[c] = "open"
      /\ view' = [view EXCEPT ![c] = edits + 1]
  BY DEF ReadEdit, At, hub
<1>3. CASE ~EditAllowed(c)
  <2>1. conn' = conn /\ mixed'
    BY <1>3 DEF ReadEdit
  <2>2. QED
    BY <1>2, <2>1 DEF ViewInv, SendsNotes
<1>4. CASE EditAllowed(c)
  <2>1. /\ UNCHANGED <<queue, socket>> /\ mixed' = (mixed \/ Clash(c))
        /\ conn' = [conn EXCEPT ![c].step = "checked", ![c].content = edits + 1]
    BY <1>2, <1>4 DEF ReadEdit
  <2>2. /\ conn'[c].step = "checked" /\ conn'[c].content = edits + 1
        /\ \A d \in Connections \ {c} : conn'[d] = conn[d]
    BY <1>1, <2>1
  <2>3. \A d \in Connections : SendsNotes(d)'
    <3>1. SendsNotes(c)'
      BY <2>2 DEF SendsNotes, JoiningSteps
    <3>2. QED
      BY <1>2, <2>2, <3>1 DEF ViewInv, SendsNotes
  <2>4. ASSUME ~mixed'
        PROVE  OneChange' /\ SendsContent' /\ \A d \in Connections : Seen(d)'
    <3>1. /\ ~mixed /\ ~Writing /\ ~Joining /\ ~Unseen(c)
          /\ \A g \in Goroutines \ {c} : ~Sending(g)
      BY <1>1, <2>1, <2>4 DEF Clash
    <3>2. /\ \A g \in Goroutines : ~Sending(g) /\ ~Sending(g)'
          /\ ~Announced /\ ~Announced'
          /\ \A d \in Connections : ~WritingAt(d)
      BY <1>2, <3>1 DEF Sending, Announced, Writing, WritingAt
    <3>3. ~Joining' /\ \A d \in Connections : WritingAt(d)' => d = c
      BY <2>2, <3>1, <3>2 DEF Joining, IsEditor, WritingAt, JoiningSteps
    <3>4. OneChange'
      BY <3>2, <3>3 DEF OneChange
    <3>5. SendsContent'
      BY <2>2, <3>2, <3>3 DEF SendsContent, WritingAt
    <3>6. ASSUME NEW d \in Connections \ {c}
          PROVE  Seen(d)'
      <4>1. Kept(d) /\ Seen(d)
        BY <1>1, <1>2, <2>1, <3>1, SameIsKept DEF ViewInv
      <4>2. ~Coming(d)
        BY <3>2 DEF Coming, WritingAt
      <4>3. QED
        BY <1>2, <2>2, <4>1, <4>2, SeenStays
    <3>7. Plain(queue[c])
      BY <1>2, <3>1 DEF Unseen, Plain
    <3>8. Bare(c, conn[c].content)'
      BY <1>1, <1>2, <2>1, <2>2, <3>7 DEF Bare
    <3>9. Seen(c)'
      BY <2>2, <3>8 DEF Seen, WritingAt
    <3>10. QED
      BY <3>4, <3>5, <3>6, <3>9
  <2>5. QED
    BY <2>3, <2>4 DEF ViewInv
<1>5. QED
  BY <1>3, <1>4

LEMMA SetContentViews ==
  ASSUME Base, ViewInv, NEW c \in Connections, SetContent(c)
  PROVE  ViewInv'
<1>1. conn \in [Connections -> [step : AllSteps, user : Users \cup {NoUser},
                                kind : {"document", "workspace"}, content : Contents]]
  BY DEF Base, ConnTypes
<1>2. /\ UNCHANGED <<documents, job, plan, queue, view, socket, mixed>>
      /\ conn[c].step = "checked" /\ content' = conn[c].content
      /\ conn' = [conn EXCEPT ![c].step = "stored"]
  BY DEF SetContent, At, Goto, hub, wires
<1>3. /\ conn'[c].step = "stored" /\ conn'[c].content = conn[c].content
      /\ conn'[c].kind = conn[c].kind
      /\ \A d \in Connections \ {c} : conn'[d] = conn[d]
  BY <1>1, <1>2
<1>4. \A d \in Connections : SendsNotes(d)'
  <2>1. SendsNotes(c)'
    BY <1>3 DEF SendsNotes, JoiningSteps
  <2>2. QED
    BY <1>2, <1>3, <2>1 DEF ViewInv, SendsNotes
<1>5. ASSUME ~mixed
      PROVE  OneChange' /\ SendsContent' /\ \A d \in Connections : Seen(d)'
  <2>1. OneChange /\ SendsContent /\ \A d \in Connections : Seen(d)
    BY <1>5 DEF ViewInv
  <2>2. WritingAt(c) /\ WritingAt(c)' /\ \A d \in Connections \ {c} : WritingAt(d)' = WritingAt(d)
    BY <1>2, <1>3 DEF WritingAt
  <2>3. /\ ~Announced /\ ~Joining /\ \A g \in Goroutines : ~Sending(g)
        /\ \A d \in Connections \ {c} : ~WritingAt(d)
    BY <2>1, <2>2 DEF OneChange
  <2>4. ~Announced' /\ ~Joining' /\ \A g \in Goroutines : ~Sending(g)'
    BY <1>2, <1>3, <2>3 DEF Announced, Sending, Joining, IsEditor, JoiningSteps
  <2>5. OneChange'
    BY <2>2, <2>3, <2>4 DEF OneChange
  <2>6. SendsContent'
    BY <1>2, <1>3, <2>2, <2>3, <2>4 DEF SendsContent, WritingAt
  <2>7. ASSUME NEW d \in Connections \ {c}
        PROVE  Seen(d)'
    <3>1. Coming(d)'
      BY <1>3 DEF Coming
    <3>2. ~(conn'[d].step \in JoiningSteps /\ IsEditor(d)')
      BY <2>4 DEF Joining
    <3>3. QED
      BY <2>2, <2>3, <3>1, <3>2 DEF Seen, JoiningSteps
  <2>8. Seen(c)'
    <3>1. c \in documents /\ socket[c] = "open" => Bare(c, conn[c].content)
      BY <2>1, <2>2 DEF Seen
    <3>2. c \in documents' /\ socket'[c] = "open" => Bare(c, conn[c].content)'
      BY <1>2, <1>3, <3>1 DEF Bare
    <3>3. QED
      BY <1>3, <2>2, <3>2 DEF Seen
  <2>9. QED
    BY <2>5, <2>6, <2>7, <2>8
<1>6. QED
  BY <1>2, <1>4, <1>5 DEF ViewInv

LEMMA BroadcastViews ==
  ASSUME Base, ViewInv, NEW c \in Connections, BroadcastDocumentExcept(c)
  PROVE  ViewInv'
<1>1. /\ conn \in [Connections -> [step : AllSteps, user : Users \cup {NoUser},
                                   kind : {"document", "workspace"}, content : Contents]]
      /\ job \in [Goroutines -> Jobs] /\ c \in Goroutines
      /\ content \in Contents /\ Note \notin Contents
  BY NoteAssumption DEF Base, ConnTypes, WireTypes, JobTypes, Jobs, Goroutines, Contents
<1>2. /\ UNCHANGED <<content, documents, plan, queue, view, socket, mixed>>
      /\ conn[c].step = "stored"
      /\ job' = [job EXCEPT ![c] = [NoJob EXCEPT !.to = Others(c), !.msg = conn[c].content]]
      /\ conn' = [conn EXCEPT ![c].step = "reading", ![c].content = 0]
  BY DEF BroadcastDocumentExcept, At, hub, wires, history
<1>3. /\ conn'[c].step = "reading" /\ \A d \in Connections \ {c} : conn'[d] = conn[d]
      /\ job'[c].to = Others(c) /\ job'[c].msg = conn[c].content
      /\ \A g \in Goroutines \ {c} : job'[g] = job[g]
  BY <1>1, <1>2 DEF NoJob
<1>4. \A d \in Connections : SendsNotes(d)'
  <2>1. SendsNotes(c)'
    BY <1>3 DEF SendsNotes, JoiningSteps
  <2>2. QED
    BY <1>3, <2>1 DEF ViewInv, SendsNotes, Goroutines
<1>5. ASSUME ~mixed
      PROVE  OneChange' /\ SendsContent' /\ \A d \in Connections : Seen(d)'
  <2>1. OneChange /\ SendsContent /\ \A d \in Connections : Seen(d)
    BY <1>5 DEF ViewInv
  <2>2. WritingAt(c) /\ conn[c].content = content
    BY <1>2, <2>1 DEF WritingAt, SendsContent
  <2>3. /\ ~Announced /\ ~Joining /\ \A g \in Goroutines : ~Sending(g)
        /\ \A d \in Connections \ {c} : ~WritingAt(d)
    BY <2>1, <2>2 DEF OneChange
  <2>4. /\ ~Announced' /\ \A g \in Goroutines \ {c} : ~Sending(g)'
        /\ \A d \in Connections : ~WritingAt(d)'
    BY <1>2, <1>3, <2>3 DEF Announced, Sending, WritingAt
  <2>5. OneChange'
    BY <2>4 DEF OneChange
  <2>6. SendsContent'
    BY <1>2, <1>3, <2>2, <2>4 DEF SendsContent, WritingAt
  <2>7. ASSUME NEW d \in Connections \ {c}
        PROVE  Seen(d)'
    <3>1. ASSUME d \in documents
          PROVE  Coming(d)'
      <4>1. d \in Others(c)
        BY <3>1 DEF Others, Base, HubSteps
      <4>2. Sending(c)' /\ d \in job'[c].to
        BY <1>1, <1>3, <2>2, <4>1 DEF Sending, IsContent
      <4>3. QED
        BY <1>1, <4>2 DEF Coming
    <3>2. ~(conn[d].step \in JoiningSteps /\ IsEditor(d))
      BY <2>3 DEF Joining
    <3>3. QED
      BY <1>2, <1>3, <2>4, <3>1, <3>2 DEF Seen, IsEditor, JoiningSteps
  <2>8. Seen(c)'
    <3>1. c \in documents /\ socket[c] = "open" => Bare(c, content)
      BY <2>1, <2>2 DEF Seen
    <3>2. c \in documents' /\ socket'[c] = "open" => Shows(c, content)'
      BY <1>2, <3>1 DEF Shows, Bare
    <3>3. QED
      BY <1>3, <2>4, <3>2 DEF Seen
  <2>9. QED
    BY <2>5, <2>6, <2>7, <2>8
<1>6. QED
  BY <1>2, <1>4, <1>5 DEF ViewInv
----------------------------------------------------------------------------
LEMMA ViewInvInit ==
  ASSUME Init
  PROVE  ViewInv
<1>1. \A c \in Connections : conn[c] = Off /\ job[c] = NoJob /\ ~WritingAt(c)
  BY DEF Init, WritingAt, Off
<1>2. ~Announced /\ \A g \in Goroutines : ~Sending(g)
  BY DEF Init, Announced, Sending, NoJob, Goroutines
<1>3. \A c \in Connections : SendsNotes(c)
  BY <1>1 DEF SendsNotes, Off, NoJob
<1>4. OneChange /\ SendsContent
  BY <1>1, <1>2 DEF OneChange, SendsContent, Off
<1>5. \A c \in Connections : Seen(c)
  BY <1>1 DEF Seen, Off, Init
<1>6. QED
  BY <1>3, <1>4, <1>5 DEF ViewInv

LEMMA ViewInvStep ==
  ASSUME Base, ViewInv, [Next]_vars
  PROVE  ViewInv'
<1>1. ASSUME NEW c \in Connections, WritePump(c)
      PROVE  ViewInv'
  <2>1. UNCHANGED <<content, conn, job, plan, documents, mixed>>
    BY <1>1 DEF WritePump, hub, history
  <2>2. QED
    BY <1>1, <2>1, PumpKeeps, WiresMove
<1>2. ASSUME NEW c \in Connections, PeerCloses(c)
      PROVE  ViewInv'
  <2>1. UNCHANGED <<content, conn, job, plan, documents, mixed, queue, view>>
    BY <1>2 DEF PeerCloses, hub, history
  <2>2. \A d \in Connections : socket'[d] = "open" => socket[d] = "open"
    BY <1>2 DEF PeerCloses, Base, WireTypes
  <2>3. QED
    BY <2>1, <2>2, SameIsKept, WiresMove
<1>3. CASE UNCHANGED vars
  <2>1. UNCHANGED <<content, conn, job, plan, documents, mixed, queue, view, socket>>
    BY <1>3 DEF vars, hub, wires, history
  <2>2. QED
    BY <2>1, SameIsKept, WiresMove
<1>4. CASE Elsewhere
  BY <1>1, <1>2, <1>4, DeliverViews, CloseViews, AskViews DEF Elsewhere, Goroutines
<1>5. QED
  BY <1>3, <1>4, PrepareViews, OwnStepViews, ReadEditViews, SetContentViews, BroadcastViews,
     NotifyViews, Cases
----------------------------------------------------------------------------
(***************************************************************************)
(* The theorems.                                                           *)
(***************************************************************************)
Flags == wsOpen \in BOOLEAN /\ docOpen \in BOOLEAN /\ mixed \in BOOLEAN

HubInv == Base /\ Reached /\ Late /\ Sought /\ Flags

LEMMA FlagsStep ==
  ASSUME Flags, [Next]_vars
  PROVE  Flags'
<1>1. CASE ~Ask /\ ~Notify
  <2>1. UNCHANGED <<wsOpen, docOpen>>
    BY <1>1, SameRights
  <2>2. QED
    BY <1>1, <2>1, Cases DEF Flags, Elsewhere, Prepare, Register, Greet, UpgradeFails, Enter,
       ReadEdit, SetContent, BroadcastDocumentExcept, HubUnregister, CleanupClient, WritePump,
       PeerCloses, Deliver, Close, history, vars
<1>2. CASE Ask
  BY <1>2 DEF Ask, Flags, UserLosesAccess, UserGainsAccess, WorkspaceCloses, WorkspaceReopens,
              DeleteDocument, ChangeTitle, RestoreVersion, rights, history
<1>3. CASE Notify
  BY <1>3 DEF Notify, Flags, rights
<1>4. QED
  BY <1>1, <1>2, <1>3

LEMMA HubInvInit ==
  ASSUME Init
  PROVE  HubInv
<1>1. Reached /\ Sought
  BY DEF Init, Reached, Sought, InHub, OnItsWay, Active, JoiningSteps, Off
<1>2. Late
  BY BaseInit DEF Init, Late, Off, Base, ConnTypes
<1>3. Flags
  BY DEF Init, Flags
<1>4. QED
  BY <1>1, <1>2, <1>3, BaseInit DEF HubInv

LEMMA HubInvStep ==
  ASSUME HubInv, [Next]_vars
  PROVE  HubInv'
BY BaseStep, ReachedStep, LateStep, SoughtStep, FlagsStep DEF HubInv

LEMMA HubInvHolds == Spec => []HubInv
BY HubInvInit, HubInvStep, PTL DEF Spec

(***************************************************************************)
(* Every variable keeps its type, the sets of the hub keep their kind of   *)
(* connection and no channel outgrows its capacity (Client.Send and the    *)
(* maps of Hub).                                                           *)
(***************************************************************************)
THEOREM TypeCorrectness == Spec => []TypeOK
<1>1. ASSUME HubInv PROVE TypeOK
  <2>1. Base /\ Late /\ Flags
    BY <1>1 DEF HubInv
  <2>2. late \in [Connections -> 0..MaxEdits]
    BY <2>1, BoundsAssumption DEF Late
  <2>3. QED
    BY <2>1, <2>2 DEF Base, ConnTypes, WireTypes, JobTypes, CountTypes, Flags, TypeOK, AllSteps
<1>2. QED
  BY <1>1, HubInvHolds, PTL

(***************************************************************************)
(* A disconnect forgets nobody: who reads from an open socket is in the    *)
(* hub or about to be closed (Hub.DisconnectDocument drops the whole entry *)
(* and closes the ready clients; Ready is set before Register).            *)
(***************************************************************************)
THEOREM NobodyIsForgotten == Spec => []NoOrphans
<1>1. ASSUME HubInv PROVE NoOrphans
  BY <1>1 DEF HubInv, Reached, NoOrphans, At, Active, InHub, AboutToClose
<1>2. QED
  BY <1>1, HubInvHolds, PTL

(***************************************************************************)
(* Who lost the right to the document is disconnected, unless the          *)
(* disconnect passed while they were on their way into the hub.            *)
(***************************************************************************)
THEOREM OutsidersAreSought == Spec => []NoOutsiderListens
<1>1. ASSUME HubInv PROVE NoOutsiderListens
  <2>1. documents \cup watchers \subseteq Connections
    BY <1>1 DEF HubInv, Base, ConnTypes
  <2>2. QED
    BY <1>1, <2>1 DEF HubInv, Sought, NoOutsiderListens, Covered, InHub
<1>2. QED
  BY <1>1, HubInvHolds, PTL

(***************************************************************************)
(* A connection stores at most one edit after its user lost the right, for *)
(* any number of connections and edits (ApplyDocumentEdit checks access    *)
(* for each edit, then stores it).                                         *)
(***************************************************************************)
THEOREM AtMostOneLateEdit == Spec => []OneLateEdit
<1>1. ASSUME HubInv PROVE OneLateEdit
  BY <1>1 DEF HubInv, Late, OneLateEdit
<1>2. QED
  BY <1>1, HubInvHolds, PTL

(***************************************************************************)
(* Once everything sent has arrived, every browser in the document shows   *)
(* the stored content, if no change met another change or a join, for any  *)
(* number of browsers and edits and any capacity of Client.Send.           *)
(***************************************************************************)
THEOREM BrowsersConverge == Spec => []ViewsConverge
<1>1. Init => Base /\ ViewInv
  BY BaseInit, ViewInvInit
<1>2. Base /\ ViewInv /\ [Next]_vars => Base' /\ ViewInv'
  BY BaseStep, ViewInvStep
<1>3. Base /\ ViewInv => ViewsConverge
  <2> SUFFICES ASSUME Base, ViewInv, Quiet, ~mixed, NEW c \in documents,
                      At(c, "reading"), socket[c] = "open"
               PROVE  view[c] = content
    BY DEF ViewsConverge
  <2>1. /\ c \in Connections /\ DOMAIN job = Goroutines
        /\ content \in Contents /\ Note \notin Contents
    BY NoteAssumption DEF Base, ConnTypes, JobTypes, WireTypes, Goroutines, Contents
  <2>2. Seen(c) /\ ~WritingAt(c)
    BY <2>1 DEF ViewInv, At, WritingAt
  <2>3. ~Coming(c)
    BY <2>1 DEF Quiet, Writing, Coming, Announced
  <2>4. Plain(queue[c])
    BY <2>1 DEF Quiet, Unseen, Plain
  <2>5. Shows(c, content)
    BY <2>2, <2>3 DEF Seen
  <2>6. ~EndsWith(queue[c], content)
    BY <2>1, <2>4 DEF EndsWith, Plain, IsContent
  <2>7. QED
    BY <2>5, <2>6 DEF Shows, Bare
<1>4. QED
  BY <1>1, <1>2, <1>3, PTL DEF Spec
----------------------------------------------------------------------------
(***************************************************************************)
(* Nobody is held up.  ENABLED is out of the provers' reach, so what       *)
(* NobodyWaits asks of the steps is said of their guards here, alternative *)
(* by alternative.                                                         *)
(***************************************************************************)
CanSend(d) == Len(queue[d]) < SendCap \/ Len(queue[d]) = SendCap

CanDeliver(g) == job[g].told = {} /\ \E d \in job[g].to \ job[g].told : CanSend(d)

CanClose(g) == job[g].told # {}

CanWork(c) ==
  \/ At(c, "prepared") \/ At(c, "registered")
  \/ conn[c].step \in {"greeted", "ready"} /\ job[c].to = {}
  \/ At(c, "checked") \/ At(c, "stored")
  \/ At(c, "reading") /\ job[c].to = {} /\ socket[c] = "closed"
  \/ At(c, "cleanup")
  \/ CanDeliver(c)

NobodyIsHeldUp ==
  /\ \A g \in Connections \cup {Request} : job[g].to # {} => CanDeliver(g) \/ CanClose(g)
  /\ \A c \in Connections : socket[c] = "closed" => At(c, "gone") \/ CanWork(c)

\* The steps from the upgrade on.
Upgraded == {"greeted", "ready", "cleanup", "gone"} \cup Active

\* Only a request shuts out, and whoever is sent to or has a socket was upgraded.
Sendable ==
  /\ \A c \in Connections : job[c].told = {} /\ job[c].close = FALSE
  /\ \A g \in Connections \cup {Request} :
       \A c \in job[g].to \cup job[g].told : conn[c].step \in Upgraded
  /\ \A c \in Connections : socket[c] # "none" => conn[c].step \in Upgraded

LEMMA StaysUpgraded ==
  ASSUME Base, [Next]_vars, NEW c \in Connections, conn[c].step \in Upgraded
  PROVE  conn'[c].step \in Upgraded
<1>1. CASE Notify
  BY <1>1, NotifyKeepsConns
<1>2. ASSUME NEW u \in Users, NEW kind \in {"document", "workspace"}, Born(u, kind)
      PROVE  conn'[c].step \in Upgraded
  <2>1. c # begun + 1
    BY <1>2, BornMoves DEF Off, Upgraded, Active
  <2>2. QED
    BY <1>2, <2>1, BornMoves
<1>3. ASSUME NEW d \in Connections, conn[d].step \in {"prepared", "registered"}, Ended(d)
      PROVE  conn'[c].step \in Upgraded
  BY <1>3 DEF Ended, Upgraded, Active, Base, ConnTypes
<1>4. ASSUME NEW d \in Connections, NEW from \in AllSteps, NEW to \in Upgraded, Walks(d, from, to)
      PROVE  conn'[c].step \in Upgraded
  BY <1>4 DEF Walks, MovesTo
<1>5. ASSUME NEW d \in Connections, Walks(d, "prepared", "registered")
      PROVE  conn'[c].step \in Upgraded
  BY <1>5 DEF Walks, MovesTo, Upgraded, Active
<1>6. QED
  BY <1>1, <1>2, <1>3, <1>4, <1>5, Moves DEF ConnMoves, Upgraded, Active, AllSteps, JoiningSteps

\* Everybody in the hub was upgraded.
LEMMA HubIsUpgraded ==
  ASSUME Base
  PROVE  \A c \in documents \cup watchers : c \in Connections /\ conn[c].step \in Upgraded
BY DEF Base, ConnTypes, HubSteps, Upgraded

\* What a step adds to a job comes out of the hub.
LEMMA JobsFromTheHub ==
  ASSUME Base, Sendable, [Next]_vars
  PROVE  /\ \A c \in Connections : job'[c].told = {} /\ job'[c].close = FALSE
         /\ \A g \in Connections \cup {Request} :
              job'[g].to \cup job'[g].told
                \subseteq job[g].to \cup job[g].told \cup documents \cup watchers
<1> DEFINE Goal ==
      /\ \A c \in Connections : job'[c].told = {} /\ job'[c].close = FALSE
      /\ \A g \in Connections \cup {Request} :
           job'[g].to \cup job'[g].told
             \subseteq job[g].to \cup job[g].told \cup documents \cup watchers
<1>1. job \in [Connections \cup {Request} -> Jobs] /\ Request \notin Connections
  BY Sorts DEF Base, JobTypes, Jobs
<1>2. \A c \in Connections : job[c].told = {} /\ job[c].close = FALSE
  BY DEF Sendable
<1>3. ASSUME UNCHANGED job PROVE Goal
  BY <1>2, <1>3
<1>4. ASSUME NEW g \in Connections \cup {Request}, NEW to, NEW told, NEW msg, NEW close,
             job' = [job EXCEPT ![g] = [to |-> to, told |-> told, msg |-> msg, close |-> close]],
             g = Request \/ (told = {} /\ close = FALSE),
             to \cup told \subseteq job[g].to \cup job[g].told \cup documents \cup watchers
      PROVE  Goal
  BY <1>1, <1>2, <1>4
<1>5. ASSUME NEW c \in Connections, Greet(c) PROVE Goal
  <2>1. CASE UNCHANGED job
    BY <1>3, <2>1
  <2>2. CASE job' = [job EXCEPT ![c].to = (documents \cap ready) \ {c}]
    BY <1>1, <1>2, <2>2 DEF Jobs
  <2>3. QED
    BY <1>5, <2>1, <2>2 DEF Greet
<1>6. ASSUME NEW c \in Connections, BroadcastDocumentExcept(c) PROVE Goal
  BY <1>1, <1>2, <1>6 DEF BroadcastDocumentExcept, NoJob, Others, Jobs
<1>7. ASSUME NEW c \in Connections, CleanupClient(c) PROVE Goal
  BY <1>1, <1>2, <1>7 DEF CleanupClient, NoJob, Jobs
<1>8. ASSUME NEW g \in Connections \cup {Request}, Deliver(g) PROVE Goal
  <2>1. PICK c \in job[g].to :
          job' = IF job[g].close THEN [job EXCEPT ![g].told = @ \cup {c}]
                                 ELSE [job EXCEPT ![g].to = @ \ {c}]
    BY <1>8 DEF Deliver
  <2>2. CASE g = Request
    BY <1>1, <1>2, <2>1, <2>2 DEF Jobs
  <2>3. CASE g \in Connections
    BY <1>1, <1>2, <2>1, <2>3 DEF Jobs
  <2>4. QED
    BY <2>2, <2>3
<1>9. ASSUME NEW g \in Connections \cup {Request}, Close(g) PROVE Goal
  <2>1. PICK c \in job[g].told : job' = [job EXCEPT ![g].to = @ \ {c}, ![g].told = @ \ {c}]
    BY <1>9 DEF Close
  <2>2. g = Request
    BY <1>2, <2>1
  <2>3. QED
    BY <1>1, <1>2, <2>1, <2>2 DEF Jobs
<1>10. CASE Notify
  <2>1. job' = [job EXCEPT ![Request] = [to |-> Targets(Head(plan)), told |-> {},
                                         msg |-> Head(plan).msg, close |-> Head(plan).close]]
    BY <1>10 DEF Notify
  <2>2. Targets(Head(plan)) \subseteq documents \cup watchers
    BY DEF Targets
  <2>3. QED
    BY <1>1, <1>4, <2>1, <2>2
<1>11. QED
  <2>1. CASE Elsewhere
    BY <1>3, <1>8, <1>9, <2>1 DEF Elsewhere, WritePump, PeerCloses, Ask, UserLosesAccess,
       UserGainsAccess, WorkspaceCloses, WorkspaceReopens, DeleteDocument, ChangeTitle,
       RestoreVersion, Commit
  <2>2. ASSUME NEW c \in Connections,
               \/ Register(c) \/ UpgradeFails(c) \/ Enter(c) \/ ReadEdit(c)
               \/ SetContent(c) \/ HubUnregister(c)
        PROVE  UNCHANGED job
    BY <2>2 DEF Register, UpgradeFails, Enter, ReadEdit, SetContent, HubUnregister
  <2>3. ASSUME NEW u \in Users, NEW kind \in {"document", "workspace"}, Prepare(u, kind)
        PROVE  UNCHANGED job
    BY <2>3 DEF Prepare
  <2>4. CASE UNCHANGED vars
    BY <1>3, <2>4 DEF vars
  <2>5. QED
    BY <1>3, <1>5, <1>6, <1>7, <1>10, <2>1, <2>2, <2>3, <2>4, Cases

\* A socket is there from the upgrade on.
LEMMA SocketsComeByUpgrade ==
  ASSUME Base, Sendable, [Next]_vars, NEW c \in Connections, socket'[c] # "none"
  PROVE  conn'[c].step \in Upgraded
<1>1. socket \in [Connections -> {"none", "open", "closed"}] /\ ConnTypes
  BY DEF Base, WireTypes
<1>2. ASSUME socket[c] # "none" \/ conn[c].step \in Upgraded PROVE conn'[c].step \in Upgraded
  BY <1>2, StaysUpgraded DEF Sendable
<1>3. ASSUME NEW d \in Connections, NEW msg, TrySend(d, msg), conn[d].step \in Upgraded
      PROVE  socket[c] # "none" \/ conn[c].step \in Upgraded
  BY <1>1, <1>3 DEF TrySend
<1>4. ASSUME NEW d \in Connections, Greet(d) PROVE conn'[c].step \in Upgraded
  <2>1. CASE c = d
    BY <1>1, <1>4, <2>1 DEF Greet, ConnTypes, Upgraded
  <2>2. CASE c # d
    BY <1>1, <1>2, <1>4, <2>2 DEF Greet
  <2>3. QED
    BY <2>1, <2>2
<1>5. ASSUME NEW d \in Connections, ReadEdit(d) PROVE conn'[c].step \in Upgraded
  <2>1. conn[d].step \in Upgraded
    BY <1>5 DEF ReadEdit, At, Upgraded, Active
  <2>2. UNCHANGED socket \/ TrySend(d, Note)
    BY <1>5 DEF ReadEdit
  <2>3. QED
    BY <1>2, <1>3, <2>1, <2>2
<1>6. ASSUME NEW g \in Connections \cup {Request}, Deliver(g) \/ Close(g)
      PROVE  conn'[c].step \in Upgraded
  <2>1. job[g].to \cup job[g].told \subseteq Connections
    BY DEF Base, JobTypes
  <2>2. \A d \in job[g].to \cup job[g].told : conn[d].step \in Upgraded
    BY DEF Sendable
  <2>3. CASE Deliver(g)
    <3>1. PICK d \in job[g].to : TrySend(d, job[g].msg)
      BY <2>3 DEF Deliver
    <3>2. QED
      BY <1>2, <1>3, <2>1, <2>2, <3>1
  <2>4. CASE Close(g)
    <3>1. PICK d \in job[g].told : socket' = [socket EXCEPT ![d] = "closed"]
      BY <2>4 DEF Close
    <3>2. QED
      BY <1>1, <1>2, <2>1, <2>2, <3>1
  <2>5. QED
    BY <1>6, <2>3, <2>4
<1>7. ASSUME NEW d \in Connections, PeerCloses(d) PROVE conn'[c].step \in Upgraded
  BY <1>1, <1>2, <1>7 DEF PeerCloses
<1>8. ASSUME NEW d \in Connections,
             \/ Register(d) \/ UpgradeFails(d) \/ Enter(d) \/ SetContent(d)
             \/ BroadcastDocumentExcept(d) \/ HubUnregister(d) \/ CleanupClient(d) \/ WritePump(d)
      PROVE  UNCHANGED socket
  BY <1>8 DEF Register, UpgradeFails, Enter, SetContent, BroadcastDocumentExcept,
              HubUnregister, CleanupClient, WritePump, wires
<1>9. ASSUME \/ \E u \in Users, kind \in {"document", "workspace"} : Prepare(u, kind)
             \/ Notify \/ Ask \/ UNCHANGED vars
      PROVE  UNCHANGED socket
  BY <1>9 DEF Prepare, Notify, Ask, UserLosesAccess, UserGainsAccess, WorkspaceCloses,
              WorkspaceReopens, DeleteDocument, ChangeTitle, RestoreVersion, Commit, wires, vars
<1>10. QED
  BY <1>2, <1>4, <1>5, <1>6, <1>7, <1>8, <1>9, Cases DEF Elsewhere

LEMMA SendableStep ==
  ASSUME Base, Sendable, [Next]_vars
  PROVE  Sendable'
<1>1. \A g \in Connections \cup {Request} :
        \A c \in job'[g].to \cup job'[g].told : c \in Connections /\ conn[c].step \in Upgraded
  <2>1. \A g \in Connections \cup {Request} : job[g].to \cup job[g].told \subseteq Connections
    BY DEF Base, JobTypes
  <2>2. QED
    BY <2>1, JobsFromTheHub, HubIsUpgraded DEF Sendable
<1>2. \A g \in Connections \cup {Request} :
        \A c \in job'[g].to \cup job'[g].told : conn'[c].step \in Upgraded
  BY <1>1, StaysUpgraded
<1>3. QED
  BY <1>2, JobsFromTheHub, SocketsComeByUpgrade DEF Sendable

(***************************************************************************)
(* Whoever has something to send can send it or close the next client at   *)
(* once, and a connection whose socket is closed can go on to its end      *)
(* (Client.TrySend never waits for room; Hub sends without its lock).      *)
(***************************************************************************)
THEOREM NobodyHasToWait == Spec => []NobodyIsHeldUp
<1>1. Init => Sendable
  BY DEF Init, Sendable, NoJob
<1>2. ASSUME Base, Sendable PROVE NobodyIsHeldUp
  <2>1. ASSUME NEW g \in Connections \cup {Request}, job[g].to # {}
        PROVE  CanDeliver(g) \/ CanClose(g)
    <3>1. \A d \in job[g].to : CanSend(d)
      BY <1>2, BoundsAssumption DEF Base, JobTypes, WireTypes, CanSend
    <3>2. QED
      BY <2>1, <3>1 DEF CanDeliver, CanClose
  <2>2. ASSUME NEW c \in Connections, socket[c] = "closed"
        PROVE  At(c, "gone") \/ CanWork(c)
    <3>1. conn[c].step \in Upgraded
      BY <1>2, <2>2 DEF Sendable
    <3>2. CASE job[c].to = {}
      BY <2>2, <3>1, <3>2 DEF CanWork, At, Upgraded, Active
    <3>3. CASE job[c].to # {}
      BY <1>2, <2>1, <3>3 DEF CanWork, CanClose, Sendable
    <3>4. QED
      BY <3>2, <3>3
  <2>3. QED
    BY <2>1, <2>2 DEF NobodyIsHeldUp
<1>3. Base /\ Sendable /\ [Next]_vars => Sendable'
  BY SendableStep
<1>4. Spec => []Base
  BY BaseInit, BaseStep, PTL DEF Spec
<1>5. QED
  BY <1>1, <1>2, <1>3, <1>4, PTL DEF Spec
----------------------------------------------------------------------------
(***************************************************************************)
(* Sending comes to an end.  Each target is told at most once and, for a   *)
(* disconnect, closed once.                                                *)
(***************************************************************************)
SendsLeft(g) == 2 * Cardinality(job[g].to) - Cardinality(job[g].told)

ToldAreTargets == \A g \in Goroutines : job[g].told \subseteq job[g].to

FewNotifications == Len(plan) \in 0..2

SendingIsBounded ==
  /\ \A g \in Goroutines : SendsLeft(g) \in 0..2 * MaxBegun
  /\ FewNotifications

\* The steps that give a goroutine something to send.
Begins(g) ==
  \/ g = Request /\ Notify
  \/ g \in Connections /\ (Greet(g) \/ BroadcastDocumentExcept(g) \/ CleanupClient(g))

SendingGetsOn ==
  [][/\ \A g \in Goroutines :
          /\ Deliver(g) \/ Close(g) => SendsLeft(g)' < SendsLeft(g)
          /\ SendsLeft(g)' > SendsLeft(g) => Begins(g)
     /\ Notify => Len(plan') < Len(plan)
     /\ Serve /\ ~Notify => plan' = plan
     /\ Len(plan') > Len(plan) => plan = <<>> /\ Ask]_vars

\* Sets of connections can be counted.
LEMMA Counts ==
  ASSUME NEW S \in SUBSET Connections
  PROVE  /\ IsFiniteSet(S) /\ Cardinality(S) \in 0..MaxBegun
         /\ \A c \in S : Cardinality(S \ {c}) = Cardinality(S) - 1
         /\ \A c \in Connections \ S : Cardinality(S \cup {c}) = Cardinality(S) + 1
<1>1. IsFiniteSet(Connections) /\ Cardinality(Connections) = MaxBegun
  BY FS_Interval, BoundsAssumption DEF Connections
<1>2. IsFiniteSet(S) /\ Cardinality(S) <= MaxBegun
  BY <1>1, FS_Subset
<1>3. Cardinality(S) \in Nat
  BY <1>2, FS_CardinalityType
<1>4. \A c \in S : Cardinality(S \ {c}) = Cardinality(S) - 1
  BY <1>2, FS_RemoveElement
<1>5. \A c \in Connections \ S : Cardinality(S \cup {c}) = Cardinality(S) + 1
  BY <1>2, FS_AddElement
<1>6. QED
  BY <1>2, <1>3, <1>4, <1>5, BoundsAssumption

\* A send or a close leaves less to do.
LEMMA SendsShrink ==
  ASSUME Base, ToldAreTargets, NEW g \in Goroutines, Deliver(g) \/ Close(g)
  PROVE  SendsLeft(g)' < SendsLeft(g) /\ job'[g].told \subseteq job'[g].to
<1> DEFINE to == job[g].to
           told == job[g].told
<1>1. /\ job \in [Goroutines -> Jobs]
      /\ to \in SUBSET Connections /\ told \in SUBSET to
  BY DEF Base, JobTypes, Jobs, Goroutines, ToldAreTargets
<1>2. /\ Cardinality(to) \in Nat /\ Cardinality(told) \in Nat
  BY <1>1, Counts, BoundsAssumption
<1>3. ASSUME NEW c \in to, told = {}, job'[g].told = {c}, job'[g].to = to
      PROVE  SendsLeft(g)' < SendsLeft(g) /\ job'[g].told \subseteq job'[g].to
  <2>1. Cardinality({c}) = Cardinality({}) + 1
    BY <1>1, Counts, {} \cup {c} = {c}
  <2>2. QED
    BY <1>2, <1>3, <2>1 DEF SendsLeft
<1>4. ASSUME NEW c \in to, told = {}, job'[g].told = {}, job'[g].to = to \ {c}
      PROVE  SendsLeft(g)' < SendsLeft(g) /\ job'[g].told \subseteq job'[g].to
  <2>1. Cardinality(to \ {c}) = Cardinality(to) - 1
    BY <1>1, Counts
  <2>2. QED
    BY <1>2, <1>4, <2>1 DEF SendsLeft
<1>5. ASSUME NEW c \in told, job'[g].told = told \ {c}, job'[g].to = to \ {c}
      PROVE  SendsLeft(g)' < SendsLeft(g) /\ job'[g].told \subseteq job'[g].to
  <2>1. Cardinality(to \ {c}) = Cardinality(to) - 1
    BY <1>1, Counts
  <2>2. Cardinality(told \ {c}) = Cardinality(told) - 1
    BY <1>1, Counts
  <2>3. QED
    BY <1>1, <1>2, <1>5, <2>1, <2>2 DEF SendsLeft
<1>6. CASE Deliver(g)
  <2>1. told = {}
    BY <1>6 DEF Deliver
  <2>2. PICK c \in to : job' = IF job[g].close THEN [job EXCEPT ![g].told = @ \cup {c}]
                                            ELSE [job EXCEPT ![g].to = @ \ {c}]
    BY <1>6 DEF Deliver
  <2>3. CASE job[g].close
    BY <1>1, <1>3, <2>1, <2>2, <2>3 DEF Jobs
  <2>4. CASE ~job[g].close
    BY <1>1, <1>4, <2>1, <2>2, <2>4 DEF Jobs
  <2>5. QED
    BY <2>3, <2>4
<1>7. CASE Close(g)
  <2>1. PICK c \in told : job' = [job EXCEPT ![g].to = @ \ {c}, ![g].told = @ \ {c}]
    BY <1>7 DEF Close
  <2>2. QED
    BY <1>1, <1>5, <2>1 DEF Jobs
<1>8. QED
  BY <1>6, <1>7

\* Nobody changes what another goroutine still has to send.
LEMMA OwnJobOnly ==
  ASSUME Base, [Next]_vars, NEW g \in Goroutines
  PROVE  job'[g] = job[g] \/ Deliver(g) \/ Close(g) \/ Begins(g)
<1>1. job \in [Goroutines -> Jobs]
  BY DEF Base, JobTypes, Jobs, Goroutines
<1>2. ASSUME NEW h \in Goroutines,
             \/ Deliver(h) \/ Close(h) \/ Begins(h)
      PROVE  job'[g] = job[g] \/ Deliver(g) \/ Close(g) \/ Begins(g)
  <2>1. CASE h = g
    BY <1>2, <2>1
  <2>2. CASE h # g
    <3>1. job'[g] = job[g]
      BY <1>1, <1>2, <2>2 DEF Deliver, Close, Begins, Notify, Greet, BroadcastDocumentExcept,
                              CleanupClient
    <3>2. QED
      BY <3>1
  <2>3. QED
    BY <2>1, <2>2
<1>3. ASSUME NEW c \in Connections,
             \/ Register(c) \/ UpgradeFails(c) \/ Enter(c) \/ ReadEdit(c) \/ SetContent(c)
             \/ HubUnregister(c) \/ WritePump(c) \/ PeerCloses(c)
      PROVE  UNCHANGED job
  BY <1>3 DEF Register, UpgradeFails, Enter, ReadEdit, SetContent, HubUnregister, WritePump,
              PeerCloses
<1>4. ASSUME \/ \E u \in Users, kind \in {"document", "workspace"} : Prepare(u, kind)
             \/ Ask \/ UNCHANGED vars
      PROVE  UNCHANGED job
  BY <1>4 DEF Prepare, Ask, UserLosesAccess, UserGainsAccess, WorkspaceCloses,
              WorkspaceReopens, DeleteDocument, ChangeTitle, RestoreVersion, Commit, vars
<1>5. QED
  BY <1>2, <1>3, <1>4, Cases DEF Elsewhere, Begins, Goroutines

\* Nobody is told who is not a target.
LEMMA ToldStep ==
  ASSUME Base, Sendable, ToldAreTargets, [Next]_vars
  PROVE  ToldAreTargets'
<1>1. ASSUME NEW c \in Connections PROVE job'[c].told \subseteq job'[c].to
  BY JobsFromTheHub
<1>2. job'[Request].told \subseteq job'[Request].to
  <2>1. CASE job'[Request] = job[Request]
    BY <2>1 DEF ToldAreTargets, Goroutines
  <2>2. CASE Deliver(Request) \/ Close(Request)
    BY <2>2, SendsShrink DEF Goroutines
  <2>3. CASE Notify
    BY <2>3 DEF Notify, Base, JobTypes
  <2>4. QED
    BY <2>1, <2>2, <2>3, OwnJobOnly, Sorts DEF Begins, Goroutines
<1>3. QED
  BY <1>1, <1>2 DEF ToldAreTargets, Goroutines

\* Only a request lengthens the plan, and only an empty one, by at most two.
LEMMA PlanMoves ==
  ASSUME Base, [Next]_vars
  PROVE  \/ plan' = plan /\ ~Notify
         \/ Notify /\ plan # <<>> /\ plan' = Tail(plan)
         \/ Ask /\ plan = <<>> /\ Len(plan') \in 1..2
<1>1. CASE Notify
  BY <1>1 DEF Notify
<1>2. ASSUME Ask PROVE UNCHANGED plan \/ (plan = <<>> /\ Len(plan') \in 1..2)
  BY <1>2 DEF Ask, UserLosesAccess, UserGainsAccess, WorkspaceCloses, WorkspaceReopens,
              DeleteDocument, ChangeTitle, RestoreVersion, Commit
<1>3. ASSUME NEW c \in Connections,
             \/ Register(c) \/ Greet(c) \/ UpgradeFails(c) \/ Enter(c) \/ ReadEdit(c)
             \/ SetContent(c) \/ BroadcastDocumentExcept(c) \/ HubUnregister(c)
             \/ CleanupClient(c) \/ WritePump(c) \/ PeerCloses(c)
      PROVE  UNCHANGED plan
  BY <1>3 DEF Register, Greet, UpgradeFails, Enter, ReadEdit, SetContent,
              BroadcastDocumentExcept, HubUnregister, CleanupClient, WritePump, PeerCloses
<1>4. ASSUME NEW g \in Goroutines, Deliver(g) \/ Close(g)
      PROVE  UNCHANGED plan
  BY <1>4 DEF Deliver, Close
<1>5. ASSUME \/ \E u \in Users, kind \in {"document", "workspace"} : Prepare(u, kind)
             \/ UNCHANGED vars
      PROVE  UNCHANGED plan
  BY <1>5 DEF Prepare, vars
<1>6. QED
  BY <1>1, <1>2, <1>3, <1>4, <1>5, Cases DEF Elsewhere, Goroutines

LEMMA FewStep ==
  ASSUME Base, FewNotifications, [Next]_vars
  PROVE  FewNotifications'
<1>1. plan \in Seq(Notifications)
  BY DEF Base, JobTypes
<1>2. CASE plan' = plan
  BY <1>2 DEF FewNotifications
<1>3. CASE plan # <<>> /\ plan' = Tail(plan)
  <2>1. Len(plan') = Len(plan) - 1 /\ Len(plan) > 0
    BY <1>1, <1>3
  <2>2. QED
    BY <1>1, <2>1 DEF FewNotifications
<1>4. CASE Len(plan') \in 1..2
  BY <1>4 DEF FewNotifications
<1>5. QED
  BY <1>2, <1>3, <1>4, PlanMoves

LEMMA SendingStep ==
  ASSUME Base, ToldAreTargets, [Next]_vars
  PROVE  /\ \A g \in Goroutines :
              /\ Deliver(g) \/ Close(g) => SendsLeft(g)' < SendsLeft(g)
              /\ SendsLeft(g)' > SendsLeft(g) => Begins(g)
         /\ Notify => Len(plan') < Len(plan)
         /\ Serve /\ ~Notify => plan' = plan
         /\ Len(plan') > Len(plan) => plan = <<>> /\ Ask
<1>1. plan \in Seq(Notifications) /\ Request \in Goroutines
  BY DEF Base, JobTypes, Goroutines
<1>2. \A g \in Goroutines : SendsLeft(g) \in Int
  BY Counts, BoundsAssumption DEF Base, JobTypes, Goroutines, SendsLeft
<1>3. \A g \in Goroutines : SendsLeft(g)' \in Int
  BY Counts, BaseStep, BoundsAssumption DEF Base, JobTypes, Goroutines, SendsLeft
<1>4. ASSUME NEW g \in Goroutines, Deliver(g) \/ Close(g)
      PROVE  SendsLeft(g)' < SendsLeft(g)
  BY <1>4, SendsShrink
<1>5. ASSUME NEW g \in Goroutines, SendsLeft(g)' > SendsLeft(g)
      PROVE  Begins(g)
  <2>1. job'[g] # job[g]
    BY <1>2, <1>5 DEF SendsLeft
  <2>2. ~(Deliver(g) \/ Close(g))
    BY <1>2, <1>3, <1>4, <1>5
  <2>3. QED
    BY <2>1, <2>2, OwnJobOnly
<1>6. ASSUME Notify PROVE Len(plan') < Len(plan)
  <2>1. plan # <<>> /\ plan' = Tail(plan)
    BY <1>6 DEF Notify
  <2>2. QED
    BY <1>1, <2>1
<1>7. ASSUME Serve, ~Notify PROVE plan' = plan
  BY <1>7 DEF Serve, Deliver, Close
<1>8. ASSUME Len(plan') > Len(plan) PROVE plan = <<>> /\ Ask
  BY <1>1, <1>6, <1>8, PlanMoves
<1>9. QED
  BY <1>4, <1>5, <1>6, <1>7, <1>8

(***************************************************************************)
(* No goroutine sends for ever: at any time a request has at most two      *)
(* notifications to go and nobody more than two steps for each connection; *)
(* every send and every close lowers that number, only what begins a new   *)
(* notification raises it, for its own goroutine, and no notification is   *)
(* added while a request still has one (Hub.Broadcast... and               *)
(* Hub.Disconnect... send to the snapshot they took, and to nobody who     *)
(* comes after it).                                                        *)
(***************************************************************************)
THEOREM SendingRunsOut == Spec => []SendingIsBounded /\ SendingGetsOn
<1>1. Init => Sendable /\ ToldAreTargets /\ FewNotifications
  BY DEF Init, Sendable, ToldAreTargets, FewNotifications, Goroutines, NoJob
<1>2. Base /\ Sendable /\ ToldAreTargets /\ FewNotifications /\ [Next]_vars
        => ToldAreTargets' /\ FewNotifications'
  BY ToldStep, FewStep
<1>3. ASSUME Base, ToldAreTargets, FewNotifications PROVE SendingIsBounded
  <2>1. ASSUME NEW g \in Goroutines PROVE SendsLeft(g) \in 0..2 * MaxBegun
    <3>1. job[g].to \in SUBSET Connections /\ job[g].told \in SUBSET job[g].to
      BY <1>3 DEF Base, JobTypes, Goroutines, ToldAreTargets
    <3>2. IsFiniteSet(job[g].to) /\ Cardinality(job[g].to) \in 0..MaxBegun
      BY <3>1, Counts
    <3>3. Cardinality(job[g].told) \in Nat /\ Cardinality(job[g].told) <= Cardinality(job[g].to)
      BY <3>1, <3>2, FS_Subset, FS_CardinalityType
    <3>4. QED
      BY <3>2, <3>3, BoundsAssumption DEF SendsLeft
  <2>2. QED
    BY <1>3, <2>1 DEF SendingIsBounded
<1>4. Base /\ ToldAreTargets /\ [Next]_vars =>
        [/\ \A g \in Goroutines :
              /\ Deliver(g) \/ Close(g) => SendsLeft(g)' < SendsLeft(g)
              /\ SendsLeft(g)' > SendsLeft(g) => Begins(g)
         /\ Notify => Len(plan') < Len(plan)
         /\ Serve /\ ~Notify => plan' = plan
         /\ Len(plan') > Len(plan) => plan = <<>> /\ Ask]_vars
  BY SendingStep
<1>5. Spec => []Base
  BY BaseInit, BaseStep, PTL DEF Spec
<1>6. Spec => [](ToldAreTargets /\ FewNotifications)
  <2>1. Base /\ Sendable /\ [Next]_vars => Sendable'
    BY SendableStep
  <2>2. QED
    BY <1>1, <1>2, <1>5, <2>1, PTL DEF Spec
<1>7. QED
  BY <1>3, <1>4, <1>5, <1>6, PTL DEF Spec, SendingGetsOn
=============================================================================
