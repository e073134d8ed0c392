------------------------ MODULE EditorPresenceProofs ------------------------
(***************************************************************************)
(* What holds of EditorPresence for any number of users and connections,   *)
(* any limit, any lifetime of the keys and any number of faults.           *)
(***************************************************************************)
EXTENDS EditorPresence, FiniteSetTheorems, TLAPS

\* The steps at which a connection counts, and those that stand for an editor.
Holding == {"hset", "expire", "open", "rollback"}
Backing == {"hset", "expire", "open", "scard", "hdel"}

Conns == [Connections -> [step : Steps, user : Users \cup {NoUser}]]

KeyTypes ==
  /\ connections \in [Users -> SUBSET Connections]
  /\ sessionTTL \in [Users -> 0..TTL]
  /\ \A u \in Users : connections[u] # {} <=> sessionTTL[u] # 0
  /\ editors \subseteq Users
  /\ editorsTTL \in 0..TTL /\ (editorsTTL # 0 => editors # {})

ConnTypes ==
  /\ conn \in Conns
  /\ sweep \in [step : {"off", "scard", "del"}, user : Users \cup {NoUser}]
  /\ begun \in 0..MaxBegun /\ faults \in Nat
  /\ \A c \in Connections : conn[c].step # "off" => User(c) \in Users
  /\ sweep.step # "off" => sweep.user \in Users
  /\ \A c \in Connections : c > begun =>
       conn[c] = Off /\ \A u \in Users : c \notin connections[u]

\* Redis holds at most Limit connections of a user, and all that are not lost.
Counted ==
  /\ \A u \in Users : Cardinality(connections[u]) <= Limit
  /\ ~lapsed => \A c \in Connections :
       conn[c].step \in Holding => c \in connections[User(c)]

\* Without faults, members of the sets are there, and so is somebody for each editor.
Backed ==
  faults = 0 =>
    /\ \A u \in Users : \A c \in connections[u] :
         User(c) = u /\ conn[c].step \in {"hset", "expire", "open"}
    /\ \A u \in editors : \E c \in Connections : User(c) = u /\ conn[c].step \in Backing

\* Nobody is about to remove an editor who is there.
Listed ==
  ~lapsed /\ ~overlapped /\ faults = 0 =>
    /\ \A c \in Connections : conn[c].step \in {"expire", "open"} => User(c) \in editors
    /\ \A c, d \in Connections :
         conn[c].step = "hdel" /\ User(d) = User(c) => conn[d].step \notin {"expire", "open"}
    /\ \A c \in Connections : conn[c].step = "del" => editors = {}

PresenceInv == KeyTypes /\ ConnTypes /\ Counted /\ Backed /\ Listed
----------------------------------------------------------------------------
LEMMA Sorts ==
  /\ Connections \subseteq Nat \ {0} /\ IsFiniteSet(Connections)
  /\ Off \in [step : Steps, user : Users \cup {NoUser}] /\ Off.step = "off" /\ Off.user = NoUser
BY BoundsAssumption, FS_Interval DEF Connections, Off, Steps

LEMMA GotoMoves ==
  ASSUME conn \in Conns, NEW c \in Connections, NEW to \in Steps, Goto(c, to)
  PROVE  /\ conn' \in Conns /\ conn'[c].step = to /\ conn'[c].user = conn[c].user
         /\ \A d \in Connections \ {c} : conn'[d] = conn[d]
BY DEF Conns, Goto

LEMMA FinishMoves ==
  ASSUME conn \in Conns, NEW c \in Connections, Finish(c)
  PROVE  /\ conn' \in Conns /\ conn'[c] = Off
         /\ \A d \in Connections \ {c} : conn'[d] = conn[d]
BY Sorts DEF Conns, Finish

\* What may happen to the entry of a connection once it exists.
Walks(c, from, to) ==
  /\ conn' \in Conns /\ conn[c].step = from /\ conn'[c].step = to
  /\ conn'[c].user = conn[c].user \/ (to = "off" /\ conn'[c] = Off)
  /\ \A d \in Connections \ {c} : conn'[d] = conn[d]

LEMMA GoWalks ==
  ASSUME conn \in Conns, NEW c \in Connections, NEW from, NEW to \in Steps, At(c, from), Goto(c, to)
  PROVE  Walks(c, from, to)
BY GotoMoves DEF Walks, At

LEMMA FinishWalks ==
  ASSUME conn \in Conns, NEW c \in Connections, NEW from, At(c, from), Finish(c)
  PROVE  Walks(c, from, "off")
BY FinishMoves, Sorts DEF Walks, At

\* The set of a user loses a connection.
LEMMA SRemFacts ==
  ASSUME KeyTypes, NEW u \in Users, NEW c, SRem(u, c)
  PROVE  /\ connections' \in [Users -> SUBSET Connections] /\ sessionTTL' \in [Users -> 0..TTL]
         /\ \A v \in Users : connections'[v] # {} <=> sessionTTL'[v] # 0
         /\ connections'[u] = connections[u] \ {c}
         /\ \A v \in Users \ {u} : connections'[v] = connections[v]
<1>1. CASE connections[u] = {c}
  BY <1>1, BoundsAssumption DEF SRem, KeyTypes
<1>2. CASE connections[u] # {c}
  <2>1. connections[u] # {} <=> connections[u] \ {c} # {}
    BY <1>2
  <2>2. QED
    BY <1>2, <2>1 DEF SRem, KeyTypes
<1>3. QED
  BY <1>1, <1>2
----------------------------------------------------------------------------
(***************************************************************************)
(* The steps of one connection, in the words of the invariants.            *)
(***************************************************************************)
\* The keys of sessions stay.
SameSets == UNCHANGED <<connections, sessionTTL>>

ConnSteps ==
  \E c \in Connections :
    /\ UNCHANGED <<sweep, begun, lapsed>>
    /\ \/ /\ Walks(c, "hset", "expire") /\ SameSets /\ UNCHANGED faults
          /\ editors' = editors \cup {User(c)} /\ UNCHANGED editorsTTL
          /\ overlapped' = (overlapped \/ \E d \in Connections :
               conn[d].step = "del" \/ (conn[d].step = "hdel" /\ User(d) = User(c)))
       \/ /\ Walks(c, "expire", "open") /\ SameSets /\ UNCHANGED <<editors, overlapped, faults>>
          /\ editorsTTL' = IF editors = {} THEN 0 ELSE TTL
       \/ /\ Walks(c, "rollback", "off") /\ SRem(User(c), c)
          /\ UNCHANGED <<editors, editorsTTL, overlapped, faults>>
       \/ /\ Walks(c, "open", "scard") /\ SRem(User(c), c)
          /\ UNCHANGED <<editors, editorsTTL, overlapped, faults>>
       \/ /\ \/ Walks(c, "scard", "refresh") /\ connections[User(c)] # {}
             \/ Walks(c, "scard", "hdel") /\ connections[User(c)] = {}
             \/ Walks(c, "hlen", "refresh")
             \/ Walks(c, "hlen", "del") /\ editors = {}
          /\ SameSets /\ UNCHANGED <<editors, editorsTTL, overlapped, faults>>
       \/ /\ Walks(c, "refresh", "off") /\ SameSets /\ UNCHANGED <<editors, overlapped, faults>>
          /\ editorsTTL' = IF editors = {} THEN editorsTTL ELSE TTL
       \/ /\ Walks(c, "hdel", "hlen") \/ Walks(c, "hdel", "off")
          /\ SameSets /\ UNCHANGED <<overlapped, faults>>
          /\ editors' = editors \ {User(c)}
          /\ editorsTTL' = IF editors' = {} THEN 0 ELSE editorsTTL
       \/ /\ Walks(c, "del", "off") /\ SameSets /\ UNCHANGED <<overlapped, faults>>
          /\ editors' = {} /\ editorsTTL' = 0

\* A fault: some connections end or have to roll back.
FaultSteps ==
  /\ UNCHANGED <<keys, sweep, begun, history>> /\ faults' = faults + 1
  /\ conn' \in Conns
  /\ \A c \in Connections :
       \/ conn'[c] = conn[c] \/ conn'[c] = Off
       \/ conn[c].step \in Holding /\ conn'[c].step = "rollback" /\ conn'[c].user = conn[c].user

LEMMA Moves ==
  ASSUME KeyTypes, ConnTypes, [Next]_vars
  PROVE  \/ ConnSteps \/ FaultSteps \/ Tick
         \/ \E u \in Users : TryAddConnection(u) \/ SweepKey(u)
         \/ SweepCount \/ SweepDelete \/ UNCHANGED vars
<1>1. conn \in Conns
  BY DEF ConnTypes
<1>2. ASSUME NEW c \in Connections, AddEditor(c)
      PROVE  ConnSteps
  <2>1. Walks(c, "hset", "expire")
    BY <1>1, <1>2, GoWalks DEF AddEditor, Steps
  <2>2. QED
    BY <1>2, <2>1 DEF AddEditor, ConnSteps, SameSets, At
<1>3. ASSUME NEW c \in Connections, ExpireEditors(c)
      PROVE  ConnSteps
  <2>1. Walks(c, "expire", "open")
    BY <1>1, <1>3, GoWalks DEF ExpireEditors, Steps
  <2>2. QED
    BY <1>3, <2>1 DEF ExpireEditors, ConnSteps, SameSets, history
<1>4. ASSUME NEW c \in Connections, Rollback(c)
      PROVE  ConnSteps
  <2>1. Walks(c, "rollback", "off")
    BY <1>1, <1>4, FinishWalks DEF Rollback
  <2>2. QED
    BY <1>4, <2>1 DEF Rollback, ConnSteps, history
<1>5. ASSUME NEW c \in Connections, RemoveConnection(c)
      PROVE  ConnSteps
  <2>1. Walks(c, "open", "scard")
    BY <1>1, <1>5, GoWalks DEF RemoveConnection, Steps
  <2>2. QED
    BY <1>5, <2>1 DEF RemoveConnection, ConnSteps, history
<1>6. ASSUME NEW c \in Connections, CountConnections(c)
      PROVE  ConnSteps
  <2>1. \/ Walks(c, "scard", "refresh") /\ connections[User(c)] # {}
        \/ Walks(c, "scard", "hdel") /\ connections[User(c)] = {}
    BY <1>1, <1>6, GoWalks DEF CountConnections, Steps, Remains
  <2>2. UNCHANGED <<keys, sweep, begun, faults, history>>
    BY <1>6 DEF CountConnections
  <2>3. QED
    BY <2>1, <2>2 DEF ConnSteps, SameSets, keys, history
<1>7. ASSUME NEW c \in Connections, RefreshTTL(c)
      PROVE  ConnSteps
  <2>1. Walks(c, "refresh", "off")
    BY <1>1, <1>7, FinishWalks DEF RefreshTTL
  <2>2. QED
    BY <1>7, <2>1 DEF RefreshTTL, ConnSteps, SameSets, history
<1>8. ASSUME NEW c \in Connections, RemoveEditor(c)
      PROVE  ConnSteps
  <2>1. Walks(c, "hdel", "hlen") \/ Walks(c, "hdel", "off")
    BY <1>1, <1>8, GoWalks, FinishWalks DEF RemoveEditor, Steps
  <2>2. QED
    BY <1>8, <2>1 DEF RemoveEditor, ConnSteps, SameSets, history
<1>9. ASSUME NEW c \in Connections, CountEditors(c)
      PROVE  ConnSteps
  <2>1. Walks(c, "hlen", "refresh") \/ (Walks(c, "hlen", "del") /\ editors = {})
    BY <1>1, <1>9, GoWalks DEF CountEditors, Steps
  <2>2. UNCHANGED <<keys, sweep, begun, faults, history>>
    BY <1>9 DEF CountEditors
  <2>3. QED
    BY <2>1, <2>2 DEF ConnSteps, SameSets, keys, history
<1>10. ASSUME NEW c \in Connections, DeleteEditorsKey(c)
       PROVE  ConnSteps
  <2>1. Walks(c, "del", "off")
    BY <1>1, <1>10, FinishWalks DEF DeleteEditorsKey
  <2>2. QED
    BY <1>10, <2>1 DEF DeleteEditorsKey, ConnSteps, SameSets, history
<1>11. ASSUME NEW c \in Connections, CommandFails(c)
       PROVE  FaultSteps
  <2>1. CASE Goto(c, "rollback") /\ conn[c].step \in {"hset", "expire"}
    BY <1>1, <1>11, <2>1, GotoMoves DEF CommandFails, FaultSteps, Holding, Steps
  <2>2. CASE Finish(c)
    BY <1>1, <1>11, <2>2, FinishMoves DEF CommandFails, FaultSteps
  <2>3. QED
    BY <1>11, <2>1, <2>2 DEF CommandFails
<1>12. CASE Crash
  BY <1>1, <1>12, Sorts DEF Crash, FaultSteps, Conns
<1>13. QED
  BY <1>2, <1>3, <1>4, <1>5, <1>6, <1>7, <1>8, <1>9, <1>10, <1>11, <1>12 DEF Next, Step

----------------------------------------------------------------------------
(***************************************************************************)
(* Types.                                                                  *)
(***************************************************************************)
LEMMA UserKnown ==
  ASSUME ConnTypes, NEW c \in Connections, NEW from \in Steps \ {"off"}, NEW to, Walks(c, from, to)
  PROVE  User(c) \in Users /\ c <= begun
BY Sorts DEF ConnTypes, Walks, Off

LEMMA KeyTypesStep ==
  ASSUME KeyTypes, ConnTypes, [Next]_vars
  PROVE  KeyTypes'
<1>1. TTL \in Nat \ {0} /\ MaxBegun \in Nat
  BY BoundsAssumption
<1>2. CASE ConnSteps
  <2>1. PICK c \in Connections :
        \/ /\ Walks(c, "hset", "expire") /\ SameSets
           /\ editors' = editors \cup {User(c)} /\ UNCHANGED editorsTTL
        \/ /\ Walks(c, "expire", "open") /\ SameSets /\ UNCHANGED editors
           /\ editorsTTL' = IF editors = {} THEN 0 ELSE TTL
        \/ /\ Walks(c, "rollback", "off") \/ Walks(c, "open", "scard")
           /\ SRem(User(c), c) /\ UNCHANGED <<editors, editorsTTL>>
        \/ SameSets /\ UNCHANGED <<editors, editorsTTL>>
        \/ /\ Walks(c, "refresh", "off") /\ SameSets /\ UNCHANGED editors
           /\ editorsTTL' = IF editors = {} THEN editorsTTL ELSE TTL
        \/ /\ SameSets /\ editors' = editors \ {User(c)}
           /\ editorsTTL' = IF editors' = {} THEN 0 ELSE editorsTTL
        \/ SameSets /\ editors' = {} /\ editorsTTL' = 0
    BY <1>2 DEF ConnSteps
  <2>2. ASSUME Walks(c, "rollback", "off") \/ Walks(c, "open", "scard"),
               SRem(User(c), c), UNCHANGED <<editors, editorsTTL>>
        PROVE  KeyTypes'
    <3>1. User(c) \in Users
      BY <2>2, UserKnown DEF Steps
    <3>2. QED
      BY <2>2, <3>1, SRemFacts DEF KeyTypes
  <2>3. ASSUME Walks(c, "hset", "expire"), SameSets, editors' = editors \cup {User(c)},
               UNCHANGED editorsTTL
        PROVE  KeyTypes'
    <3>1. User(c) \in Users
      BY <2>3, UserKnown DEF Steps
    <3>2. QED
      BY <2>3, <3>1 DEF KeyTypes, SameSets
  <2>4. ASSUME SameSets, editors' \subseteq editors, editorsTTL' \in 0..TTL,
               editors' = {} => editorsTTL' = 0 \/ (editors = {} /\ editorsTTL' = editorsTTL)
        PROVE  KeyTypes'
    BY <2>4 DEF KeyTypes, SameSets
  <2>5. editorsTTL \in 0..TTL /\ 0 \in 0..TTL /\ TTL \in 0..TTL
    BY <1>1 DEF KeyTypes
  <2>6. ASSUME editors' = editors, SameSets, editorsTTL' = IF editors = {} THEN 0 ELSE TTL
        PROVE  KeyTypes'
    BY <2>4, <2>5, <2>6
  <2>7. ASSUME editors' = editors, SameSets, editorsTTL' = IF editors = {} THEN editorsTTL ELSE TTL
        PROVE  KeyTypes'
    BY <2>4, <2>5, <2>7
  <2>8. ASSUME SameSets, UNCHANGED <<editors, editorsTTL>>
        PROVE  KeyTypes'
    BY <2>8 DEF KeyTypes, SameSets
  <2>9. ASSUME editors' \subseteq editors, SameSets, editorsTTL' = IF editors' = {} THEN 0 ELSE editorsTTL
        PROVE  KeyTypes'
    BY <2>4, <2>5, <2>9
  <2>10. QED
    BY <2>1, <2>2, <2>3, <2>4, <2>5, <2>6, <2>7, <2>8, <2>9
<1>3. CASE FaultSteps \/ SweepCount \/ UNCHANGED vars
  BY <1>3 DEF FaultSteps, SweepCount, vars, keys, KeyTypes
<1>4. CASE Tick
  <2>1. \A u \in Users : /\ connections'[u] = IF sessionTTL[u] = 1 THEN {} ELSE connections[u]
                         /\ sessionTTL'[u] = IF sessionTTL[u] = 0 THEN 0 ELSE sessionTTL[u] - 1
    BY <1>4 DEF Tick, Expiring
  <2>2. \A u \in Users : sessionTTL[u] \in 0..TTL /\ (connections[u] # {} <=> sessionTTL[u] # 0)
    BY DEF KeyTypes
  <2>3. \A u \in Users : sessionTTL'[u] \in 0..TTL /\ (connections'[u] # {} <=> sessionTTL'[u] # 0)
    BY <1>1, <2>1, <2>2
  <2>4. connections' \in [Users -> SUBSET Connections] /\ sessionTTL' \in [Users -> 0..TTL]
    BY <1>1, <1>4, <2>3 DEF Tick, KeyTypes
  <2>5. editors' \subseteq Users /\ editorsTTL' \in 0..TTL /\ (editorsTTL' # 0 => editors' # {})
    BY <1>1, <1>4 DEF Tick, KeyTypes, Expiring
  <2>6. QED
    BY <2>3, <2>4, <2>5 DEF KeyTypes
<1>5. ASSUME NEW u \in Users, TryAddConnection(u)
      PROVE  KeyTypes'
  <2>1. CASE UNCHANGED <<connections, sessionTTL, editors, editorsTTL>>
    BY <2>1 DEF KeyTypes
  <2>2. CASE ~Full(u)
    <3>1. begun + 1 \in Connections
      BY <1>1, <1>5, <2>2 DEF TryAddConnection, ConnTypes, Connections
    <3>2. QED
      BY <1>1, <1>5, <2>2, <3>1 DEF TryAddConnection, Granted, KeyTypes
  <2>3. QED
    BY <1>5, <2>1, <2>2 DEF TryAddConnection, Refused
<1>6. ASSUME NEW u \in Users, SweepKey(u)
      PROVE  KeyTypes'
  BY <1>6 DEF SweepKey, keys, KeyTypes
<1>7. CASE SweepDelete
  <2>1. /\ connections' = [connections EXCEPT ![sweep.user] = {}]
        /\ sessionTTL' = [sessionTTL EXCEPT ![sweep.user] = 0] /\ 0 \in 0..TTL
        /\ UNCHANGED <<editors, editorsTTL>>
    BY <1>1, <1>7 DEF SweepDelete
  <2>2. connections' \in [Users -> SUBSET Connections] /\ sessionTTL' \in [Users -> 0..TTL]
    BY <2>1 DEF KeyTypes
  <2>3. \A u \in Users : connections'[u] # {} <=> sessionTTL'[u] # 0
    BY <2>1 DEF KeyTypes
  <2>4. QED
    BY <2>1, <2>2, <2>3 DEF KeyTypes
<1>8. QED
  BY <1>2, <1>3, <1>4, <1>5, <1>6, <1>7, Moves

LEMMA ConnTypesStep ==
  ASSUME KeyTypes, ConnTypes, [Next]_vars
  PROVE  ConnTypes'
<1>1. MaxBegun \in Nat /\ begun \in Nat
  BY BoundsAssumption DEF ConnTypes
<1>2. ASSUME NEW c \in Connections, NEW from \in Steps \ {"off"}, NEW to, Walks(c, from, to),
             UNCHANGED <<sweep, begun, faults>>, SameSets \/ SRem(User(c), c)
      PROVE  ConnTypes'
  <2>1. User(c) \in Users /\ c <= begun
    BY <1>2, UserKnown
  <2>2. \A u \in Users : connections'[u] \subseteq connections[u]
    BY <1>2, <2>1, SRemFacts DEF SameSets
  <2>3. \A d \in Connections : conn'[d].step # "off" => conn'[d].user \in Users
    BY <1>2, <2>1 DEF Walks, ConnTypes, User, Off
  <2>4. ASSUME NEW d \in Connections, d > begun
        PROVE  conn'[d] = Off /\ \A u \in Users : d \notin connections'[u]
    <3>1. d # c
      BY <1>1, <2>1, <2>4, Sorts
    <3>2. QED
      BY <1>2, <2>2, <2>4, <3>1 DEF Walks, ConnTypes
  <2>5. QED
    BY <1>2, <2>3, <2>4 DEF ConnTypes, Walks, User
<1>3. CASE ConnSteps
  BY <1>2, <1>3 DEF ConnSteps, Steps
<1>4. CASE FaultSteps
  BY <1>4, Sorts DEF FaultSteps, ConnTypes, keys, User, Holding
<1>5. CASE Tick
  <2>1. \A u \in Users : connections'[u] \subseteq connections[u]
    BY <1>5 DEF Tick
  <2>2. UNCHANGED <<conn, sweep, begun, faults>>
    BY <1>5 DEF Tick
  <2>3. QED
    BY <2>1, <2>2 DEF ConnTypes, User
<1>6. ASSUME NEW u \in Users, TryAddConnection(u)
      PROVE  ConnTypes'
  <2>1. CASE UNCHANGED <<connections, conn, begun>>
    BY <1>6, <2>1 DEF TryAddConnection, ConnTypes, User
  <2>2. CASE ~Full(u)
    <3> DEFINE r == [step |-> "hset", user |-> u]
    <3>1. begun + 1 \in Connections /\ begun' = begun + 1 /\ begun < MaxBegun
      BY <1>1, <1>6, <2>2 DEF TryAddConnection, Connections
    <3>2. r \in [step : Steps, user : Users \cup {NoUser}] /\ r.step = "hset" /\ r.user = u
      BY DEF Steps
    <3>3. /\ conn' = [conn EXCEPT ![begun + 1] = r]
          /\ connections' = [connections EXCEPT ![u] = connections[u] \cup {begun + 1}]
          /\ UNCHANGED <<sweep, faults>>
      BY <1>6, <2>2, <3>1 DEF TryAddConnection
    <3> HIDE DEF r
    <3>4. conn' \in Conns /\ \A d \in Connections : conn'[d].step # "off" => conn'[d].user \in Users
      BY <3>1, <3>2, <3>3 DEF ConnTypes, Conns, User
    <3>5. ASSUME NEW d \in Connections, d > begun + 1
          PROVE  conn'[d] = Off /\ \A v \in Users : d \notin connections'[v]
      <4>1. d > begun /\ d # begun + 1
        BY <1>1, <3>5, Sorts
      <4>2. QED
        BY <3>1, <3>3, <4>1 DEF ConnTypes, Conns, KeyTypes
    <3>6. begun' \in 0..MaxBegun
      BY <1>1, <3>1
    <3>7. QED
      BY <3>1, <3>3, <3>4, <3>5, <3>6 DEF ConnTypes, User
  <2>3. QED
    BY <1>6, <2>1, <2>2 DEF TryAddConnection
<1>7. ASSUME NEW u \in Users, SweepKey(u)
      PROVE  ConnTypes'
  BY <1>7 DEF SweepKey, keys, ConnTypes, User
<1>8. CASE SweepCount
  BY <1>8, Sorts DEF SweepCount, keys, ConnTypes, User, Off
<1>9. CASE SweepDelete
  <2>1. \A u \in Users : connections'[u] \subseteq connections[u]
    BY <1>9 DEF SweepDelete, KeyTypes
  <2>2. UNCHANGED <<conn, begun, faults>> /\ sweep' = Off
    BY <1>9 DEF SweepDelete
  <2>3. QED
    BY <2>1, <2>2, Sorts DEF ConnTypes, User, Off
<1>10. CASE UNCHANGED vars
  BY <1>10 DEF vars, keys, ConnTypes, User
<1>11. QED
  BY <1>3, <1>4, <1>5, <1>6, <1>7, <1>8, <1>9, <1>10, Moves

----------------------------------------------------------------------------
(***************************************************************************)
(* The limit: the sets never hold more than Limit, and hold whoever counts *)
(* unless a key was lost.                                                  *)
(***************************************************************************)
LEMMA Smaller ==
  ASSUME KeyTypes, Counted, \A u \in Users : connections'[u] \subseteq connections[u]
  PROVE  \A u \in Users : Cardinality(connections'[u]) <= Limit
<1> SUFFICES ASSUME NEW u \in Users
             PROVE  Cardinality(connections'[u]) <= Limit
  OBVIOUS
<1>1. IsFiniteSet(connections[u])
  BY Sorts, FS_Subset DEF KeyTypes
<1>2. /\ IsFiniteSet(connections'[u])
      /\ Cardinality(connections'[u]) <= Cardinality(connections[u])
  BY <1>1, FS_Subset
<1>3. Cardinality(connections'[u]) \in Nat /\ Cardinality(connections[u]) \in Nat
  BY <1>1, <1>2, FS_CardinalityType
<1>4. QED
  BY <1>2, <1>3, BoundsAssumption DEF Counted

LEMMA CountedStep ==
  ASSUME KeyTypes, ConnTypes, Counted, [Next]_vars
  PROVE  Counted'
<1>1. Limit \in Nat \ {0} /\ begun \in Nat /\ MaxBegun \in Nat
  BY BoundsAssumption DEF ConnTypes
<1>2. ASSUME \A u \in Users : connections'[u] \subseteq connections[u],
             ~lapsed' => ~lapsed /\ \A c \in Connections :
               conn'[c].step \in Holding => /\ conn[c].step \in Holding /\ conn'[c].user = conn[c].user
                                            /\ c \in connections'[User(c)]
      PROVE  Counted'
  BY <1>2, Smaller DEF Counted, User
<1>3. ASSUME NEW c \in Connections, NEW from \in Steps \ {"off"}, NEW to, Walks(c, from, to),
             UNCHANGED lapsed, to \in Holding => from \in Holding /\ SameSets,
             SameSets \/ SRem(User(c), c)
      PROVE  Counted'
  <2>1. User(c) \in Users
    BY <1>3, UserKnown
  <2>2. /\ \A u \in Users : connections'[u] \subseteq connections[u]
        /\ \A d \in Connections \ {c} : \A u \in Users : d \in connections[u] => d \in connections'[u]
    BY <1>3, <2>1, SRemFacts DEF SameSets
  <2>3. ASSUME NEW d \in Connections, conn'[d].step \in Holding, ~lapsed
        PROVE  /\ conn[d].step \in Holding /\ conn'[d].user = conn[d].user
               /\ d \in connections'[User(d)]
    <3>1. conn[d].step \in Holding /\ conn'[d].user = conn[d].user
      BY <1>3, <2>3 DEF Walks, Holding
    <3>2. d \in connections[User(d)] /\ User(d) \in Users
      BY <2>3, <3>1 DEF Counted, ConnTypes, Holding
    <3>3. d = c => SameSets
      BY <1>3, <2>3 DEF Walks
    <3>4. QED
      BY <2>2, <3>1, <3>2, <3>3 DEF SameSets
  <2>4. QED
    BY <1>2, <1>3, <2>2, <2>3
<1>4. CASE ConnSteps
  BY <1>3, <1>4 DEF ConnSteps, Steps, Holding
<1>5. CASE FaultSteps
  BY <1>2, <1>5, Sorts DEF FaultSteps, keys, history, Holding, Counted
<1>6. CASE Tick
  <2>1. \A u \in Users : connections'[u] = IF sessionTTL[u] = 1 THEN {} ELSE connections[u]
    BY <1>6 DEF Tick, Expiring
  <2>2. UNCHANGED conn
    BY <1>6 DEF Tick
  <2>3. ASSUME ~lapsed'
        PROVE  ~lapsed /\ ~\E u \in Users : sessionTTL[u] = 1 /\ InUse(u)
    BY <1>6, <2>3 DEF Tick, Expiring
  <2>4. ASSUME ~lapsed', NEW c \in Connections, conn[c].step \in Holding
        PROVE  c \in connections'[User(c)]
    <3>1. User(c) \in Users /\ c \in connections[User(c)]
      BY <2>3, <2>4 DEF Counted, ConnTypes, Holding
    <3>2. sessionTTL[User(c)] # 1
      BY <2>3, <2>4, <3>1 DEF InUse
    <3>3. QED
      BY <2>1, <3>1, <3>2
  <2>5. QED
    BY <1>2, <2>1, <2>2, <2>3, <2>4
<1>7. ASSUME NEW u \in Users, TryAddConnection(u)
      PROVE  Counted'
  <2>1. CASE UNCHANGED <<connections, conn>>
    BY <1>7, <2>1 DEF TryAddConnection, history, Counted, User
  <2>2. CASE ~Full(u)
    <3> DEFINE r == [step |-> "hset", user |-> u]
    <3>1. begun + 1 \in Connections
      BY <1>1, <1>7, <2>2 DEF TryAddConnection, Connections
    <3>2. r.user = u
      OBVIOUS
    <3>3. /\ conn' = [conn EXCEPT ![begun + 1] = r] /\ UNCHANGED lapsed
          /\ connections' = [connections EXCEPT ![u] = connections[u] \cup {begun + 1}]
      BY <1>7, <2>2 DEF TryAddConnection, history
    <3> HIDE DEF r
    <3>4. Cardinality(connections'[u]) <= Limit
      <4>1. IsFiniteSet(connections[u])
        BY Sorts, FS_Subset DEF KeyTypes
      <4>2. connections'[u] = connections[u] \cup {begun + 1}
        BY <3>3 DEF KeyTypes
      <4>3. Cardinality(connections'[u]) <= Cardinality(connections[u]) + 1
            /\ Cardinality(connections[u]) \in Nat
        BY <4>1, <4>2, FS_AddElement, FS_CardinalityType
      <4>4. ~(Cardinality(connections[u]) >= Limit)
        BY <2>2 DEF Full
      <4>5. Cardinality(connections'[u]) \in Nat
        BY <4>1, <4>2, FS_AddElement, FS_CardinalityType
      <4>6. QED
        BY <1>1, <4>3, <4>4, <4>5
    <3>5. \A v \in Users \ {u} : connections'[v] = connections[v]
      BY <3>3 DEF KeyTypes
    <3>6. ASSUME ~lapsed, NEW c \in Connections, conn'[c].step \in Holding
          PROVE  c \in connections'[conn'[c].user]
      <4>1. CASE c = begun + 1
        BY <3>1, <3>2, <3>3, <4>1 DEF ConnTypes, Conns, KeyTypes
      <4>2. CASE c # begun + 1
        <5>1. conn'[c] = conn[c]
          BY <3>1, <3>3, <4>2 DEF ConnTypes, Conns
        <5>2. c \in connections[User(c)] /\ User(c) \in Users
          BY <3>6, <5>1 DEF Counted, ConnTypes, Holding
        <5>3. QED
          BY <3>3, <5>1, <5>2 DEF User, KeyTypes
      <4>3. QED
        BY <4>1, <4>2
    <3>7. QED
      BY <3>3, <3>4, <3>5, <3>6 DEF Counted, User
  <2>3. QED
    BY <1>7, <2>1, <2>2 DEF TryAddConnection
<1>8. ASSUME NEW u \in Users, SweepKey(u)
      PROVE  Counted'
  BY <1>8 DEF SweepKey, keys, history, Counted, User
<1>9. CASE SweepCount
  BY <1>9 DEF SweepCount, keys, history, Counted, User
<1>10. CASE SweepDelete
  <2>1. /\ \A u \in Users : connections'[u] = IF u = sweep.user THEN {} ELSE connections[u]
        /\ lapsed' = (lapsed \/ InUse(sweep.user)) /\ UNCHANGED conn
    BY <1>10 DEF SweepDelete, KeyTypes
  <2>2. ASSUME ~lapsed', NEW c \in Connections, conn[c].step \in Holding
        PROVE  c \in connections'[User(c)]
    <3>1. User(c) \in Users /\ c \in connections[User(c)]
      BY <2>1, <2>2 DEF Counted, ConnTypes, Holding
    <3>2. User(c) # sweep.user
      BY <2>1, <2>2 DEF InUse
    <3>3. QED
      BY <2>1, <3>1, <3>2
  <2>3. ~lapsed' => ~lapsed
    BY <2>1
  <2>4. \A u \in Users : connections'[u] \subseteq connections[u]
    BY <2>1
  <2>5. QED
    BY <1>2, <2>1, <2>2, <2>3, <2>4
<1>11. CASE UNCHANGED vars
  BY <1>11 DEF vars, keys, history, Counted, User
<1>12. QED
  BY <1>4, <1>5, <1>6, <1>7, <1>8, <1>9, <1>10, <1>11, Moves

----------------------------------------------------------------------------
(***************************************************************************)
(* No ghosts: the last connection of a user to leave finds an empty set.   *)
(***************************************************************************)
Present == {"hset", "expire", "open"}

LEMMA BackedWalk ==
  ASSUME KeyTypes, ConnTypes, Backed, NEW c \in Connections, NEW from, NEW to, Walks(c, from, to),
         UNCHANGED faults,
         \A u \in Users : connections'[u] \subseteq connections[u],
         \A u \in Users : c \in connections'[u] => to \in Present,
         \A u \in editors' : \/ u \in editors
                             \/ u = User(c) /\ to \in Present,
         from \in Backing =>
           \/ to \in Backing
           \/ User(c) \notin editors'
           \/ \E d \in connections[User(c)] : User(c) \in Users /\ d # c
  PROVE  Backed'
<1> SUFFICES ASSUME faults = 0
             PROVE  /\ \A u \in Users : \A d \in connections'[u] :
                         conn'[d].user = u /\ conn'[d].step \in Present
                    /\ \A u \in editors' : \E d \in Connections :
                         conn'[d].user = u /\ conn'[d].step \in Backing
  BY DEF Backed, User, Present
<1>1. /\ conn[c].step = from /\ conn'[c].step = to
      /\ to # "off" => conn'[c].user = conn[c].user
      /\ \A d \in Connections \ {c} : conn'[d] = conn[d]
  BY DEF Walks
<1>2. ASSUME NEW u \in Users, NEW d \in connections'[u]
      PROVE  conn'[d].user = u /\ conn'[d].step \in Present
  <2>1. d \in Connections /\ conn[d].user = u /\ conn[d].step \in Present
    BY <1>2 DEF Backed, KeyTypes, User, Present
  <2>2. QED
    BY <1>1, <1>2, <2>1 DEF Present
<1>3. ASSUME NEW u \in editors'
      PROVE  \E d \in Connections : conn'[d].user = u /\ conn'[d].step \in Backing
  <2>1. CASE u = User(c) /\ to \in Present
    BY <1>1, <2>1 DEF User, Present, Backing
  <2>2. CASE u \in editors
    <3>1. PICK d \in Connections : User(d) = u /\ conn[d].step \in Backing
      BY <2>2 DEF Backed
    <3>2. CASE d # c
      BY <1>1, <3>1, <3>2 DEF User
    <3>3. CASE d = c /\ to \in Backing
      BY <1>1, <3>1, <3>3 DEF User, Backing
    <3>4. ASSUME d = c, NEW e \in connections[User(c)], User(c) \in Users, e # c
          PROVE  \E x \in Connections : conn'[x].user = u /\ conn'[x].step \in Backing
      <4>1. e \in Connections /\ User(e) = User(c) /\ conn[e].step \in Backing
        BY <3>4 DEF Backed, KeyTypes, Backing
      <4>2. QED
        BY <1>1, <3>1, <3>4, <4>1 DEF User
    <3>5. QED
      BY <1>1, <1>3, <3>1, <3>2, <3>3, <3>4
  <2>3. QED
    BY <1>3, <2>1, <2>2
<1>4. QED
  BY <1>2, <1>3

LEMMA BackedStep ==
  ASSUME KeyTypes, ConnTypes, Backed, [Next]_vars
  PROVE  Backed'
<1>1. faults \in Nat /\ begun \in Nat /\ MaxBegun \in Nat
  BY BoundsAssumption DEF ConnTypes
<1>2. ASSUME UNCHANGED <<conn, faults>>, editors' \subseteq editors,
             \A u \in Users : connections'[u] \subseteq connections[u]
      PROVE  Backed'
  BY <1>2 DEF Backed, User
<1>3. CASE ConnSteps
  <2>1. PICK c \in Connections :
        /\ UNCHANGED faults
        /\ \/ Walks(c, "hset", "expire") /\ SameSets /\ editors' = editors \cup {User(c)}
           \/ Walks(c, "expire", "open") /\ SameSets /\ UNCHANGED editors
           \/ Walks(c, "rollback", "off") /\ SRem(User(c), c) /\ UNCHANGED editors
           \/ Walks(c, "open", "scard") /\ SRem(User(c), c) /\ UNCHANGED editors
           \/ /\ Walks(c, "scard", "refresh") /\ connections[User(c)] # {}
              /\ SameSets /\ UNCHANGED editors
           \/ Walks(c, "scard", "hdel") /\ SameSets /\ UNCHANGED editors
           \/ /\ \/ Walks(c, "hlen", "refresh") \/ Walks(c, "hlen", "del")
                 \/ Walks(c, "refresh", "off")
              /\ SameSets /\ UNCHANGED editors
           \/ /\ Walks(c, "hdel", "hlen") \/ Walks(c, "hdel", "off")
              /\ SameSets /\ editors' = editors \ {User(c)}
           \/ Walks(c, "del", "off") /\ SameSets /\ editors' = {}
    BY <1>3 DEF ConnSteps
  <2>2. ASSUME NEW from \in Steps \ {"off"}, NEW to, Walks(c, from, to), SRem(User(c), c)
        PROVE  /\ User(c) \in Users
               /\ \A u \in Users : connections'[u] \subseteq connections[u]
               /\ faults = 0 => \A u \in Users : c \notin connections'[u]
    BY <2>2, UserKnown, SRemFacts DEF Backed
  <2>3. ASSUME faults = 0, NEW u \in Users, c \in connections[u]
        PROVE  conn[c].step \in Present
    BY <2>3 DEF Backed, Present
  <2>4. CASE faults # 0
    BY <2>1, <2>4 DEF Backed
  <2>5. CASE faults = 0
    <3>1. CASE Walks(c, "hset", "expire") /\ SameSets /\ editors' = editors \cup {User(c)}
      BY <2>1, <3>1, BackedWalk DEF SameSets, Present, Backing
    <3>2. CASE Walks(c, "expire", "open") /\ SameSets /\ UNCHANGED editors
      BY <2>1, <3>2, BackedWalk DEF SameSets, Present, Backing
    <3>3. CASE Walks(c, "rollback", "off") /\ SRem(User(c), c) /\ UNCHANGED editors
      <4>1. /\ \A u \in Users : connections'[u] \subseteq connections[u]
            /\ \A u \in Users : c \notin connections'[u]
        BY <2>2, <2>5, <3>3 DEF Steps
      <4>2. QED
        BY <2>1, <3>3, <4>1, BackedWalk DEF Backing
    <3>4. CASE Walks(c, "open", "scard") /\ SRem(User(c), c) /\ UNCHANGED editors
      <4>1. /\ \A u \in Users : connections'[u] \subseteq connections[u]
            /\ \A u \in Users : c \notin connections'[u]
        BY <2>2, <2>5, <3>4 DEF Steps
      <4>2. QED
        BY <2>1, <3>4, <4>1, BackedWalk DEF Backing
    <3>5. CASE Walks(c, "scard", "refresh") /\ connections[User(c)] # {}
               /\ SameSets /\ UNCHANGED editors
      <4>1. User(c) \in Users /\ conn[c].step = "scard"
        BY <3>5, UserKnown DEF Steps, Walks
      <4>2. \A u \in Users : c \notin connections[u]
        BY <2>3, <2>5, <4>1 DEF Present
      <4>3. \E d \in connections[User(c)] : d # c
        BY <3>5, <4>1, <4>2
      <4>4. QED
        BY <2>1, <3>5, <4>1, <4>2, <4>3, BackedWalk DEF SameSets
    <3>6. ASSUME NEW from \in Steps \ Present, NEW to, Walks(c, from, to), SameSets,
                 editors' \subseteq editors,
                 from \in Backing => to \in Backing \/ User(c) \notin editors'
          PROVE  Backed'
      <4>1. \A u \in Users : c \notin connections[u]
        BY <2>3, <2>5, <3>6 DEF Walks
      <4>2. QED
        BY <2>1, <3>6, <4>1, BackedWalk DEF SameSets
    <3>7. CASE Walks(c, "scard", "hdel") /\ SameSets /\ UNCHANGED editors
      BY <3>6, <3>7 DEF Steps, Present, Backing
    <3>8. CASE /\ \/ Walks(c, "hlen", "refresh") \/ Walks(c, "hlen", "del")
                  \/ Walks(c, "refresh", "off")
               /\ SameSets /\ UNCHANGED editors
      BY <3>6, <3>8 DEF Steps, Present, Backing
    <3>9. CASE /\ Walks(c, "hdel", "hlen") \/ Walks(c, "hdel", "off")
               /\ SameSets /\ editors' = editors \ {User(c)}
      BY <3>6, <3>9 DEF Steps, Present, Backing
    <3>10. CASE Walks(c, "del", "off") /\ SameSets /\ editors' = {}
      BY <3>6, <3>10 DEF Steps, Present, Backing
    <3>11. QED
      BY <2>1, <3>1, <3>2, <3>3, <3>4, <3>5, <3>7, <3>8, <3>9, <3>10
  <2>6. QED
    BY <2>4, <2>5
<1>4. CASE FaultSteps
  <2>1. faults' # 0
    BY <1>1, <1>4 DEF FaultSteps
  <2>2. QED
    BY <2>1 DEF Backed
<1>5. CASE Tick
  BY <1>2, <1>5 DEF Tick
<1>6. ASSUME NEW u \in Users, TryAddConnection(u)
      PROVE  Backed'
  <2>1. CASE UNCHANGED <<connections, conn>>
    BY <1>2, <1>6, <2>1 DEF TryAddConnection
  <2>2. CASE ~Full(u)
    <3> DEFINE r == [step |-> "hset", user |-> u]
    <3>1. PICK n \in Connections : n = begun + 1
      BY <1>1, <1>6, <2>2 DEF TryAddConnection, Connections
    <3>2. r.step = "hset" /\ r.user = u
      OBVIOUS
    <3>3. /\ conn' = [conn EXCEPT ![n] = r] /\ UNCHANGED <<faults, editors>>
          /\ connections' = [connections EXCEPT ![u] = connections[u] \cup {n}]
      BY <1>6, <2>2, <3>1 DEF TryAddConnection
    <3> HIDE DEF r
    <3>4. conn[n].step = "off" /\ \A v \in Users : n \notin connections[v]
      BY <1>1, <3>1, Sorts DEF ConnTypes
    <3>5. conn'[n].step = "hset" /\ conn'[n].user = u /\ \A d \in Connections \ {n} : conn'[d] = conn[d]
      BY <3>2, <3>3 DEF ConnTypes, Conns
    <3>6. \A v \in Users : \A d \in connections'[v] : (d = n /\ v = u) \/ d \in connections[v]
      BY <3>3 DEF KeyTypes
    <3>7. ASSUME faults = 0, NEW v \in Users, NEW d \in connections'[v]
          PROVE  conn'[d].user = v /\ conn'[d].step \in Present
      BY <3>4, <3>5, <3>6, <3>7 DEF Backed, Present, User, KeyTypes
    <3>8. ASSUME faults = 0, NEW v \in editors
          PROVE  \E d \in Connections : conn'[d].user = v /\ conn'[d].step \in Backing
      BY <3>4, <3>5, <3>8 DEF Backed, Backing, User
    <3>9. QED
      BY <3>3, <3>7, <3>8 DEF Backed, User, Present
  <2>3. QED
    BY <1>6, <2>1, <2>2 DEF TryAddConnection
<1>7. ASSUME NEW u \in Users, SweepKey(u)
      PROVE  Backed'
  BY <1>2, <1>7 DEF SweepKey, keys
<1>8. CASE SweepCount \/ UNCHANGED vars
  BY <1>2, <1>8 DEF SweepCount, vars, keys
<1>9. CASE SweepDelete
  BY <1>2, <1>9 DEF SweepDelete, KeyTypes
<1>10. QED
  BY <1>3, <1>4, <1>5, <1>6, <1>7, <1>8, <1>9, Moves
----------------------------------------------------------------------------
(***************************************************************************)
(* Listed: who has the document open is in the hash of editors.            *)
(***************************************************************************)
LEMMA ListedStep ==
  ASSUME KeyTypes, ConnTypes, Counted, Listed, [Next]_vars
  PROVE  Listed'
<1>1. faults \in Nat /\ begun \in Nat /\ MaxBegun \in Nat
  BY BoundsAssumption DEF ConnTypes
<1>2. ASSUME UNCHANGED <<conn, faults, overlapped, editors>>, ~lapsed' => ~lapsed
      PROVE  Listed'
  BY <1>2 DEF Listed, User
<1>3. CASE ConnSteps
  <2>1. PICK c \in Connections :
        /\ UNCHANGED <<lapsed, faults>>
        /\ \/ /\ Walks(c, "hset", "expire") /\ editors' = editors \cup {User(c)}
              /\ overlapped' = (overlapped \/ \E d \in Connections :
                   conn[d].step = "del" \/ (conn[d].step = "hdel" /\ User(d) = User(c)))
           \/ Walks(c, "expire", "open") /\ UNCHANGED <<editors, overlapped>>
           \/ /\ Walks(c, "scard", "hdel") /\ connections[User(c)] = {}
              /\ UNCHANGED <<editors, overlapped>>
           \/ /\ Walks(c, "hlen", "del") /\ editors = {} /\ UNCHANGED <<editors, overlapped>>
           \/ /\ \/ Walks(c, "rollback", "off") \/ Walks(c, "open", "scard")
                 \/ Walks(c, "scard", "refresh") \/ Walks(c, "hlen", "refresh")
                 \/ Walks(c, "refresh", "off")
              /\ UNCHANGED <<editors, overlapped>>
           \/ /\ Walks(c, "hdel", "hlen") \/ Walks(c, "hdel", "off")
              /\ UNCHANGED overlapped /\ editors' = editors \ {User(c)}
           \/ Walks(c, "del", "off") /\ UNCHANGED overlapped /\ editors' = {}
    BY <1>3 DEF ConnSteps
  <2> SUFFICES ASSUME ~lapsed, ~overlapped', faults = 0
               PROVE  Listed'
    BY <2>1 DEF Listed
  <2>2. ~overlapped
    BY <2>1
  <2>3. /\ \A x \in Connections : conn[x].step \in {"expire", "open"} => User(x) \in editors
        /\ \A x, y \in Connections :
             conn[x].step = "hdel" /\ User(y) = User(x) => conn[y].step \notin {"expire", "open"}
        /\ \A x \in Connections : conn[x].step = "del" => editors = {}
    BY <2>2 DEF Listed
  <2>4. CASE Walks(c, "hset", "expire") /\ editors' = editors \cup {User(c)}
             /\ ~\E d \in Connections :
                  conn[d].step = "del" \/ (conn[d].step = "hdel" /\ User(d) = User(c))
    BY <2>3, <2>4 DEF Walks, Listed, User
  <2>5. CASE Walks(c, "expire", "open") /\ UNCHANGED editors
    BY <2>3, <2>5 DEF Walks, Listed, User
  <2>6. CASE Walks(c, "scard", "hdel") /\ connections[User(c)] = {} /\ UNCHANGED editors
    <3>1. ASSUME NEW y \in Connections, User(y) = User(c)
          PROVE  conn[y].step \notin {"expire", "open"}
      BY <2>6, <3>1 DEF Counted, Holding
    <3>2. QED
      BY <2>3, <2>6, <3>1 DEF Walks, Listed, User
  <2>7. CASE Walks(c, "hlen", "del") /\ editors = {} /\ UNCHANGED editors
    BY <2>3, <2>7 DEF Walks, Listed, User
  <2>8. ASSUME NEW from, NEW to \in {"off", "scard", "refresh"}, Walks(c, from, to), UNCHANGED editors
        PROVE  Listed'
    BY <2>3, <2>8 DEF Walks, Listed, User
  <2>9. ASSUME NEW to \in {"hlen", "off"}, Walks(c, "hdel", to), editors' = editors \ {User(c)}
        PROVE  Listed'
    BY <2>3, <2>9 DEF Walks, Listed, User
  <2>10. CASE Walks(c, "del", "off") /\ editors' = {}
    BY <2>3, <2>10 DEF Walks, Listed, User
  <2>11. QED
    BY <2>1, <2>4, <2>5, <2>6, <2>7, <2>8, <2>9, <2>10
<1>4. CASE FaultSteps
  <2>1. faults' # 0
    BY <1>1, <1>4 DEF FaultSteps
  <2>2. QED
    BY <2>1 DEF Listed
<1>5. CASE Tick
  <2>1. /\ UNCHANGED <<conn, faults, overlapped>>
        /\ editors' = IF editorsTTL = 1 THEN {} ELSE editors
        /\ ~lapsed' => ~lapsed /\ ~(editorsTTL = 1 /\ \E u \in Users : InUse(u))
    BY <1>5 DEF Tick, Expiring
  <2>2. CASE \E u \in Users : InUse(u)
    BY <1>2, <2>1, <2>2 DEF Listed, User
  <2>3. CASE ~\E u \in Users : InUse(u)
    <3>1. \A c \in Connections : conn[c].step = "off"
      BY <2>3 DEF InUse, ConnTypes
    <3>2. QED
      BY <2>1, <3>1 DEF Listed
  <2>4. QED
    BY <2>2, <2>3
<1>6. ASSUME NEW u \in Users, TryAddConnection(u)
      PROVE  Listed'
  <2>1. CASE UNCHANGED <<connections, conn>>
    BY <1>2, <1>6, <2>1 DEF TryAddConnection, history
  <2>2. CASE ~Full(u)
    <3> DEFINE r == [step |-> "hset", user |-> u]
    <3>1. PICK n \in Connections : n = begun + 1
      BY <1>1, <1>6, <2>2 DEF TryAddConnection, Connections
    <3>2. r.step = "hset"
      OBVIOUS
    <3>3. conn' = [conn EXCEPT ![n] = r] /\ UNCHANGED <<faults, editors, lapsed, overlapped>>
      BY <1>6, <2>2, <3>1 DEF TryAddConnection, history
    <3> HIDE DEF r
    <3>4. conn'[n].step = "hset" /\ \A d \in Connections \ {n} : conn'[d] = conn[d]
      BY <3>2, <3>3 DEF ConnTypes, Conns
    <3>5. QED
      BY <3>3, <3>4 DEF Listed, User
  <2>3. QED
    BY <1>6, <2>1, <2>2 DEF TryAddConnection
<1>7. ASSUME NEW u \in Users, SweepKey(u)
      PROVE  Listed'
  BY <1>2, <1>7 DEF SweepKey, keys, history
<1>8. CASE SweepCount \/ UNCHANGED vars
  BY <1>2, <1>8 DEF SweepCount, vars, keys, history
<1>9. CASE SweepDelete
  BY <1>2, <1>9 DEF SweepDelete
<1>10. QED
  BY <1>3, <1>4, <1>5, <1>6, <1>7, <1>8, <1>9, Moves
----------------------------------------------------------------------------
(***************************************************************************)
(* The theorems.                                                           *)
(***************************************************************************)
Flags == lapsed \in BOOLEAN /\ overlapped \in BOOLEAN

LEMMA FlagsStep ==
  ASSUME Flags, [Next]_vars
  PROVE  Flags'
BY DEF Flags, Next, Step, TryAddConnection, AddEditor, ExpireEditors, Rollback, RemoveConnection,
   CountConnections, RefreshTTL, RemoveEditor, CountEditors, DeleteEditorsKey, CommandFails,
   Crash, Tick, SweepKey, SweepCount, SweepDelete, history, vars

LEMMA PresenceInit ==
  ASSUME Init
  PROVE  PresenceInv /\ Flags
<1>1. KeyTypes
  BY BoundsAssumption DEF Init, KeyTypes
<1>2. ConnTypes
  BY BoundsAssumption, Sorts DEF Init, ConnTypes, Conns, User
<1>3. Counted
  <2>1. \A u \in Users : connections[u] = {} /\ Cardinality({}) = 0
    BY FS_EmptySet DEF Init
  <2>2. \A u \in Users : Cardinality(connections[u]) <= Limit
    BY <2>1, BoundsAssumption
  <2>3. \A c \in Connections : conn[c].step \notin Holding
    BY Sorts DEF Init, Holding
  <2>4. QED
    BY <2>2, <2>3 DEF Counted
<1>4. Backed /\ Listed
  BY Sorts DEF Init, Backed, Listed
<1>5. QED
  BY <1>1, <1>2, <1>3, <1>4 DEF PresenceInv, Init, Flags

LEMMA PresenceStep ==
  ASSUME PresenceInv, [Next]_vars
  PROVE  PresenceInv'
BY KeyTypesStep, ConnTypesStep, CountedStep, BackedStep, ListedStep DEF PresenceInv

LEMMA PresenceHolds == Spec => [](PresenceInv /\ Flags)
BY PresenceInit, PresenceStep, FlagsStep, PTL DEF Spec

(***************************************************************************)
(* Every variable keeps its type, and a set of connections has an expiry   *)
(* as long as it is there (the script sets it in the same step, and SREM   *)
(* removes the key with its last member).                                  *)
(***************************************************************************)
THEOREM TypeCorrectness == Spec => []TypeOK
<1>1. ASSUME PresenceInv /\ Flags PROVE TypeOK
  BY <1>1, BoundsAssumption DEF PresenceInv, KeyTypes, ConnTypes, Conns, Flags, TypeOK
<1>2. QED
  BY <1>1, PresenceHolds, PTL

(***************************************************************************)
(* While no key in use is lost, no user has more than Limit connections to *)
(* a document, on any number of servers (TryAddConnection counts and adds  *)
(* in one script).                                                         *)
(***************************************************************************)
THEOREM LimitHolds == Spec => []ConnectionLimit
<1>1. ASSUME PresenceInv PROVE ConnectionLimit
  <2> SUFFICES ASSUME ~lapsed, NEW u \in Users
               PROVE  Cardinality({c \in Connections : User(c) = u /\ conn[c].step \in Holding}) <= Limit
    BY DEF ConnectionLimit, Holding
  <2> DEFINE S == {c \in Connections : User(c) = u /\ conn[c].step \in Holding}
  <2>1. S \subseteq connections[u] /\ connections[u] \subseteq Connections
    BY <1>1 DEF PresenceInv, Counted, KeyTypes
  <2>2. IsFiniteSet(connections[u])
    BY <2>1, Sorts, FS_Subset
  <2>3. IsFiniteSet(S) /\ Cardinality(S) <= Cardinality(connections[u])
    BY <2>1, <2>2, FS_Subset
  <2>4. Cardinality(S) \in Nat /\ Cardinality(connections[u]) \in Nat
    BY <2>2, <2>3, FS_CardinalityType
  <2>5. Cardinality(connections[u]) <= Limit
    BY <1>1 DEF PresenceInv, Counted
  <2> HIDE DEF S
  <2>6. Cardinality(S) <= Limit
    BY <2>3, <2>4, <2>5, BoundsAssumption
  <2>7. QED
    BY <2>6 DEF S
<1>2. QED
  BY <1>1, PresenceHolds, PTL

(***************************************************************************)
(* Without faults nobody stays listed as an editor after the last of their *)
(* connections is dealt with, however leaving and joining interleave.      *)
(***************************************************************************)
THEOREM NoGhosts == Spec => []NoGhostEditor
<1>1. ASSUME PresenceInv PROVE NoGhostEditor
  BY <1>1 DEF PresenceInv, Backed, NoGhostEditor, InUse
<1>2. QED
  BY <1>1, PresenceHolds, PTL

(***************************************************************************)
(* Who has the document open is listed, except after a lost key, a fault or*)
(* a join that overlapped a removal (the only three ways).                 *)
(***************************************************************************)
THEOREM OpenMeansListed == Spec => []OpenIsListed
<1>1. ASSUME PresenceInv PROVE OpenIsListed
  BY <1>1 DEF PresenceInv, Listed, OpenIsListed, At
<1>2. QED
  BY <1>1, PresenceHolds, PTL
----------------------------------------------------------------------------
(***************************************************************************)
(* A lockout wears off: as long as it lasts the set of connections has an  *)
(* expiry, no step puts it off, and every tick brings it nearer.           *)
(***************************************************************************)
WearsOff(u) ==
  LockedOut(u) =>
    /\ sessionTTL[u] > 0
    /\ LockedOut(u)' => sessionTTL'[u] <= sessionTTL[u] /\ (Tick => sessionTTL'[u] < sessionTTL[u])

LockoutWearsOff == [][\A u \in Users : WearsOff(u)]_vars

LEMMA ExpiryNotPutOff ==
  ASSUME PresenceInv, [Next]_vars, NEW u \in Users, LockedOut(u)
  PROVE  sessionTTL'[u] <= sessionTTL[u]
<1>1. sessionTTL \in [Users -> 0..TTL] /\ connections \in [Users -> SUBSET Connections]
      /\ sessionTTL[u] \in Nat
  BY BoundsAssumption DEF PresenceInv, KeyTypes
<1>2. ASSUME UNCHANGED sessionTTL \/ sessionTTL'[u] = 0 PROVE sessionTTL'[u] <= sessionTTL[u]
  BY <1>1, <1>2
<1>3. ASSUME NEW v \in Users, TryAddConnection(v) PROVE sessionTTL'[u] <= sessionTTL[u]
  <2>1. CASE Full(v)
    BY <1>2, <1>3, <2>1 DEF TryAddConnection, Refused
  <2>2. CASE ~Full(v)
    <3>1. v # u /\ sessionTTL' = [sessionTTL EXCEPT ![v] = TTL]
      BY <1>3, <2>2 DEF TryAddConnection, Granted, LockedOut
    <3>2. QED
      BY <1>1, <3>1
  <2>3. QED
    BY <2>1, <2>2
<1>4. ASSUME NEW c \in Connections, Rollback(c) \/ RemoveConnection(c)
      PROVE  sessionTTL'[u] <= sessionTTL[u]
  <2>1. sessionTTL' = sessionTTL \/ sessionTTL' = [sessionTTL EXCEPT ![User(c)] = 0]
    BY <1>4 DEF Rollback, RemoveConnection, SRem
  <2>2. QED
    BY <1>1, <2>1
<1>5. CASE Tick
  BY <1>1, <1>5 DEF Tick
<1>6. CASE SweepDelete
  BY <1>1, <1>6 DEF SweepDelete
<1>7. ASSUME NEW c \in Connections,
             \/ AddEditor(c) \/ ExpireEditors(c) \/ CountConnections(c) \/ RefreshTTL(c)
             \/ RemoveEditor(c) \/ CountEditors(c) \/ DeleteEditorsKey(c) \/ CommandFails(c)
      PROVE  UNCHANGED sessionTTL
  BY <1>7 DEF AddEditor, ExpireEditors, CountConnections, RefreshTTL, RemoveEditor,
              CountEditors, DeleteEditorsKey, CommandFails, keys
<1>8. ASSUME Crash \/ (\E v \in Users : SweepKey(v)) \/ SweepCount \/ UNCHANGED vars
      PROVE  UNCHANGED sessionTTL
  BY <1>8 DEF Crash, SweepKey, SweepCount, keys, vars
<1>9. QED
  BY <1>2, <1>3, <1>4, <1>5, <1>6, <1>7, <1>8 DEF Next, Step

(***************************************************************************)
(* Why a lockout ends: only the clock of Redis has to go on for the last   *)
(* connection of a crashed server to be forgotten (refused attempts of     *)
(* TryAddConnection do not touch the expiry).                              *)
(***************************************************************************)
THEOREM LockoutsWearOff == Spec => LockoutWearsOff
<1>1. ASSUME PresenceInv, [Next]_vars, NEW u \in Users PROVE WearsOff(u)
  <2> SUFFICES ASSUME LockedOut(u)
               PROVE  /\ sessionTTL[u] > 0
                      /\ sessionTTL'[u] <= sessionTTL[u]
                      /\ Tick => sessionTTL'[u] < sessionTTL[u]
    BY DEF WearsOff
  <2>1. sessionTTL[u] \in Nat /\ (connections[u] # {} <=> sessionTTL[u] # 0)
    BY <1>1, BoundsAssumption DEF PresenceInv, KeyTypes
  <2>2. connections[u] # {}
    BY FS_EmptySet, BoundsAssumption DEF LockedOut, Full
  <2>3. sessionTTL[u] > 0
    BY <2>1, <2>2
  <2>4. Tick => sessionTTL'[u] < sessionTTL[u]
    BY <2>1, <2>3 DEF Tick
  <2>5. QED
    BY <1>1, <2>3, <2>4, ExpiryNotPutOff
<1>2. PresenceInv /\ [Next]_vars => [\A u \in Users : WearsOff(u)]_vars
  BY <1>1
<1>3. QED
  BY <1>2, PresenceHolds, PTL DEF Spec, LockoutWearsOff
----------------------------------------------------------------------------
(***************************************************************************)
(* A handler comes to its end: how many commands it has to go, by the step *)
(* its connection is at.  An open connection has to count and be removed.  *)
(***************************************************************************)
CommandsAfter(step) ==
  CASE step = "hset" -> 7
    [] step = "expire" -> 6
    [] step = "open" -> 5
    [] step = "scard" -> 4
    [] step = "hdel" -> 3
    [] step = "hlen" -> 2
    [] step \in {"refresh", "del", "rollback"} -> 1
    [] step = "off" -> 0

StepsLeft(c) == CommandsAfter(conn[c].step)

HandlersGetOn ==
  [][\A c \in Connections :
       /\ StepsLeft(c) \in 0..7
       /\ Step(c) \/ RemoveConnection(c) \/ CommandFails(c) => StepsLeft(c)' < StepsLeft(c)
       /\ StepsLeft(c)' > StepsLeft(c) =>
            c = begun + 1 /\ \E u \in Users : TryAddConnection(u)]_vars

LEMMA CommandsBounded ==
  ASSUME NEW step \in Steps
  PROVE  CommandsAfter(step) \in 0..7 /\ (CommandsAfter(step) = 0 <=> step = "off")
BY DEF Steps, CommandsAfter

\* Who is nowhere has no user either.
OffIsOff == \A c \in Connections : At(c, "off") => conn[c] = Off

LEMMA OffStep ==
  ASSUME conn \in Conns, OffIsOff, [Next]_vars
  PROVE  OffIsOff'
<1> SUFFICES ASSUME NEW d \in Connections, conn'[d].step = "off"
             PROVE  conn'[d] = Off
  BY DEF OffIsOff, At
<1>1. ASSUME conn'[d] = conn[d] PROVE conn'[d] = Off
  BY <1>1 DEF OffIsOff, At
<1>2. ASSUME NEW c \in Connections, NEW to \in Steps \ {"off"}, Goto(c, to)
      PROVE  conn'[d] = Off
  BY <1>1, <1>2, GotoMoves
<1>3. ASSUME NEW c \in Connections, Finish(c)
      PROVE  conn'[d] = Off
  BY <1>1, <1>3, FinishMoves
<1>4. ASSUME NEW c \in Connections
      PROVE  /\ AddEditor(c) => Goto(c, "expire")
             /\ ExpireEditors(c) => Goto(c, "open")
             /\ RemoveConnection(c) => Goto(c, "scard")
             /\ CountConnections(c) => Goto(c, "refresh") \/ Goto(c, "hdel")
             /\ RemoveEditor(c) => Goto(c, "hlen") \/ Finish(c)
             /\ CountEditors(c) => Goto(c, "del") \/ Goto(c, "refresh")
             /\ CommandFails(c) => Goto(c, "rollback") \/ Finish(c)
             /\ Rollback(c) \/ RefreshTTL(c) \/ DeleteEditorsKey(c) => Finish(c)
  BY DEF AddEditor, ExpireEditors, RemoveConnection, CountConnections, RemoveEditor,
         CountEditors, CommandFails, Rollback, RefreshTTL, DeleteEditorsKey
<1>5. ASSUME NEW c \in Connections, Step(c) \/ RemoveConnection(c) \/ CommandFails(c)
      PROVE  conn'[d] = Off
  BY <1>2, <1>3, <1>4, <1>5 DEF Step, Steps
<1>6. ASSUME NEW u \in Users, TryAddConnection(u) PROVE conn'[d] = Off
  <2>1. conn'[d] = conn[d] \/ conn'[d].step = "hset"
    BY <1>6 DEF TryAddConnection, Conns
  <2>2. QED
    BY <1>1, <2>1
<1>7. ASSUME Crash PROVE conn'[d] = Off
  BY <1>1, <1>7 DEF Crash
<1>8. ASSUME \/ Tick \/ (\E u \in Users : SweepKey(u)) \/ SweepCount \/ SweepDelete
             \/ UNCHANGED vars
      PROVE  conn'[d] = Off
  BY <1>1, <1>8 DEF Tick, SweepKey, SweepCount, SweepDelete, vars
<1>9. QED
  BY <1>5, <1>6, <1>7, <1>8 DEF Next

\* A command, failed or not, is done once.
LEMMA StepsShrink ==
  ASSUME conn \in Conns, OffIsOff, NEW c \in Connections,
         Step(c) \/ RemoveConnection(c) \/ CommandFails(c)
  PROVE  /\ StepsLeft(c)' < StepsLeft(c)
         /\ \A d \in Connections \ {c} : conn'[d] = conn[d]
<1>1. ASSUME NEW from \in Steps, NEW to \in Steps, At(c, from), Goto(c, to),
             <<from, to>> \in {<<"hset", "expire">>, <<"expire", "open">>, <<"open", "scard">>,
                               <<"scard", "refresh">>, <<"scard", "hdel">>, <<"hdel", "hlen">>,
                               <<"hlen", "del">>, <<"hlen", "refresh">>,
                               <<"hset", "rollback">>, <<"expire", "rollback">>}
      PROVE  /\ StepsLeft(c)' < StepsLeft(c)
             /\ \A d \in Connections \ {c} : conn'[d] = conn[d]
  <2>1. conn'[c].step = to /\ conn[c].step = from
    BY <1>1, GotoMoves DEF At
  <2>2. StepsLeft(c)' < StepsLeft(c)
    BY <1>1, <2>1 DEF StepsLeft, CommandsAfter
  <2>3. QED
    BY <1>1, <2>2, GotoMoves
<1>2. ASSUME ~At(c, "off"), Finish(c)
      PROVE  /\ StepsLeft(c)' < StepsLeft(c)
             /\ \A d \in Connections \ {c} : conn'[d] = conn[d]
  <2>1. StepsLeft(c) \in 0..7 /\ StepsLeft(c) # 0
    BY <1>2, CommandsBounded DEF Conns, StepsLeft, At
  <2>2. StepsLeft(c)' = 0
    BY <1>2, FinishMoves DEF Off, StepsLeft, CommandsAfter
  <2>3. QED
    BY <1>2, <2>1, <2>2, FinishMoves
<1>3. CASE Step(c) \/ RemoveConnection(c)
  <2>1. CASE Rollback(c) \/ RefreshTTL(c) \/ DeleteEditorsKey(c)
    <3>1. ~At(c, "off") /\ Finish(c)
      BY <2>1 DEF Rollback, RefreshTTL, DeleteEditorsKey, At
    <3>2. QED
      BY <1>2, <3>1
  <2>2. CASE RemoveEditor(c)
    <3>1. At(c, "hdel") /\ (Goto(c, "hlen") \/ Finish(c))
      BY <2>2 DEF RemoveEditor
    <3>2. QED
      BY <1>1, <1>2, <3>1 DEF Steps, At
  <2>3. CASE AddEditor(c) \/ ExpireEditors(c) \/ RemoveConnection(c)
    <3>1. \/ At(c, "hset") /\ Goto(c, "expire")
          \/ At(c, "expire") /\ Goto(c, "open")
          \/ At(c, "open") /\ Goto(c, "scard")
      BY <2>3 DEF AddEditor, ExpireEditors, RemoveConnection
    <3>2. QED
      BY <1>1, <3>1 DEF Steps
  <2>4. CASE CountConnections(c)
    BY <1>1, <2>4 DEF CountConnections, Steps
  <2>5. CASE CountEditors(c)
    BY <1>1, <2>5 DEF CountEditors, Steps
  <2>6. QED
    BY <1>3, <2>1, <2>2, <2>3, <2>4, <2>5 DEF Step
<1>4. CASE CommandFails(c)
  <2>1. CASE conn[c].step \in {"hset", "expire"}
    BY <1>1, <1>4, <2>1 DEF CommandFails, Steps, At
  <2>2. CASE conn[c].step \notin {"hset", "expire"}
    BY <1>2, <1>4, <2>2 DEF CommandFails, OffIsOff
  <2>3. QED
    BY <2>1, <2>2
<1>5. QED
  BY <1>3, <1>4

(***************************************************************************)
(* Every handler ends: at most seven commands after it began, failed ones  *)
(* counted, a connection is registered, open or gone; nothing but the      *)
(* accepted attempt that begins it gives it work again.  A crash only      *)
(* takes work away.                                                        *)
(***************************************************************************)
THEOREM HandlersEnd == Spec => HandlersGetOn
<1>1. ASSUME PresenceInv, OffIsOff, [Next]_vars, NEW c \in Connections
      PROVE  /\ StepsLeft(c) \in 0..7
             /\ Step(c) \/ RemoveConnection(c) \/ CommandFails(c) => StepsLeft(c)' < StepsLeft(c)
             /\ StepsLeft(c)' > StepsLeft(c) =>
                  c = begun + 1 /\ \E u \in Users : TryAddConnection(u)
  <2>1. conn \in Conns /\ conn' \in Conns
    BY <1>1, PresenceStep DEF PresenceInv, ConnTypes, Conns
  <2>2. StepsLeft(c) \in 0..7 /\ StepsLeft(c)' \in 0..7
    BY <2>1, CommandsBounded DEF Conns, StepsLeft
  <2>3. Step(c) \/ RemoveConnection(c) \/ CommandFails(c) => StepsLeft(c)' < StepsLeft(c)
    BY <1>1, <2>1, StepsShrink
  <2>4. ASSUME StepsLeft(c)' > StepsLeft(c)
        PROVE  c = begun + 1 /\ \E u \in Users : TryAddConnection(u)
    <3>1. conn'[c] # conn[c]
      BY <2>2, <2>4 DEF StepsLeft
    <3>2. ASSUME NEW d \in Connections, Step(d) \/ RemoveConnection(d) \/ CommandFails(d)
          PROVE  FALSE
      <4>1. d = c
        BY <1>1, <2>1, <3>1, <3>2, StepsShrink
      <4>2. QED
        BY <1>1, <2>1, <2>2, <2>4, <3>2, <4>1, StepsShrink
    <3>3. ~Crash
      <4>1. Crash => conn'[c] = Off \/ conn'[c] = conn[c]
        BY <2>1 DEF Crash
      <4>2. conn'[c] = Off => StepsLeft(c)' = 0
        BY DEF StepsLeft, CommandsAfter, Off
      <4>3. QED
        BY <2>2, <2>4, <3>1, <4>1, <4>2
    <3>4. ASSUME \/ Tick \/ (\E u \in Users : SweepKey(u)) \/ SweepCount \/ SweepDelete
                 \/ UNCHANGED vars
          PROVE  UNCHANGED conn
      BY <3>4 DEF Tick, SweepKey, SweepCount, SweepDelete, vars
    <3>5. PICK u \in Users : TryAddConnection(u)
      BY <1>1, <3>1, <3>2, <3>3, <3>4 DEF Next
    <3>6. c = begun + 1
      BY <2>1, <3>1, <3>5 DEF TryAddConnection, Conns
    <3>7. QED
      BY <3>5, <3>6
  <2>5. QED
    BY <2>2, <2>3, <2>4
<1>2. PresenceInv /\ OffIsOff /\ [Next]_vars =>
        [\A c \in Connections :
           /\ StepsLeft(c) \in 0..7
           /\ Step(c) \/ RemoveConnection(c) \/ CommandFails(c) => StepsLeft(c)' < StepsLeft(c)
           /\ StepsLeft(c)' > StepsLeft(c) =>
                c = begun + 1 /\ \E u \in Users : TryAddConnection(u)]_vars
  BY <1>1
<1>3. Init => OffIsOff
  BY DEF Init, OffIsOff
<1>4. PresenceInv /\ OffIsOff /\ [Next]_vars => OffIsOff'
  BY OffStep DEF PresenceInv, ConnTypes
<1>5. QED
  BY <1>2, <1>3, <1>4, PresenceHolds, PTL DEF Spec, HandlersGetOn
=============================================================================
