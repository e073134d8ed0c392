--------------------------- MODULE EditorPresence ---------------------------
(***************************************************************************)
(* Who is in a document, as Redis knows it: a set of connections for every *)
(* user and one hash of editors, each with a time to live.                 *)
(*                                                                         *)
(* A connection registers before its upgrade to a WebSocket and unregisters*)
(* after its end.  Every Redis command is a step; TryAddConnection is a Lua*)
(* script and therefore one step.  The servers share the keys, so steps of *)
(* all connections interleave.  One document stands for all: they share no *)
(* key.  Who may connect is in WorkspaceAccess, what connections see in    *)
(* LiveDocument.                                                           *)
(***************************************************************************)
EXTENDS Naturals, FiniteSets

CONSTANTS Users, NoUser,
          Limit,         \* maxUserConns: connections per user and document
          TTL,           \* lifetime of the keys, in ticks
          MaxBegun,      \* bound: connections accepted
          MaxFaults      \* bound: failed commands and crashes

ASSUME NoUserAssumption == NoUser \notin Users
ASSUME BoundsAssumption ==
  Limit \in Nat \ {0} /\ TTL \in Nat \ {0} /\ MaxBegun \in Nat /\ MaxFaults \in Nat

VARIABLES connections,  \* ws:document:<id>:user:<u>:connections, a set for every user
          sessionTTL,   \* what is left of its lifetime
          editors,      \* the fields of the hash of editors
          editorsTTL,   \* what is left of its lifetime, 0: no expiry set
          conn,         \* what serves each connection is doing
          sweep,        \* what the cleanup batch is doing with a key
          begun, faults,
          lapsed,       \* history: a key in use expired or was swept
          overlapped    \* history: somebody joined while somebody was being removed

keys == <<connections, sessionTTL, editors, editorsTTL>>
history == <<lapsed, overlapped>>
vars == <<keys, conn, sweep, begun, faults, history>>

\* A connection gets a new id (uuid.New), here the next number.
Connections == 1..MaxBegun

Steps == {"off", "hset", "expire", "open", "rollback",
          "scard", "refresh", "hdel", "hlen", "del"}

Off == [step |-> "off", user |-> NoUser]

At(c, step) == conn[c].step = step
User(c) == conn[c].user
Goto(c, step) == conn' = [conn EXCEPT ![c].step = step]
Finish(c) == conn' = [conn EXCEPT ![c] = Off]

InUse(u) == \E c \in Connections : User(c) = u

\* A key without members is gone, with its expiry.
SRem(u, c) ==
  /\ connections' = [connections EXCEPT ![u] = @ \ {c}]
  /\ sessionTTL' = IF connections[u] = {c} THEN [sessionTTL EXCEPT ![u] = 0] ELSE sessionTTL

Init ==
  /\ connections = [u \in Users |-> {}]
  /\ sessionTTL = [u \in Users |-> 0]
  /\ editors = {}
  /\ editorsTTL = 0
  /\ conn = [c \in Connections |-> Off]
  /\ sweep = Off
  /\ begun = 0
  /\ faults = 0
  /\ lapsed = FALSE
  /\ overlapped = FALSE
----------------------------------------------------------------------------
(***************************************************************************)
(* RegisterConnection.                                                     *)
(***************************************************************************)
\* Mutants: ">" for ">="; EXPIRE before the count is compared; no EXPIRE.
FullOffByOne(u) == Cardinality(connections[u]) > Limit
RefusedButRefreshed(u) == sessionTTL' = [sessionTTL EXCEPT ![u] = TTL]
GrantedForEver(u) == UNCHANGED sessionTTL

Full(u) == Cardinality(connections[u]) >= Limit

\* What the script does to the expiry of the key.
Refused(u) == UNCHANGED sessionTTL
Granted(u) == sessionTTL' = [sessionTTL EXCEPT ![u] = TTL]

TryAddConnection(u) ==
  /\ \/ /\ Full(u)
        /\ Refused(u)
        /\ UNCHANGED <<connections, conn, begun>>
     \/ /\ ~Full(u)
        /\ begun < MaxBegun
        /\ begun' = begun + 1
        /\ connections' = [connections EXCEPT ![u] = @ \cup {begun'}]
        /\ Granted(u)
        /\ conn' = [conn EXCEPT ![begun'] = [step |-> "hset", user |-> u]]
  /\ UNCHANGED <<editors, editorsTTL, sweep, faults, history>>

\* DocumentEditorsStore.Add: HSET keeps the expiry of the key, a new key has none.
AddEditor(c) ==
  /\ At(c, "hset")
  /\ editors' = editors \cup {User(c)}
  /\ Goto(c, "expire")
  /\ overlapped' = (overlapped \/ \E d \in Connections :
                                   At(d, "del") \/ (At(d, "hdel") /\ User(d) = User(c)))
  /\ UNCHANGED <<connections, sessionTTL, editorsTTL, sweep, begun, faults, lapsed>>

ExpireEditors(c) ==
  /\ At(c, "expire")
  /\ editorsTTL' = IF editors = {} THEN 0 ELSE TTL
  /\ Goto(c, "open")
  /\ UNCHANGED <<connections, sessionTTL, editors, sweep, begun, faults, history>>

\* The deferred rollback of RegisterConnection, the count of which is not used.
Rollback(c) ==
  /\ At(c, "rollback")
  /\ SRem(User(c), c)
  /\ Finish(c)
  /\ UNCHANGED <<editors, editorsTTL, sweep, begun, faults, history>>
----------------------------------------------------------------------------
(***************************************************************************)
(* UnregisterConnection: the upgrade failed or the connection ended.       *)
(***************************************************************************)
RemoveConnection(c) ==
  /\ At(c, "open")
  /\ SRem(User(c), c)
  /\ Goto(c, "scard")
  /\ UNCHANGED <<editors, editorsTTL, sweep, begun, faults, history>>

\* Mutants: "remaining >= 0"; the count is not looked at.
RemainsAlways(u) == TRUE
RemainsNever(u) == FALSE

Remains(u) == connections[u] # {}

CountConnections(c) ==
  /\ At(c, "scard")
  /\ Goto(c, IF Remains(User(c)) THEN "refresh" ELSE "hdel")
  /\ UNCHANGED <<keys, sweep, begun, faults, history>>

\* EXPIRE does nothing to a key that is gone.
RefreshTTL(c) ==
  /\ At(c, "refresh")
  /\ editorsTTL' = IF editors = {} THEN editorsTTL ELSE TTL
  /\ Finish(c)
  /\ UNCHANGED <<connections, sessionTTL, editors, sweep, begun, faults, history>>

\* DocumentEditorsStore.Remove: HDEL, HLEN, then DEL of the key or EXPIRE.
RemoveEditor(c) ==
  /\ At(c, "hdel")
  /\ editors' = editors \ {User(c)}
  /\ editorsTTL' = IF editors' = {} THEN 0 ELSE editorsTTL
  /\ IF User(c) \in editors THEN Goto(c, "hlen") ELSE Finish(c)
  /\ UNCHANGED <<connections, sessionTTL, sweep, begun, faults, history>>

CountEditors(c) ==
  /\ At(c, "hlen")
  /\ Goto(c, IF editors = {} THEN "del" ELSE "refresh")
  /\ UNCHANGED <<keys, sweep, begun, faults, history>>

DeleteEditorsKey(c) ==
  /\ At(c, "del")
  /\ editors' = {}
  /\ editorsTTL' = 0
  /\ Finish(c)
  /\ UNCHANGED <<connections, sessionTTL, sweep, begun, faults, history>>
----------------------------------------------------------------------------
(***************************************************************************)
(* Failures and time.                                                      *)
(***************************************************************************)
\* A command fails: registering rolls back, unregistering is given up.
CommandFails(c) ==
  /\ conn[c] # Off
  /\ faults < MaxFaults
  /\ faults' = faults + 1
  /\ IF conn[c].step \in {"hset", "expire"} THEN Goto(c, "rollback") ELSE Finish(c)
  /\ UNCHANGED <<keys, sweep, begun, history>>

\* A server stops with all the connections S it served.
Crash ==
  /\ faults < MaxFaults
  /\ faults' = faults + 1
  /\ \E S \in SUBSET {c \in Connections : conn[c] # Off} :
       S # {} /\ conn' = [c \in Connections |-> IF c \in S THEN Off ELSE conn[c]]
  /\ UNCHANGED <<keys, sweep, begun, history>>

Expiring(ttl) == ttl = 1

Tick ==
  /\ editorsTTL # 0 \/ \E u \in Users : sessionTTL[u] # 0
  /\ sessionTTL' = [u \in Users |-> IF sessionTTL[u] = 0 THEN 0 ELSE sessionTTL[u] - 1]
  /\ editorsTTL' = IF editorsTTL = 0 THEN 0 ELSE editorsTTL - 1
  /\ connections' = [u \in Users |-> IF Expiring(sessionTTL[u]) THEN {} ELSE connections[u]]
  /\ editors' = IF Expiring(editorsTTL) THEN {} ELSE editors
  /\ lapsed' = (lapsed \/ (\E u \in Users : Expiring(sessionTTL[u]) /\ InUse(u))
                       \/ (Expiring(editorsTTL) /\ \E u \in Users : InUse(u)))
  /\ UNCHANGED <<conn, sweep, begun, faults, overlapped>>

\* cleanupPattern on a key of connections: it found the key with an expiry,
\* counts the members, and deletes the key if the count was 0.
SweepKey(u) ==
  /\ sweep = Off
  /\ sessionTTL[u] # 0
  /\ sweep' = [step |-> "scard", user |-> u]
  /\ UNCHANGED <<keys, conn, begun, faults, history>>

SweepCount ==
  /\ sweep.step = "scard"
  /\ sweep' = IF connections[sweep.user] = {} THEN [sweep EXCEPT !.step = "del"] ELSE Off
  /\ UNCHANGED <<keys, conn, begun, faults, history>>

SweepDelete ==
  /\ sweep.step = "del"
  /\ connections' = [connections EXCEPT ![sweep.user] = {}]
  /\ sessionTTL' = [sessionTTL EXCEPT ![sweep.user] = 0]
  /\ lapsed' = (lapsed \/ InUse(sweep.user))
  /\ sweep' = Off
  /\ UNCHANGED <<editors, editorsTTL, conn, begun, faults, overlapped>>
----------------------------------------------------------------------------
Step(c) ==
  \/ AddEditor(c) \/ ExpireEditors(c) \/ Rollback(c)
  \/ CountConnections(c) \/ RefreshTTL(c)
  \/ RemoveEditor(c) \/ CountEditors(c) \/ DeleteEditorsKey(c)

Next ==
  \/ \E u \in Users : TryAddConnection(u)
  \/ \E c \in Connections : RemoveConnection(c) \/ Step(c) \/ CommandFails(c)
  \/ Crash
  \/ Tick
  \/ \E u \in Users : SweepKey(u)
  \/ SweepCount
  \/ SweepDelete

Spec == Init /\ [][Next]_vars

\* A handler runs to its end and the clock of Redis goes on.
Fairness == WF_vars(Tick) /\ \A c \in Connections : WF_vars(Step(c))

FairSpec == Spec /\ Fairness
----------------------------------------------------------------------------
(***************************************************************************)
(* The types; and a set of connections always has an expiry, so that no key*)
(* stays for ever, whatever fails (the hash of editors may have none).     *)
(***************************************************************************)
TypeOK ==
  /\ connections \in [Users -> SUBSET Connections]
  /\ sessionTTL \in [Users -> 0..TTL]
  /\ \A u \in Users : connections[u] # {} <=> sessionTTL[u] # 0
  /\ editors \subseteq Users
  /\ editorsTTL \in 0..TTL /\ (editorsTTL # 0 => editors # {})
  /\ conn \in [Connections -> [step : Steps, user : Users \cup {NoUser}]]
  /\ sweep \in [step : {"off", "scard", "del"}, user : Users \cup {NoUser}]
  /\ begun \in Nat /\ faults \in Nat
  /\ lapsed \in BOOLEAN /\ overlapped \in BOOLEAN

(***************************************************************************)
(* As long as no key expired, or was swept, under a connection in use, a   *)
(* user has at most Limit connections to the document, however many tabs   *)
(* open and close at the same time on however many servers.                *)
(***************************************************************************)
ConnectionLimit ==
  ~lapsed => \A u \in Users :
    Cardinality({c \in Connections : User(c) = u /\ conn[c].step \in
                   {"hset", "expire", "open", "rollback"}}) <= Limit

(***************************************************************************)
(* Nobody is listed as an editor without a connection that is there, or    *)
(* one whose end is still being worked on; only a failed command or a crash*)
(* leaves a ghost behind.                                                  *)
(***************************************************************************)
NoGhostEditor == faults = 0 => \A u \in editors : InUse(u)

(***************************************************************************)
(* Whoever has the document open is listed.  This fails only after an      *)
(* expired key, a fault, or a join that fell between the count of a leaving*)
(* connection and the end of its removal (the second tab of one user, or   *)
(* another user before the DEL of a hash counted as empty).                *)
(***************************************************************************)
OpenIsListed ==
  ~lapsed /\ ~overlapped /\ faults = 0 =>
    \A c \in Connections : At(c, "open") => User(c) \in editors

(***************************************************************************)
(* A user whom the connections of a crashed server keep out is let in again*)
(* in the end, even if the browser tries again without pause.              *)
(***************************************************************************)
LockedOut(u) == Full(u) /\ ~InUse(u)

LockoutEnds == \A u \in Users : LockedOut(u) ~> ~LockedOut(u)
=============================================================================
