-------------------------- MODULE EditorPageProofs --------------------------
(***************************************************************************)
(* What holds of EditorPage for any number of changes and connections.     *)
(***************************************************************************)
EXTENDS EditorPage, SequenceTheorems, TLAPS

Types ==
  /\ page \in {"loading", "ready", "error"}
  /\ fetched \in Nat /\ content \in Nat /\ pending \in Nat /\ server \in Nat
  /\ session \in 0..MaxSessions
  /\ up \in [Sessions -> Seq(Nat)] /\ down \in Seq(Nat)
  /\ typed \in Nat /\ others \in Nat

\* Only a page that is loaded has a connection, and only through it contents come.
ConnectedWhenReady ==
  /\ open => page = "ready" /\ session \in Sessions
  /\ ~open => down = <<>>

\* What comes last is what the server has, or the page is known to miss it.
LastIsLatest == down # <<>> /\ ~missed => down[Len(down)] = server

\* The text of the editor waits in a queue to the server.
OnItsWay == \E s \in Sessions : \E i \in 1..Len(up[s]) : up[s][i] = content

\* With nothing to come, the text is the server's or will still be sent to it.
Accounted ==
  open /\ ~unsent /\ ~missed /\ down = <<>> =>
    \/ content = server
    \/ pending # Nothing /\ pending = content
    \/ OnItsWay

PageInv == Types /\ ConnectedWhenReady /\ LastIsLatest /\ Accounted
----------------------------------------------------------------------------
\* What is appended to a queue is in it, and so is what was in it before.
LEMMA SendKeepsOnItsWay ==
  ASSUME Types, open, session \in Sessions, NEW text \in Nat,
         up' = [up EXCEPT ![session] = Append(@, text)]
  PROVE  /\ up' \in [Sessions -> Seq(Nat)]
         /\ OnItsWay /\ content' = content => OnItsWay'
         /\ content' = text => OnItsWay'
<1>1. up[session] \in Seq(Nat) /\ up'[session] = Append(up[session], text)
  BY DEF Types
<1>2. /\ Len(up'[session]) = Len(up[session]) + 1 /\ Len(up[session]) \in Nat
      /\ \A i \in 1..Len(up[session]) : up'[session][i] = up[session][i]
      /\ up'[session][Len(up[session]) + 1] = text
  BY <1>1
<1>3. \A s \in Sessions \ {session} : up'[s] = up[s]
  BY DEF Types
<1>4. OnItsWay /\ content' = content => OnItsWay'
  <2>1. HAVE OnItsWay /\ content' = content
  <2>2. PICK s \in Sessions : \E i \in 1..Len(up[s]) : up[s][i] = content
    BY <2>1 DEF OnItsWay
  <2>3. PICK i \in 1..Len(up[s]) : up[s][i] = content
    BY <2>2
  <2>4. CASE s = session
    <3>1. i \in 1..Len(up'[s]) /\ up'[s][i] = content'
      BY <1>2, <2>1, <2>3, <2>4
    <3>2. QED
      BY <3>1 DEF OnItsWay
  <2>5. CASE s # session
    BY <1>3, <2>1, <2>3, <2>5 DEF OnItsWay
  <2>6. QED
    BY <2>4, <2>5
<1>5. content' = text => OnItsWay'
  <2>1. Len(up[session]) + 1 \in 1..Len(up'[session])
    BY <1>2
  <2>2. QED
    BY <1>2, <2>1 DEF OnItsWay
<1>6. up' \in [Sessions -> Seq(Nat)]
  BY <1>1 DEF Types
<1>7. QED
  BY <1>4, <1>5, <1>6

\* Taking the head off a queue leaves the rest in it.
LEMMA TakeKeepsOnItsWay ==
  ASSUME Types, NEW s \in Sessions, up[s] # <<>>, Take(s), content' = content
  PROVE  /\ up' \in [Sessions -> Seq(Nat)] /\ Head(up[s]) \in Nat
         /\ OnItsWay => OnItsWay' \/ Head(up[s]) = content
<1>1. /\ up[s] \in Seq(Nat) /\ up' = [up EXCEPT ![s] = Tail(@)]
      /\ up'[s] = Tail(up[s])
  BY DEF Types, Take
<1>2. /\ Len(up'[s]) = Len(up[s]) - 1 /\ Len(up[s]) \in Nat \ {0}
      /\ \A i \in 1..(Len(up[s]) - 1) : up'[s][i] = up[s][i + 1]
      /\ Head(up[s]) = up[s][1] /\ Head(up[s]) \in Nat /\ Tail(up[s]) \in Seq(Nat)
  <2>1. Len(up[s]) \in Nat \ {0}
    BY <1>1, EmptySeq
  <2>2. /\ Head(up[s]) \in Nat /\ Tail(up[s]) \in Seq(Nat)
        /\ Len(Tail(up[s])) = Len(up[s]) - 1
        /\ \A i \in 1..Len(Tail(up[s])) : Tail(up[s])[i] = up[s][i + 1]
    BY <1>1, HeadTailProperties
  <2>3. Head(up[s]) = up[s][1]
    BY <1>1
  <2>4. QED
    BY <1>1, <2>1, <2>2, <2>3
<1>3. \A r \in Sessions \ {s} : up'[r] = up[r]
  BY <1>1 DEF Types
<1>4. up' \in [Sessions -> Seq(Nat)]
  BY <1>1, <1>2 DEF Types
<1>5. ASSUME OnItsWay, Head(up[s]) # content
      PROVE  OnItsWay'
  <2>1. PICK r \in Sessions : \E i \in 1..Len(up[r]) : up[r][i] = content
    BY <1>5 DEF OnItsWay
  <2>2. PICK i \in 1..Len(up[r]) : up[r][i] = content
    BY <2>1
  <2>3. CASE r = s
    <3>1. i # 1
      BY <1>2, <1>5, <2>2, <2>3
    <3>2. i - 1 \in 1..(Len(up[s]) - 1) /\ (i - 1) + 1 = i
      BY <1>2, <2>2, <2>3, <3>1
    <3>3. up'[s][i - 1] = content' /\ i - 1 \in 1..Len(up'[s])
      BY <1>2, <2>2, <2>3, <3>2
    <3>4. QED
      BY <3>3 DEF OnItsWay
  <2>4. CASE r # s
    BY <1>3, <2>2, <2>4 DEF OnItsWay
  <2>5. QED
    BY <2>3, <2>4
<1>6. QED
  BY <1>2, <1>4, <1>5
----------------------------------------------------------------------------
LEMMA DisconnectedStep ==
  ASSUME PageInv, Disconnected, server' = server, content' \in Nat, missed' = missed,
         page' \in {"loading", "ready", "error"}, fetched' \in Nat, pending' \in Nat,
         typed' = typed, others' = others
  PROVE  PageInv'
<1>1. ~open' /\ down' = <<>> /\ session' = session
  BY DEF Disconnected
<1>2. up' \in [Sessions -> Seq(Nat)]
  <2>1. CASE open
    <3>1. PICK n \in 0..Len(up[session]) :
            up' = [up EXCEPT ![session] = SubSeq(@, 1, n)]
      BY <2>1 DEF Disconnected
    <3>2. up \in [Sessions -> Seq(Nat)] /\ up[session] \in Seq(Nat)
      BY <2>1 DEF PageInv, Types, ConnectedWhenReady
    <3>3. SubSeq(up[session], 1, n) \in Seq(Nat)
      BY <3>2, SubSeqProperties
    <3>4. QED
      BY <3>1, <3>2, <3>3
  <2>2. CASE ~open
    BY <2>2 DEF Disconnected, PageInv, Types
  <2>3. QED
    BY <2>1, <2>2
<1>3. down' \in Seq(Nat)
  BY <1>1
<1>4. Types'
  BY <1>1, <1>2, <1>3 DEF PageInv, Types
<1>5. QED
  BY <1>1, <1>4 DEF PageInv, ConnectedWhenReady, LastIsLatest, Accounted

\* The steps that load the page: it has no connection yet.
LEMMA LoadStep ==
  ASSUME PageInv, GetDocument \/ Loaded \/ LoadFails
  PROVE  PageInv'
<1>1. ~open /\ UNCHANGED <<net, server, counters, missed>>
  BY DEF PageInv, ConnectedWhenReady, GetDocument, Loaded, LoadFails, history
<1>2. Types'
  BY DEF PageInv, Types, GetDocument, Loaded, LoadFails, net, editor, counters, history, Nothing
<1>3. QED
  BY <1>1, <1>2 DEF PageInv, ConnectedWhenReady, LastIsLatest, Accounted, net

LEMMA OpensStep ==
  ASSUME PageInv, ConnectionOpens
  PROVE  PageInv'
<1>1. /\ page = "ready" /\ page' = page /\ open' = TRUE /\ session' = session + 1
      /\ down' = <<server>> /\ missed' = FALSE /\ server' = server /\ session < MaxSessions
  BY DEF ConnectionOpens
<1>2. server \in Nat /\ session \in Nat /\ session' \in Sessions /\ session' \in 0..MaxSessions
  BY <1>1, BoundsAssumption DEF PageInv, Types, Sessions
<1>3. down' \in Seq(Nat) /\ down' # <<>> /\ Len(down') = 1 /\ down'[1] = server
  BY <1>1, <1>2
<1>4. Types'
  BY <1>1, <1>2, <1>3 DEF PageInv, Types, ConnectionOpens, editor, counters
<1>5. QED
  BY <1>1, <1>2, <1>3, <1>4 DEF PageInv, ConnectedWhenReady, LastIsLatest, Accounted
----------------------------------------------------------------------------
LEMMA RemoteUpdateStep ==
  ASSUME PageInv, RemoteUpdate
  PROVE  PageInv'
<1>1. /\ down # <<>> /\ down' = Tail(down) /\ content' = Head(down)
      /\ unsent' = FALSE
      /\ UNCHANGED <<page, fetched, pending, debounced, open, session, up, server, counters,
                     missed>>
  BY DEF RemoteUpdate
<1>2. down \in Seq(Nat) /\ Types
  BY DEF PageInv, Types
<1>3. /\ Tail(down) \in Seq(Nat) /\ Head(down) \in Nat /\ Len(down) \in Nat \ {0}
      /\ Len(Tail(down)) = Len(down) - 1 /\ Head(down) = down[1]
      /\ \A i \in 1..(Len(down) - 1) : Tail(down)[i] = down[i + 1]
  BY <1>1, <1>2, HeadTailProperties
<1>4. Types'
  BY <1>1, <1>2, <1>3 DEF Types, counters
<1>5. ConnectedWhenReady'
  BY <1>1 DEF PageInv, ConnectedWhenReady
<1>6. LastIsLatest'
  <2>1. SUFFICES ASSUME Tail(down) # <<>>, ~missed
                 PROVE  Tail(down)[Len(Tail(down))] = server
    BY <1>1 DEF LastIsLatest
  <2>2. Len(Tail(down)) # 0
    BY <1>3, <2>1
  <2>3. Len(down) - 1 \in 1..(Len(down) - 1) /\ (Len(down) - 1) + 1 = Len(down)
    BY <1>3, <2>2
  <2>4. Tail(down)[Len(down) - 1] = down[Len(down)]
    BY <1>3, <2>3
  <2>5. QED
    BY <1>1, <1>3, <2>1, <2>4 DEF PageInv, LastIsLatest
<1>7. Accounted'
  <2>1. SUFFICES ASSUME Tail(down) = <<>>, ~missed
                 PROVE  content' = server'
    BY <1>1 DEF Accounted
  <2>2. Len(down) = 1
    <3>1. Len(Tail(down)) = 0
      BY <2>1, EmptySeq
    <3>2. \A n \in Nat \ {0} : n - 1 = 0 => n = 1
      OBVIOUS
    <3>3. Len(down) \in Nat \ {0} /\ Len(down) - 1 = 0
      BY <1>3, <3>1, Zenon
    <3>4. QED
      BY <3>2, <3>3, Zenon
  <2>3. QED
    BY <1>1, <1>3, <2>1, <2>2 DEF PageInv, LastIsLatest
<1>8. QED
  BY <1>4, <1>5, <1>6, <1>7 DEF PageInv

LEMMA UserTypesStep ==
  ASSUME PageInv, UserTypes
  PROVE  PageInv'
<1>1. /\ page = "ready" /\ typed' = typed + 1 /\ content' = NewText /\ remoteUpdate' = FALSE
      /\ unsent' = remoteUpdate
      /\ UNCHANGED <<page, fetched, net, server, others, missed>>
      /\ IF remoteUpdate THEN UNCHANGED <<pending, debounced>>
                         ELSE pending' = NewText /\ debounced' = TRUE
  BY DEF UserTypes
<1>2. NewText \in Nat /\ NewText # Nothing
  BY DEF PageInv, Types, NewText, Nothing
<1>3. Types'
  BY <1>1, <1>2 DEF PageInv, Types, net
<1>4. ConnectedWhenReady' /\ LastIsLatest'
  BY <1>1 DEF PageInv, ConnectedWhenReady, LastIsLatest, net
<1>5. Accounted'
  BY <1>1, <1>2 DEF Accounted, Nothing
<1>6. QED
  BY <1>3, <1>4, <1>5 DEF PageInv

LEMMA SendStep ==
  ASSUME PageInv, NEW text \in Nat, SendEdit(text),
         text = content \/ (pending = text /\ pending # Nothing),
         pending' = Nothing,
         UNCHANGED <<page, fetched, content, remoteUpdate, server, counters, missed>>
  PROVE  PageInv'
<1>1. /\ Types /\ ConnectedWhenReady /\ LastIsLatest /\ Accounted
      /\ open' = open /\ session' = session /\ down' = down
      /\ unsent' = IF text = content THEN ~open ELSE unsent
  BY DEF PageInv, SendEdit
<1>2. CASE open
  <2>1. session \in Sessions /\ up' = [up EXCEPT ![session] = Append(@, text)]
    BY <1>1, <1>2 DEF ConnectedWhenReady, SendEdit
  <2>2. /\ up' \in [Sessions -> Seq(Nat)] /\ (OnItsWay => OnItsWay')
        /\ (content = text => OnItsWay')
    BY <1>1, <1>2, <2>1, SendKeepsOnItsWay
  <2>3. Types'
    BY <1>1, <2>2 DEF Types, counters, Nothing
  <2>4. Accounted'
    BY <1>1, <1>2, <2>2 DEF Accounted
  <2>5. QED
    BY <1>1, <2>3, <2>4 DEF PageInv, ConnectedWhenReady, LastIsLatest
<1>3. CASE ~open
  <2>1. up' = up
    BY <1>3 DEF SendEdit
  <2>2. Types'
    BY <1>1, <2>1 DEF Types, counters, Nothing
  <2>3. QED
    BY <1>1, <1>3, <2>2 DEF PageInv, ConnectedWhenReady, LastIsLatest, Accounted
<1>4. QED
  BY <1>2, <1>3 DEF PageInv, Types
----------------------------------------------------------------------------
LEMMA EditArrivesStep ==
  ASSUME PageInv, NEW s \in Sessions, EditArrives(s)
  PROVE  PageInv'
<1>1. /\ up[s] # <<>> /\ Take(s) /\ server' = Head(up[s])
      /\ missed' = (Head(up[s]) # content \/ down # <<>>)
      /\ open' = open /\ session' = session /\ down' = down
      /\ UNCHANGED <<page, fetched, editor, counters, unsent>>
  BY DEF EditArrives, Take
<1>2. content' = content
  BY <1>1 DEF editor
<1>3. up' \in [Sessions -> Seq(Nat)] /\ Head(up[s]) \in Nat
  BY <1>1, <1>2, TakeKeepsOnItsWay DEF PageInv
<1>5. Types'
  BY <1>1, <1>3 DEF PageInv, Types, editor, counters
<1>6. ~missed' => Head(up[s]) = content /\ down = <<>>
  BY <1>1
<1>7. QED
  BY <1>1, <1>2, <1>5, <1>6 DEF PageInv, ConnectedWhenReady, LastIsLatest, Accounted

LEMMA EditRefusedStep ==
  ASSUME PageInv, NEW s \in Sessions, EditRefused(s)
  PROVE  PageInv'
<1>1. /\ up[s] # <<>> /\ Take(s)
      /\ unsent' = (unsent \/ Head(up[s]) = content)
      /\ open' = open /\ session' = session /\ down' = down
      /\ UNCHANGED <<page, fetched, editor, server, counters, missed>>
  BY DEF EditRefused, Take
<1>2. content' = content /\ pending' = pending
  BY <1>1 DEF editor
<1>3. /\ up' \in [Sessions -> Seq(Nat)]
      /\ OnItsWay => OnItsWay' \/ Head(up[s]) = content
  BY <1>1, <1>2, TakeKeepsOnItsWay DEF PageInv
<1>5. Types'
  BY <1>1, <1>3 DEF PageInv, Types, editor, counters
<1>6. ~unsent' => ~unsent /\ Head(up[s]) # content
  BY <1>1
<1>7. Accounted'
  BY <1>1, <1>2, <1>3, <1>6 DEF PageInv, Accounted
<1>8. QED
  BY <1>1, <1>5, <1>7 DEF PageInv, ConnectedWhenReady, LastIsLatest

LEMMA OthersStep ==
  ASSUME PageInv, OtherUserEdits \/ OtherTabEdits
  PROVE  PageInv'
<1>1. NewText \in Nat /\ others' = others + 1 /\ server' = NewText
      /\ UNCHANGED <<page, fetched, editor, open, session, up, typed, unsent>>
  BY DEF PageInv, Types, NewText, OtherUserEdits, OtherTabEdits, net
<1>2. CASE OtherTabEdits
  <2>1. down' = down /\ missed' = TRUE
    BY <1>2 DEF OtherTabEdits, net
  <2>2. Types'
    BY <1>1, <2>1 DEF PageInv, Types, editor
  <2>3. QED
    BY <1>1, <2>1, <2>2 DEF PageInv, ConnectedWhenReady, LastIsLatest, Accounted
<1>3. CASE OtherUserEdits
  <2>1. missed' = FALSE /\ down' = IF open THEN Append(down, NewText) ELSE down
    BY <1>3 DEF OtherUserEdits
  <2>2. down \in Seq(Nat)
    BY DEF PageInv, Types
  <2>3. down' \in Seq(Nat)
    BY <1>1, <2>1, <2>2
  <2>4. Types'
    BY <1>1, <2>1, <2>3 DEF PageInv, Types, editor
  <2>5. open => down' # <<>> /\ down'[Len(down')] = NewText
    BY <1>1, <2>1, <2>2
  <2>6. ~open => down' = <<>>
    BY <2>1 DEF PageInv, ConnectedWhenReady
  <2>7. QED
    BY <1>1, <2>4, <2>5, <2>6 DEF PageInv, ConnectedWhenReady, LastIsLatest, Accounted, Types
<1>4. QED
  BY <1>2, <1>3
----------------------------------------------------------------------------
LEMMA NextStep ==
  ASSUME PageInv, [Next]_vars
  PROVE  PageInv'
<1>1. Types
  BY DEF PageInv
<1>2. CASE UNCHANGED vars
  BY <1>2 DEF vars, net, editor, counters, history, PageInv, Types, ConnectedWhenReady,
              LastIsLatest, Accounted, OnItsWay
<1>3. CASE NewAccessToken
  BY <1>1, <1>3, DisconnectedStep DEF NewAccessToken, Types, Nothing, counters
<1>4. CASE ConnectionBreaks
  BY <1>1, <1>4, DisconnectedStep DEF ConnectionBreaks, Types, editor, counters
<1>5. CASE DebounceFires
  <2>1. /\ pending # Nothing /\ pending' = Nothing /\ SendEdit(pending)
        /\ UNCHANGED <<page, fetched, content, remoteUpdate, server, counters, missed>>
    BY <1>5 DEF DebounceFires
  <2>2. pending \in Nat
    BY <1>1 DEF Types
  <2>3. QED
    BY <2>1, <2>2, SendStep
<1>6. CASE ManualSave
  <2>1. /\ pending' = Nothing /\ SendEdit(content)
        /\ UNCHANGED <<page, fetched, content, remoteUpdate, server, counters, missed>>
    BY <1>6 DEF ManualSave, FlushPending
  <2>2. content \in Nat
    BY <1>1 DEF Types
  <2>3. PICK text \in Nat : text = content
    BY <2>2
  <2>4. SendEdit(text)
    BY <2>1, <2>3
  <2>5. text = content \/ (pending = text /\ pending # Nothing)
    BY <2>3
  <2>6. QED
    BY <2>1, <2>4, <2>5, SendStep
<1>7. QED
  BY <1>2, <1>3, <1>4, <1>5, <1>6, LoadStep, OpensStep, RemoteUpdateStep, UserTypesStep,
     EditArrivesStep, EditRefusedStep, OthersStep DEF Next

LEMMA InitGood ==
  ASSUME Init
  PROVE  PageInv
<1>1. \A s \in Sessions : <<>> \in Seq(Nat)
  OBVIOUS
<1>2. QED
  BY <1>1, BoundsAssumption
  DEF Init, PageInv, Types, ConnectedWhenReady, LastIsLatest, Accounted, Nothing

(***************************************************************************)
(* A page at rest shows what the server has, or one of the two known       *)
(* reasons why it does not has happened.                                   *)
(***************************************************************************)
THEOREM PageAgreesWithServer == Spec => []PageAgrees
<1>1. Init => PageInv
  BY InitGood
<1>2. PageInv /\ [Next]_vars => PageInv'
  BY NextStep
<1>3. PageInv => PageAgrees
  <2>1. SUFFICES ASSUME PageInv, Settled, ~unsent, ~missed
                 PROVE  content = server
    BY DEF PageAgrees, PageInv, Types
  <2>2. ~OnItsWay
    BY <2>1 DEF Settled, OnItsWay
  <2>3. QED
    BY <2>1, <2>2 DEF Settled, PageInv, Accounted
<1>4. QED
  BY <1>1, <1>2, <1>3, PTL DEF Spec
=============================================================================
