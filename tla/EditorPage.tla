----------------------------- MODULE EditorPage -----------------------------
(***************************************************************************)
(* The text of a document on the page of one user: what the editor shows,  *)
(* the edit that waits for its debounce timer, and what travels to and from*)
(* the server, while others change the document too.                       *)
(*                                                                         *)
(* A task of the page is an action.  The connection is taken from          *)
(* BrowserTab as open or not; that the server reads the first content and  *)
(* knows the connection at the same moment is not so (see LiveDocument),   *)
(* but what this adds is no business of the page.  Texts are numbered.     *)
(***************************************************************************)
EXTENDS Naturals, Sequences

CONSTANTS MaxTyped,      \* bound: changes the user types
          MaxOthers,     \* bound: changes others make
          MaxSessions    \* bound: connections

ASSUME BoundsAssumption ==
  MaxTyped \in Nat /\ MaxOthers \in Nat /\ MaxSessions \in Nat \ {0}

VARIABLES page,          \* "loading", "ready" or "error"
          fetched,       \* the answer to getDocument, or Nothing
          content,       \* the text in the editor
          remoteUpdate,  \* remoteUpdateRef
          pending,       \* the text the debounce timer will send, or Nothing
          debounced,     \* debounceRef is not null: once set, only a save resets it
          open,          \* the connection is open
          session,       \* its number
          up,            \* for each connection, edits sent and not yet handled
          down,          \* contents on their way to the page
          server,        \* the content at the server
          typed, others,
          unsent,        \* history: the shown text is the user's and goes nowhere
          missed         \* history: the page is past the last change at the server

net == <<open, session, up, down>>
editor == <<content, remoteUpdate, pending, debounced>>
counters == <<typed, others>>
history == <<unsent, missed>>
vars == <<page, fetched, editor, net, server, counters, history>>

Nothing == 0
NewText == typed + others + 2       \* 1 is the text there was
Sessions == 1..MaxSessions

Init ==
  /\ page = "loading" /\ fetched = Nothing
  /\ content = Nothing /\ remoteUpdate = FALSE /\ pending = Nothing /\ debounced = FALSE
  /\ open = FALSE /\ session = 0 /\ up = [s \in Sessions |-> <<>>] /\ down = <<>>
  /\ server = 1
  /\ typed = 0 /\ others = 0
  /\ unsent = FALSE /\ missed = FALSE
----------------------------------------------------------------------------
(***************************************************************************)
(* The page loads, for the first time and after every new access token.    *)
(***************************************************************************)
\* The connection ends; of what was sent, a first part still reaches the server.
Disconnected ==
  /\ open' = FALSE
  /\ IF open THEN \E n \in 0..Len(up[session]) :
                    up' = [up EXCEPT ![session] = SubSeq(@, 1, n)]
             ELSE UNCHANGED up
  /\ down' = <<>>
  /\ UNCHANGED session

GetDocument ==
  /\ page = "loading" /\ fetched = Nothing
  /\ fetched' = server
  /\ UNCHANGED <<page, editor, net, server, counters, history>>

Loaded ==
  /\ page = "loading" /\ fetched # Nothing
  /\ page' = "ready"
  /\ content' = fetched /\ fetched' = Nothing
  /\ unsent' = FALSE
  /\ UNCHANGED <<remoteUpdate, pending, debounced, net, server, counters, missed>>

LoadFails ==
  /\ page = "loading"
  /\ page' = "error" /\ fetched' = Nothing
  /\ UNCHANGED <<editor, net, server, counters, history>>

\* The effects start anew: the timer is cleared (its ref stays), close().
NewAccessToken ==
  /\ session < MaxSessions
  /\ page' = "loading" /\ fetched' = Nothing
  /\ pending' = Nothing
  /\ Disconnected
  /\ unsent' = TRUE
  /\ UNCHANGED <<content, remoteUpdate, debounced, server, counters, missed>>

ConnectionOpens ==
  /\ page = "ready" /\ ~open
  /\ session < MaxSessions
  /\ open' = TRUE /\ session' = session + 1
  /\ down' = <<server>>
  /\ missed' = FALSE
  /\ UNCHANGED <<page, fetched, editor, up, server, counters, unsent>>

ConnectionBreaks ==
  /\ open
  /\ Disconnected
  /\ unsent' = TRUE
  /\ UNCHANGED <<page, fetched, editor, server, counters, missed>>
----------------------------------------------------------------------------
(***************************************************************************)
(* The editor.                                                             *)
(***************************************************************************)
\* onSync, onUpdated, onRestored.  Whether the editor reports the new value as
\* a change is its own affair; it does not when it already has that value.
RemoteUpdate ==
  /\ down # <<>>
  /\ down' = Tail(down)
  /\ content' = Head(down)
  /\ \/ remoteUpdate' = TRUE
     \/ content # Head(down) /\ remoteUpdate' = FALSE
  /\ unsent' = FALSE
  /\ UNCHANGED <<page, fetched, pending, debounced, open, session, up, server, counters, missed>>

\* handleContentChange: after a remote update one change is not sent.
UserTypes ==
  /\ page = "ready"
  /\ typed < MaxTyped
  /\ typed' = typed + 1
  /\ content' = NewText
  /\ remoteUpdate' = FALSE
  /\ unsent' = remoteUpdate
  /\ IF remoteUpdate THEN UNCHANGED <<pending, debounced>>
                     ELSE pending' = NewText /\ debounced' = TRUE
  /\ UNCHANGED <<page, fetched, net, server, others, missed>>

\* Without an open socket the edit is dropped.
SendEdit(text) ==
  /\ up' = IF open THEN [up EXCEPT ![session] = Append(@, text)] ELSE up
  /\ unsent' = IF text = content THEN ~open ELSE unsent
  /\ UNCHANGED <<open, session, down>>

DebounceFires ==
  /\ pending # Nothing
  /\ pending' = Nothing
  /\ SendEdit(pending)
  /\ UNCHANGED <<page, fetched, content, remoteUpdate, debounced, server, counters, missed>>

\* Mutant: the timer is cleared, the edit not sent.
FlushPendingForgets == UNCHANGED <<net, unsent>>

FlushPending == SendEdit(content)

\* The request that follows is SaveManualVersion of DocumentPersistence.
ManualSave ==
  /\ page = "ready"
  /\ debounced
  /\ debounced' = FALSE /\ pending' = Nothing
  /\ FlushPending
  /\ UNCHANGED <<page, fetched, content, remoteUpdate, server, counters, missed>>
----------------------------------------------------------------------------
(***************************************************************************)
(* The server, and the others who edit.                                    *)
(***************************************************************************)
Take(s) == up' = [up EXCEPT ![s] = Tail(@)] /\ UNCHANGED <<open, session, down>>

EditArrives(s) ==
  /\ up[s] # <<>>
  /\ Take(s)
  /\ server' = Head(up[s])
  /\ missed' = (Head(up[s]) # content \/ down # <<>>)
  /\ UNCHANGED <<page, fetched, editor, counters, unsent>>

\* ApplyDocumentEdit fails or finds no right: the page shows an error.
EditRefused(s) ==
  /\ up[s] # <<>>
  /\ Take(s)
  /\ unsent' = (unsent \/ Head(up[s]) = content)
  /\ UNCHANGED <<page, fetched, editor, server, counters, missed>>

OtherUserEdits ==
  /\ others < MaxOthers
  /\ others' = others + 1
  /\ server' = NewText
  /\ down' = IF open THEN Append(down, NewText) ELSE down
  /\ missed' = FALSE
  /\ UNCHANGED <<page, fetched, editor, open, session, up, typed, unsent>>

\* Another tab of the same user: onUpdated ignores what has the user's own id.
OtherTabEdits ==
  /\ others < MaxOthers
  /\ others' = others + 1
  /\ server' = NewText
  /\ missed' = TRUE
  /\ UNCHANGED <<page, fetched, editor, net, typed, unsent>>
----------------------------------------------------------------------------
Next ==
  \/ GetDocument \/ Loaded \/ LoadFails \/ NewAccessToken
  \/ ConnectionOpens \/ ConnectionBreaks
  \/ RemoteUpdate \/ UserTypes \/ DebounceFires \/ ManualSave
  \/ \E s \in Sessions : EditArrives(s) \/ EditRefused(s)
  \/ OtherUserEdits \/ OtherTabEdits

Spec == Init /\ [][Next]_vars
----------------------------------------------------------------------------
(***************************************************************************)
(* With everything sent arrived and no timer running, the page shows what  *)
(* the server has, but for two cases.  "unsent": its text is the user's and*)
(* was swallowed as the echo of a remote update, dropped for want of a     *)
(* connection, or refused.  "missed": the last change at the server was an *)
(* edit of the user's own that the page had meanwhile replaced by another  *)
(* text, or one of another tab of the user.                                *)
(***************************************************************************)
Settled ==
  /\ page = "ready" /\ open
  /\ pending = Nothing /\ down = <<>>
  /\ \A s \in Sessions : up[s] = <<>>

PageAgrees == Settled => content = server \/ unsent \/ missed
=============================================================================
