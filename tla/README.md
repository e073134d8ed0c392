# NoteHub in TLA+

NoteHub is a collaborative editor: a Go server (`src/backend`) keeps documents in
PostgreSQL, buffers edits in Redis and distributes them over WebSockets to a
React client (`src/frontend`).  This directory holds TLA+ modules for the parts
of it whose correctness depends on the order in which things happen, TLC
configurations that check them on small instances, and proofs that TLAPS checks
for instances of any size.

Paths below are relative to `src/backend` unless they start with `src/`.

## The system

| Component | State | Operations | Talks to |
|---|---|---|---|
| Document persistence (`usecase/document_autosave.go`, `redis/document_cache.go`, `redis/lock.go`, `batch/auto_save.go`) | three Redis keys per document (content, autosave flag, revision counter), one lock key per document | autosave tick, flush of one document / of a workspace / of everything at shutdown | PostgreSQL rows of documents and versions |
| Versions (`usecase/version.go`) | table `document_versions` | manual save, restore, list, read | the cache above |
| Document life cycle (`usecase/document.go`, `entity/document.go`) | table `documents` | create, rename, delete, read, list | flush, cache, hub |
| WebSocket sessions and presence (`usecase/document_websocket.go`, `redis/websocket_session.go`, `redis/document_editors.go`) | per document a set of connections per user and a hash of editors, both with a TTL | prepare, register and unregister a connection, apply an edit | cache, hub |
| Hub and controller (`websocket/`, `controller/websocket.go`) | connected clients per document, workspace watchers, a buffer of 16 messages per client | register, unregister, broadcast, disconnect a document / workspace / user | every use case that notifies |
| Authentication (`usecase/auth.go`, `repository/refresh_token.go`, `middleware/auth.go`) | users with an `authVersion`, families of refresh tokens, revoked access tokens in Redis | register, login, refresh with rotation and reuse detection, logout | account life cycle, cleanup |
| Workspaces, members, accounts (`usecase/workspace.go`, `member.go`, `account.go`) | workspaces, memberships, account status | create, rename, delete; add, remove; suspend, reactivate, delete | tokens, hub, flush |
| Limits (`redis/rate_limit.go`) | token buckets, failure counters and locks with TTLs | allow, record a failure, reset | login, every HTTP route |
| Cleanup and backup (`usecase/batch.go`) | none of its own | expire and delete tokens, remove stray Redis keys, `pg_dump` | tokens |
| Client (`src/frontend/src/documentWs.ts`, `workspaceWs.ts`, `DocumentEditorPage.tsx`, `api.ts`, `auth.tsx`) | socket, reconnect timer and attempt count, pending edit, access token | connect, reconnect, send an edit after 300 ms, manual save, refresh and retry | everything above |

### How they interact, and what is hard

* **An edit** goes from the client over its socket to `ApplyDocumentEdit`, which
  checks the row and writes three Redis keys with three commands; the controller
  then broadcasts it to the other clients.  Nothing is locked.
* **A save** is done by an autosave goroutine of any server, by the flush before
  a delete, or by the flush before a workspace is deleted.  It takes a Redis lock
  with a TTL, reads a revision counter, reads the content, commits a transaction,
  reads the counter again and clears the dirty flag if the counter did not move.
  Manual save and restore do the same work without the lock.
* **A delete** flushes, commits, clears the keys and notifies, in that order, each
  step able to fail after the previous one stayed done.
* **Joining** prepares the content, registers the session, upgrades the socket
  and only then appears in the hub.
* **Refreshing** a token rotates it under a row lock; a rotated token that comes
  back is an attack or an impatient client.
* **Suspending, removing, deleting** change rows first and tell the hub afterwards,
  while requests that passed the access check go on.

What makes each correct:

* *Persistence and versions*: the text of the row is always recorded; a revision
  names one text; one saver at a time, as long as none outlives its lock, and one
  more for each that does; clearing the dirty flag loses no edit but one that races
  it; a text that is dirty in the cache is recorded in the end, unless it is
  replaced, deleted or raced; a deleted document never changes.
* *Presence*: the limit of connections holds and who has the document open is listed,
  both but for named accidents; nobody who left stays listed; a user locked out by a crash gets
  in again.
* *Hub*: no disconnect forgets a connection in the hub; who lost the right does not
  stay, unless on the way in while the disconnect passed, and gets at most one more
  edit stored; once everything sent has arrived all browsers
  show the stored text, if no two changes met; nobody waits for a slow client.
* *Tokens*: one active token per session; a session or an access token that ended
  never works again; a reused token ends all access; nobody waits for ever.
* *Workspaces*: exactly one host; only the host writes; the row of a deleted
  workspace and a deleted account stay as they are; an operation that was under way
  when its workspace was deleted or its host suspended is the last of its kind.
* *Limits*: a burst and the number of guessed passwords are bounded, with requests
  that reach the bucket late and logins that run at once.
* *Client*: no socket is opened after the end of its page; a lost connection comes
  back or the page says so, unless a terminal close code ended it; a page at rest
  shows the server's text, but for named cases.

`PROJECT.json` lists under `hazards` the places of the code where these could
fail, with the properties that cover them, or why none does.

## How the modules fit together

| Module | Models | Uses or implements |
|---|---|---|
| `DocumentEntity` | rows of documents and versions and their methods | |
| `DocumentPersistence` | cache, saves, flush, restore, delete of one document | extends `DocumentEntity`, implements `DocumentHistory` |
| `DocumentHistory` | what the database promises, with no cache or concurrency | extends `DocumentEntity` |
| `EditorPresence` | the Redis keys of sessions and editors, and their sweep | |
| `LiveDocument` | the hub, the handlers, their pumps and the requests that notify | |
| `RefreshTokens` | one account, its refresh and access tokens | implements `AuthSession` |
| `AuthSession` | what a login session promises | |
| `WorkspaceAccess` | access checks and the writes behind them | |
| `RateLimit` | the token bucket and the lock of a login | |
| `BrowserTab` | reconnects and token refresh of one tab | |
| `EditorPage` | the text on a page, its debounce and its messages | |

The parts are cut where the code gives a narrow interface, and each module says in
its header what it takes from which other.  `LiveDocument` has the access check as
one step because `WorkspaceAccess` shows what its reads may miss; the content of
the cache is one value there, because `DocumentPersistence` has the commands behind
it; `EditorPage` knows a connection as open or not, because `BrowserTab` shows how it
comes and goes.  `MC...` modules add the symmetry set of a run and nothing else.

Definitions whose comment begins with "Mutant" are wrong variants of what follows
them.  No behaviour uses them; each replaces its original once to see that a
property notices.

## What is modelled

### DocumentEntity

The rows of `documents` and `document_versions` as records and the methods of
`entity/document.go` and `entity/document_version.go` that change them.  Left
out: title, actors, timestamps (no content operation reads them).  The revision
`ReplaceContent` expects is read under the row lock by every caller, so it is
always the row's.  It also says what it means for a row to be recorded by a set
of versions (`IsVersioned`, `NotAhead`, `OneContentPerRevision`).

### DocumentPersistence

One document, any number of servers (`Autosavers`) and of request goroutines
(`Requests`).  Documents share no key, row or lock, so one stands for all.

| Variable | Code |
|---|---|
| `row`, `versions` | the row of `documents`, its rows in `document_versions` |
| `cache` | the keys `document:<id>:content`, `:autosave`, `:revision` |
| `lock` | the key `lock:document:<id>:autosave` |
| `task` | what a goroutine is doing: the operation, the control point, its local variables |
| `begun`, `faults` | bounds |

One Redis command is one action, and so is one database transaction: every
transaction here begins with `SELECT ... FOR UPDATE` on the document's row, so
two of them do not interleave.  The control points are the places between two
such calls:

* edit: `loadDoc`, then SET content (`SetContent`), SET autosave (`SetDirty`),
  INCR revision (`IncrementRevision`);
* save (`persistDocument`): `TryLock` or `TryLockBusy`, `RecheckDirty`,
  `ReadStartRevision`, `ReadContent`, `SaveTx`, `ReadEndRevision`,
  `MarkCleanGet`, `MarkCleanSet`, `Unlock`;
* manual save: `ReadCurrentContent`, `ManualSaveTx`, the three commands of
  SetContent, the two of MarkClean;
* restore: `ReadCurrentContent`, `RestoreTx`, the three commands of SetContent;
* delete: `FlushCheck`, the save, `DeleteTx`, `ClearCache`.

The first reads of a request (`loadDoc`, and for a restore the version it goes
back to) are one action with its beginning; the request carries what it read,
and the row may change or be deleted right after.  The flush checks the dirty
flag in `FlushDocument` and again at the head of `persistDocument`; both answers
lead to the same return, so one check stands for both.  For the autosave the
list of idle dirty documents and that check are the one action `BeginAutosave`:
a document that is not dirty at the check is not begun.  The idle time of 60 s
is abstracted to "at some later time".

Failures: `Crash` ends an operation anywhere (the process stops, or a call
outside the lock returns an error), `SaveFails` is an error under the lock, which
still runs the deferred unlock, `UnlockFails` leaves the key to its TTL, and
`LockExpires` removes the key, under its holder only if `LockMayExpire`.

### DocumentHistory

What the database promises with no cache, lock or concurrency: `Save`,
`Snapshot` (a manual save of an unchanged text), `Restore` and `Delete` of one
document, each in one step.  `DocumentPersistence` implements it; the mapping is
the identity on `row` and `versions`.

### EditorPresence

One document, all servers: `connections[u]` is the set
`ws:document:<id>:user:<u>:connections`, `editors` the fields of the hash, each with
what is left of its TTL.  `conn[c]` is the control point of whatever serves
connection `c`.

* `TryAddConnection` is the Lua script of `redis/websocket_session.go`: count,
  refuse or add, set the expiry, in one step.
* `AddEditor`, `ExpireEditors`: HSET and EXPIRE of `DocumentEditorsStore.Add`;
  `Rollback` is the deferred SREM of `RegisterConnection`.
* `RemoveConnection`, `CountConnections`, `RemoveEditor`, `CountEditors`,
  `DeleteEditorsKey`, `RefreshTTL`: the commands of `UnregisterConnection`, in order.
* `CommandFails`, `Crash`: a command returns an error; a server dies with any set of
  its connections.
* `Tick` lets keys expire; `SweepKey`, `SweepCount`, `SweepDelete` are one key of
  `redis/cleanup.go`.

`lapsed` and `overlapped` are history: they say whether a key in use was lost and
whether a join fell into the removal of an editor.  They name the accidents under
which the list may be wrong, which are real behaviours of the code.

### LiveDocument

One document of one workspace on one server.  A connection is a goroutine that
walks through `HandleDocument` or `HandleWorkspace` (`Prepare`, `Register`, `Greet`,
`Enter`), then `ReadPump` (`ReadEdit`, `SetContent`, `BroadcastDocumentExcept`,
`HubUnregister`, `CleanupClient`), beside its `WritePump`.  `documents`, `watchers` and
`ready` are the maps of `Hub` and the flag of `Client`; `queue` is `Client.Send`.

The hub takes a snapshot of its targets under its lock and sends after it, so
`job[g]` holds what goroutine `g` has still to send, and `Deliver` sends to one
target, `Close` closes one.  `Request` is the goroutine of an HTTP request:
`UserLosesAccess` (removal, suspension, deletion of an account), `WorkspaceCloses`,
`DeleteDocument`, `ChangeTitle`, `RestoreVersion` commit and leave their
notifications in `plan`, in the order of the code; `Notify` takes the next one.
`UserGainsAccess` and `WorkspaceReopens` notify nobody.

`raced`, `mixed` and `late` are history: the connections a disconnect missed on
their way in, whether a change met another change or a join, and how many edits a
connection stored without the right to.

### RefreshTokens and AuthSession

One user, its rows of `refresh_tokens`, its access tokens.  Goroutines run
`Login`, `Refresh`, `Logout`, the suspension, reactivation and deletion of the
account, and the batch (`MarkExpiredBefore`, `DeleteStaleBefore`).  A step is one SQL
statement or one Redis command; row locks are `holdsUser` and `held`, and an UPDATE
of several rows sees them first (`rows`, `seen`) and then locks one after the other,
looking at each again, as READ COMMITTED does.  Two transactions that wait for each
other are a deadlock that PostgreSQL ends by aborting one.  `db/migrate.go` makes
the tables from entities that declare no foreign key, so inserting a token takes no
lock on its user.

`AuthSession` knows a session as unused, open or ended.  The mapping calls a family
open while one of its rows is active; a lifetime that has passed ends a session when
the batch marks the row expired.

### WorkspaceAccess

`users`, `workspaces` and `members` are the tables; a task goes through the
statements of `CheckWorkspaceAccess` one by one, without a lock
(`FindActiveUser`, `FindWorkspace`, `CheckWorkspaceHostStatus`, `FindMember`), then
the reads of its operation, then its transaction.  Each transaction changes one row
it has locked and is one step.

Only a rename and a deletion look at the workspace again in their transaction.
Adding and removing a member and changing an account do not, so they may commit
after the workspace was deleted or its host suspended.  `late` is history: it
remembers who has done so, and since when it is no longer so forgets it.
`OneLateWrite` says that nobody does it twice: what stands in the way are
`FindWorkspace` and `CheckWorkspaceHostStatus` of the next operation.

### RateLimit

The two Lua scripts of `redis/rate_limit.go`.  A limiter call carries the time its
server read, so a call may bring an older time after a newer one; ages stand for
times.  There are no clocks of single servers: that they differ appears only as such
a late call, within `MaxDelay`.  `Seconds` is what the Redis command TTL reports, rounded: the last half
second of a lock reads as none.  `level`, `setBack`, `guesses`, `unseen` are meters
of the properties.

### BrowserTab

`documentWs.ts` or `workspaceWs.ts` with the access token of `auth.tsx`.  JavaScript
runs one task to its end, so an action is a task: a timer, the answer of a refresh,
an event of a socket, a call of the page.  Sockets that nobody holds any more
(`others`) are counted by state; their events still run the handlers, which is
where the surprises are: one that was replaced while it lived is not closed by
`close()` and may outlive its page.

A close event has one of the codes 1000, 4000 to 4003, or any other (`Codes`): the
last only, if the connection never opened, and any of them otherwise, also after a
`close()` of the page whose answer was lost.  On the first five `documentWs.ts`
stops without a new attempt and without a message, on 1000 `workspaceWs.ts` does
(`Terminal`); `documentWs.test.ts:270` wants it so.  The server sends none of them:
the one close frame it writes is empty (`websocket/client.go:69`, code 1005), and
`Conn.Close` sends none (1006).  They are modelled all the same, as what a proxy may
send, and `dismissed` is history that names the case until the next socket is opened,
which the next token refresh does.

### EditorPage

`DocumentEditorPage.tsx`: the shown text, `remoteUpdateRef`, the pending edit and its
timer, edits on their way up for each connection and contents on their way down.
`unsent` and `missed` name the cases in which page and server may differ at rest:
the text was typed right after a remote update (it is taken for its echo), was
dropped with the connection or refused; or the last change at the server is the
user's own, from another tab or overtaken on the page.

## The runs

| Run | Instance | What it checks |
|---|---|---|
| `persistence_concurrent` | 2 servers, 2 requests of any kind at once, 2 texts, the lock may expire at any time | types; the row's text is recorded; a revision names one text; a deletion is final; the refinement |
| `persistence_faults` | 1 server, 2 requests, 2 texts, 1 failure anywhere, fairness | nobody marks clean what is not saved; the lock excludes; the counter check finds every counted edit; a dirty text is recorded and the lock released in the end |
| `persistence_clean` | 1 server, 1 requester, no failure | finds `CleanMeansPersisted` violated |
| `persistence_manual` | 1 server, 2 requests, no failure | finds `ManualSaveKeepsEdits` violated |
| `editor_presence` | 2 users, 3 connections, limit 2, lifetime 2 ticks, 1 fault, fairness | types; the limit; no ghosts; who is there is listed; a lockout ends |
| `live_document` | 2 users, 2 connections of either kind, 2 edits, 1 request, buffer of 1 message | types; nobody is forgotten; outsiders are sought; one late edit; views converge; nobody waits |
| `live_document_sync` | the same, smaller | finds `SyncIsLatest` violated |
| `refresh_tokens` | 3 goroutines, 4 operations, 3 tokens, 1 failed call, fairness | types; one token per session; the refinement; access never revives; a reuse ends all access; a suspension leaves none it saw; every operation ends |
| `workspace_access` | 2 users, 2 workspaces, 2 goroutines, 6 operations | types; one host; only the host writes and is safe; frozen when deleted; the account's life cycle; one late write |
| `rate_limit` | 2 goroutines, 6 requests, a bucket of 2, a tick of 250 ms, delays of 2 ticks, a bucket that lives 4, locks of 4 ticks | bursts and guesses are bounded |
| `browser_tab` | 8 attempts as in the code, 3 refreshes, fairness | no socket opened after the end; the connection comes back, or the page gives up or was told to stop |
| `editor_page` | 3 changes typed, 2 by others, 2 connections | the page agrees with the server |

**Bounds.** Every conflict found or feared is between two operations, so two
goroutines meet in every run and a third goes on where a third matters (a
suspension beside two tabs).

* Persistence: `MaxRequests` and `MaxFaults` bound requests and failures; with two
  requests and two autosavers up to four operations overlap.  Two texts tell the
  new one from the old.
* Presence: three connections fill the limit of 2 and leave one to be refused or to
  join while another leaves; a lifetime of 2 ticks lets a key expire under a
  connection that was refreshed once.
* LiveDocument: with a buffer of 1 every second message finds it full; two
  connections are an editor and a peer, or an editor and a watcher; the first edit
  tells old from new and the second meets it.
* Tokens: three tokens are a family of three or one of two beside another.
* Access: two workspaces let the same person be the host of one and a member of the
  other, so that two users suffice: each can be host, member or stranger in either,
  and only the host of another workspace can suspend a host.  A host who is
  suspended with an operation under way and tries another takes six operations: two
  workspaces, a membership, the late write, the suspension, the second try.
* RateLimit: `TickMs` is small enough for a tick inside the half second that rounds
  away; the bucket empties and refills within the run.  Its lifetime is the shortest
  that the assumptions allow, twice the delay and twice the time to fill it.
* BrowserTab needs no bound but the number of refreshes, as the attempts are
  bounded by the code; leftover sockets are bounded by these two.

All but `persistence_clean`, `persistence_manual`, `live_document_sync` pass.
Deadlock is not checked anywhere: each of these systems rests when nobody asks for
anything or the bounds are used up.  That nobody waits for ever is said by
`EveryOperationEnds` and `NobodyWaits` instead.  Runs with symmetry have no
liveness property.  `live_document` is the longest with about two minutes.

**Fairness.**

* `DocumentPersistence`: the ticker of `batch/auto_save.go` fires for ever and a
  dirty document is old enough at some tick once edits stop: weak fairness of
  `BeginAutosave`.  Redis and database calls have timeouts, so an operation that
  began goes on or fails: weak fairness of the steps of each goroutine.  The lock
  has a TTL: weak fairness of `LockExpires`.  A document that is edited more often
  than once a minute for ever is never idle and never autosaved; the bound on
  requests excludes it.
* `EditorPresence`: the clock of Redis goes on (`Tick`), and a handler that began
  runs to its end, for the same reason as above.  Nothing makes a connection end,
  and nothing keeps a browser from trying again at once.
* `RefreshTokens`: each goroutine goes on while it can.  A statement that waits for
  a lock is not enabled, so fairness does not give it the lock: that waiting ends
  is what `EveryOperationEnds` shows.
* `BrowserTab`: timers fire, an attempt to connect and a refresh end one way or the
  other, and a closed socket reports it.  That an attempt succeeds is not assumed.

Nothing makes a user act and nothing makes a call fail: no fairness for those.

### What the three violations show

* `CleanMeansPersisted`: after the counter is compared, `MarkClean` reads the
  autosave key and writes it back with `dirty = false`.  An edit in that gap is
  complete, marked clean and never saved until the next edit.
  `DirtyIsEventuallySaved` states what does hold: every dirty text gets into a
  version, unless another replaces it in the cache or the document is deleted, and
  but for those that a save or manual save is about to mark clean without
  having seen them (`Overlooked`).  It asks for a version and not for the row,
  since the row may end with an older text than one that was recorded: a manual save
  may commit first, an autosave of a newer text after it, and then the manual save
  puts its own text back into the cache and marks it clean.
* `ManualSaveKeepsEdits`: `SaveManualVersion` puts the content it read before
  its transaction back into the cache and marks it clean.  An edit in between is
  gone.  The client makes this likely: it sends the pending edit on the socket and
  posts the manual save at once.
* `SyncIsLatest`: `HandleDocument` reads the content in `PrepareConnection`
  (`controller/websocket.go:100`), sends it (`:135`) and registers the client in the
  hub last (`:137`).  An edit in between is in neither: the browser keeps the older
  text until somebody edits again.  `src/doc/.spec_extract.txt:2270-2276` (the text of
  `src/doc/NoteHub_実装仕様書.pdf`; it has NUL bytes, so `grep -a` reads it) promises
  the latest content and puts the registration before the read.  `ViewsConverge`
  states what does hold.

## The proofs

Eight modules hold theorems.  Each theorem is about `Spec` of its component, for
every number of processes, users, connections, texts and every bound; the only
assumptions are those the modules name (`...Assumption`), which TLC evaluates in the
runs.

| Module | Theorems | Properties |
|---|---|---|
| DocumentPersistenceProofs | `TypeCorrectness`, `SavedBeforeCleanHolds`, `PersistenceImplementsHistory`, `DeletedStaysFrozen`, `NoRevisionIsLost`, `RevisionNamesOneText`, `RevisionCheckHolds`, `SlowSavesAreFew`, `LockIsExclusive` (while no lock has expired under its holder), `HistoryIsKept` (of the abstract history), `DirtyIsNeverForgotten`, `ChecksLoseOnlyRacingEdits`, `SavesNeverWait`, `OperationsEnd` | `TypeOK`, `SavedBeforeClean`, `ImplementsHistory`, `DeletedIsFrozen`, `CurrentRevisionIsVersioned`, `RevisionDeterminesContent`, `RevisionCheckIsSound`, `AutosaveMutualExclusion`; `HistoryIsKept` and the four after it state what no run does |
| RefreshTokensProofs | `TypeCorrectness`, `OneTokenPerSession`, `ImplementsAuthSession`, `RefusedForEver`, `ReuseEndsAllAccess`, `NoSeenTokenSurvives`, `WaitingIsNeverInVain`, `DeadlocksNeedABulkUpdate`, `OperationsRunOut` | all but `EveryOperationEnds` |
| WorkspaceAccessProofs | `TypeCorrectness`, `OneHost`, `NobodyElseWrites`, `HostStaysSafe`, `DeletedStaysFrozen`, `AccountsFollowTheirCycle`, `LateWritesAreFew` | all |
| LiveDocumentProofs | `TypeCorrectness`, `NobodyIsForgotten`, `OutsidersAreSought`, `AtMostOneLateEdit`, `BrowsersConverge`, `NobodyHasToWait`, `SendingRunsOut` | `TypeOK`, `NoOrphans`, `NoOutsiderListens`, `OneLateEdit`, `ViewsConverge` |
| EditorPresenceProofs | `TypeCorrectness`, `LimitHolds`, `NoGhosts`, `OpenMeansListed`, `LockoutsWearOff`, `HandlersEnd` | all but `LockoutEnds` |
| EditorPageProofs | `PageAgreesWithServer` | `PageAgrees` |
| RateLimitProofs | `BurstStaysBounded`, `GuessesStayBounded` | all |
| BrowserTabProofs | `NothingOpensAfterTheEnd`, `ConnectionIsNeverStranded` | `NoSocketAfterTheEnd` |

**Persistence.** Types alone are not inductive: a save writes the content it
carries into the row, so the proof must know that it carries one.
`PersistenceInv` adds to `TypeOK` what each goroutine knows at its control point
(`GoodTask`): where it writes, it carries a text (`CarriesContent`); a restore
goes back to the text of a stored version (`HasSource`); after its transaction a
save carries a text that a version records (`HasSaved`); only savers and manual
saves reach MarkClean (`MayClean`).  `GoodTask` only grows with the set of
versions, so a step of one goroutine does not disturb the others.  With it each
transaction is a step of `DocumentHistory` and every other step leaves the database
alone (`HistoryStep`); deleted documents stay frozen because no step of the history
is enabled for them.  That the row's revision is recorded needs `NotAhead`: no
version is ahead of the row, and one of the row's revision has its text.
Mutual exclusion is false once a save outlives the TTL of its lock: `Unlock` deletes
the key of whoever holds it then, and that one's successor joins it.
`SlowSavesAreFew` says what this costs: after `k` locks that expired under their
holders at most `1 + k` goroutines save at once, not one more for each key that was
deleted wrongly.  `overruns` counts these expirations; it is a history variable of
the theorem (`CountsOverruns`), which no action reads.  The invariant is `FewHolders`:
holders are never more than `overruns`, and one more while the key is there.
`LockIsExclusive` is the case of no overrun, whatever `LockMayExpire` is.  That the comparison of
revisions is sound needs `CheckInv`: the counter a save read is never ahead of the
cache, and as long as the two are equal the save carries the cached text, but for an
edit not counted yet.  It holds because only a deletion resets the counter, and
nothing is saved after one.  `DirtyIsNeverForgotten` looks at the one way a text
could stay unsaved for good, the flag going away: `FlagWriters` finds MarkClean and
Clear as the only steps that take it from dirty to anything else, `HasSaved` has the
version behind the first and `ClearsDeleted` the committed deletion behind the second.
It does not say that the text of the cache is the one recorded, which is false
(`CleanMeansPersisted`).  What does hold is `ChecksLoseOnlyRacingEdits`: without faults
and deletion a save that sets `dirty = false` saved the text in the cache, or an edit was
counted since it read the counter, or one is under way that is not counted yet.  The
run shows that such an edit can be lost; the theorem says that no other can.  It
needs `CheckInv` up to the last step of a save (`Carries`), where it no longer looks at
the counter: until then equal counters still mean the same text.

**Tokens.** `TokensInv` has the rows (`SharedInv`: numbers handed out are the rows
there are, at most one active row per family) and what a goroutine knows
(`GoodTask`): a refresh past its `SELECT ... FOR UPDATE` holds the row of its token
and that row is active; a suspension holds the user and has locked, or will still
lock, every active token it saw; what a login read of the user is not newer than
the row.  Without the row lock in it, two refreshes could both insert a successor.

`RefreshTokens` has deadlocks, which PostgreSQL ends.  `DeadlocksNeedABulkUpdate` says
whose they are: in every circle of waiting transactions the UPDATE of a suspension, a
deletion or the cleanup waits for another transaction that locks the rows of its own.  Refreshes, logouts and the handling of a reuse never
deadlock among themselves.  The argument is an order: the active row of a family is
its newest (`ActiveIsNewest`), because `Exchange` takes a new number and ends the old
row in one transaction, so a handling of a reuse holds an older row and wants a newer
one (`Orderly`); if all in a circle did so, the one that wants the newest could not
wait for anybody in it (`NewestOfSome`).  A bulk UPDATE locks in any order, which
is what breaks it; TLC finds such circles, also with a reuse in them.

**Access.** `AccessInv` says of a task past its checks that its caller is the host of
its workspace and is not its target.  It is not disturbed by others because the
host of a workspace never changes, which is part of the same invariant: this is why
reads made long before the transaction do no harm to who writes.  They do to when:
`LateInv` says of whoever has written late to a workspace that it has not got past
the read that would refuse it (`BeforeTheCheck`) in its next operation there.  Other
goroutines cannot undo that, since `late` forgets a workspace in the step that puts
it in order again.

**Hub.** `HubInv` has four parts besides the types.  `HubSteps`: who is in the hub is
between `Register` and `Unregister`, and was ready before.  `Reached`: whoever is
there with an open socket is in the hub or about to be closed.  `Late`: a
connection whose edit was checked has no late edit yet, because the check would
have refused it.  `Sought`: who lost the right and is in the hub, or past the last
check on the way to it, is covered by a notification still in `plan`, or is in
`raced`.  `Moves` reduces the steps to what they do to one connection and the hub,
so that each part is proved over a dozen cases and not over all actions.
What the browsers show has an invariant of its own, `ViewInv`.  While no change met
another or a join, there is one change at a time, which is being written, announced
or sent (`OneChange`); what is announced or sent is the content (`SendsContent`);
and each browser shows the content once its queue is empty, or it is still to be
sent to it (`Seen`).

**Presence.** The limit needs that every connection that counts is a member of its
set (`Counted`); that there are no ghosts needs a witness for every editor, and that
the last one to leave finds the set empty (`Backed`); that the open are listed needs
that nobody is about to remove an editor who is there (`Listed`).

**Page.** `PageInv` accounts for the last change at the server: it is on its way
down, shown, or one of the named cases (`Accounted`), and the last of what is on its
way down is what the server has (`LastIsLatest`).

**Limits.** `BurstInv`: what the meter shows and what the bucket will give at once,
for the time since its own, are together at most `Capacity + MaxDelay`, and more only
by what steps back of the bucket's time have given twice (`setBack`); and a bucket is
lost only when the meter is back at `setBack`, so that the full one in its place
gives nothing away.  The second part needs a bucket that outlives the delay of a
request twice.  TLC refutes `BurstIsBounded` without it (capacity 1, lifetime 2,
delay 3); the code has it, with a lifetime of a minute or more
(`redis/rate_limit.go:175-178`) and calls that are given up after half a minute at
most (`config/env.go:131`), and `BucketAssumption` says so.  `LoginInv`: without a lock
the count of failures is exact; when the lock is set the wrong passwords are
`MaxFailures`, and from then on only logins that had passed `IsLoginLocked` add to
them, each once.

**Tab.** `TabInv`: a call waits only for a refresh under way, and only `close()` ends a
subscription or suppresses reconnects.  A step that opens a socket therefore belongs
to a page that is not closed; a left-over socket that was open before may stay so.  `NotStranded` says what keeps a wanted connection
going: a living socket, a timer, a refresh that is waited for, or a page that said it
gave up.  No interleaving of timers, events and refreshes loses all four; a terminal
close code on a socket in use does, in silence, and is named (`dismissed`).

**What liveness rests on.** A liveness property needs fairness, which TLAPS cannot
use, and a fact that it can: that there is always a step to be fair to, or that
something shrinks.  That fact is proved for each of them.  `SavesNeverWait`:
every goroutine that works on a document has a step, with the lock taken or free
(`persistDocument` gives way to a taken lock), a taken lock has a holder that goes
on or a TTL that runs, and a dirty document finds every autosave goroutine
saving or free to begin.  `WaitingIsNeverInVain`: who waits for a row waits for a
goroutine that holds it, and of all under way one can go on or some wait for each
other, which PostgreSQL finds.  `LockoutsWearOff`: a lockout has an expiry, no step
puts it off, every tick shortens it.  `NobodyHasToWait`: whoever has to send can send
or close the next client at once.  `ConnectionIsNeverStranded`: see above.  They speak
of the guards of the actions (`CanAdvance`, `CanStep`, `CanSend`, ...), since ENABLED is
out of the prover's reach; TLC has compared these guards with ENABLED in every state
of the runs' instances.

That there is a step is half of it; the other half is that steps run out.  For each
kind of goroutine there is a number that every step of its own lowers and nothing
but the beginning of its next operation raises, whatever the others do.
`OperationsEnd`: an operation on a document takes at most twelve steps, the unlocking
included.  `OperationsRunOut`: one on the tokens takes at most three more than there
are rows, since a statement locks each row it saw once.  `SendingRunsOut`: a request
has at most two notifications, and each is two steps at most for every client of the
snapshot it took; nobody who joins later lengthens it.  `HandlersEnd`: a connection has
at most seven commands to Redis to go, failed ones counted.  What is left to
fairness is that the goroutine is scheduled, and for `EveryOperationEnds` that nobody is
passed over for ever when a row becomes free.

**Only model-checked.** The liveness properties themselves (`DirtyIsEventuallySaved`,
`LockIsEventuallyReleased`, `EveryOperationEnds`, `LockoutEnds`, `ComesBackOrGivesUp`)
and `NobodyWaits`, which is about ENABLED.

## Not modelled

* Titles, actors, audit records (written in the same transactions), time stamps;
  the reading operations (`GetVersion`, `ListVersions`, `ListDocuments`,
  `ListMembers`, `SearchUser`, `GetWorkspace`, `ListWorkspaces`, `GetCurrentUser`); `CreateVersion`
  (no caller outside the tests).
* `Register`, but for the user it leaves behind.  Failed writes of a transaction roll
  it back and are a failure before it.  Shutdown's flush is an autosave that begins
  before the idle time, which `BeginAutosave` allows.
* In `EditorPresence` the deletion of the document, which clears the list of its editors
  with the cache and disconnects them.
* An error of Redis while a failed login is recorded: the failure is then not counted.
* The signature and parsing of tokens; the origin check of a WebSocket.
* In the client: the retry of a request after a refresh, the login form, the race of
  a logout with a refresh in the session context (a hazard without a property), the
  pages beside the editor, React's double effects in development.
* Routing, DTOs, configuration, CSRF tokens, rendering and the backup: no state
  whose order matters, or pure input and output.

## What a next step would be

* One module for `EditorPresence` and `LiveDocument` together, for what the browsers
  show of the list of editors; both are small enough, their product is not yet.
* The session context of the client beside `BrowserTab`: logout, login and the refresh
  under way.
