------------------------ MODULE DocumentPersistence ------------------------
(***************************************************************************)
(* One document between the editors and the database.                      *)
(*                                                                         *)
(* Edits go to Redis only (three keys: content, autosave flag, revision    *)
(* counter).  The autosave goroutine of every server, a manual save, a     *)
(* restore, a delete and the deletion of the workspace move the content to *)
(* PostgreSQL and record versions.  Every Redis command and every database *)
(* transaction is one step, so the steps of different operations           *)
(* interleave; a transaction is atomic because each one starts with        *)
(* SELECT ... FOR UPDATE on the row of the document.                       *)
(*                                                                         *)
(* Documents do not share any key, row or lock, so one document stands for *)
(* all.  Who may call an operation is not modelled here.                   *)
(***************************************************************************)
EXTENDS DocumentEntity

CONSTANTS NoContent,       \* "the content key does not exist"
          Autosavers,      \* autosave goroutines, one per server
          Requests,        \* goroutines that serve HTTP and WebSocket requests
          LockMayExpire,   \* may a save take longer than the TTL of its lock?
          MaxRequests,     \* bound: requests begun in a behaviour
          MaxFaults        \* bound: failed calls and crashes in a behaviour

ASSUME NoContentAssumption == NoContent \notin Contents
ASSUME ProcessesAssumption == Autosavers \cap Requests = {}
ASSUME LockMayExpireAssumption == LockMayExpire \in BOOLEAN
ASSUME BoundsAssumption == MaxRequests \in Nat /\ MaxFaults \in Nat

VARIABLES row,        \* the row of table "documents"
          versions,   \* the rows of table "document_versions"
          cache,      \* the Redis keys document:<id>:{content,autosave,revision}
          lock,       \* does the key lock:document:<id>:autosave exist?
          task,       \* what each goroutine is doing, with its local variables
          begun,      \* requests begun so far
          faults      \* failures so far

database == <<row, versions>>
redis == <<cache, lock>>
vars == <<row, versions, cache, lock, task, begun, faults>>

Processes == Autosavers \cup Requests

EmptyCache == [content |-> NoContent, autosave |-> "none", revision |-> 0]

Caches == [content : Contents \cup {NoContent},
           autosave : {"none", "dirty", "clean"}, revision : Nat]

(***************************************************************************)
(* The operations and their control points.  "held" is the content the     *)
(* operation carries, "target" the version a restore goes back to,         *)
(* "startRevision" the counter a save read first, "failed" whether the     *)
(* save returned an error.                                                 *)
(***************************************************************************)
Operations == {"none", "edit", "manual", "restore", "delete", "flush", "autosave"}

\* The control points of persistDocument after it took the autosave lock.
LockedSteps == {"recheck", "startRevision", "readContent", "saveTx",
                "endRevision", "cleanGet", "cleanSet", "unlock"}

Steps == LockedSteps \cup
  {"idle", "setContent", "setDirty", "incr", "current", "versionTx",
   "flushCheck", "tryLock", "deleteTx", "clear"}

Saves == {"autosave", "flush", "delete"}   \* the operations that call persistDocument

Idle == [op |-> "none", step |-> "idle", held |-> NoContent, target |-> NoContent,
         startRevision |-> 0, failed |-> FALSE]

Tasks == [op : Operations, step : Steps, held : Contents \cup {NoContent},
          target : Contents \cup {NoContent}, startRevision : Nat, failed : BOOLEAN]

At(p, op, step) == task[p].op \in op /\ task[p].step = step

Goto(p, step) == task' = [task EXCEPT ![p].step = step]

Finish(p) == task' = [task EXCEPT ![p] = Idle]

Init ==
  /\ row = NewDocument(InitialContent)
  /\ versions = {}
  /\ cache = EmptyCache
  /\ lock = FALSE
  /\ task = [p \in Processes |-> Idle]
  /\ begun = 0
  /\ faults = 0
----------------------------------------------------------------------------
(***************************************************************************)
(* Requests.  Every one starts with loadDoc, which refuses a deleted row;  *)
(* the row may be deleted at any time after that.                          *)
(***************************************************************************)
Begin(r, op, step, held, target) ==
  /\ task[r] = Idle
  /\ begun < MaxRequests
  /\ ~row.deleted
  /\ begun' = begun + 1
  /\ task' = [task EXCEPT ![r] =
       [Idle EXCEPT !.op = op, !.step = step, !.held = held, !.target = target]]
  /\ UNCHANGED <<database, redis, faults>>

ApplyDocumentEdit(r) ==
  \E content \in Contents : Begin(r, "edit", "setContent", content, NoContent)

SaveManualVersion(r) == Begin(r, "manual", "current", row.content, NoContent)

RestoreVersion(r) ==
  \E v \in versions : Begin(r, "restore", "current", row.content, v.content)

DeleteDocument(r) == Begin(r, "delete", "flushCheck", NoContent, NoContent)

FlushWorkspaceDocument(r) == Begin(r, "flush", "flushCheck", NoContent, NoContent)

\* A tick of the autosave loop found the document dirty and idle for long
\* enough, and persistDocument read the flag once more before its lock.
BeginAutosave(a) ==
  /\ task[a] = Idle
  /\ cache.autosave = "dirty"
  /\ task' = [task EXCEPT ![a] = [Idle EXCEPT !.op = "autosave", !.step = "tryLock"]]
  /\ UNCHANGED <<database, redis, begun, faults>>
----------------------------------------------------------------------------
(***************************************************************************)
(* DocumentCacheStore.SetContent: SET content, SET autosave, INCR revision. *)
(* An edit and a restore end with it; a manual save goes on to MarkClean.  *)
(***************************************************************************)
SetContent(p) ==
  /\ At(p, {"edit", "manual", "restore"}, "setContent")
  /\ cache' = [cache EXCEPT !.content = task[p].held]
  /\ Goto(p, "setDirty")
  /\ UNCHANGED <<database, lock, begun, faults>>

SetDirty(p) ==
  /\ At(p, {"edit", "manual", "restore"}, "setDirty")
  /\ cache' = [cache EXCEPT !.autosave = "dirty"]
  /\ Goto(p, "incr")
  /\ UNCHANGED <<database, lock, begun, faults>>

IncrementRevision(p) ==
  /\ At(p, {"edit", "manual", "restore"}, "incr")
  /\ cache' = [cache EXCEPT !.revision = @ + 1]
  /\ IF task[p].op = "manual" THEN Goto(p, "cleanGet") ELSE Finish(p)
  /\ UNCHANGED <<database, lock, begun, faults>>

(***************************************************************************)
(* DocumentCacheStore.MarkClean: GET autosave, then SET it with dirty =    *)
(* false, whatever was written in between.  persistDocument returns after  *)
(* it, through its deferred Unlock; so does the manual save, without one.  *)
(***************************************************************************)
AfterMarkClean(p) == IF task[p].op = "manual" THEN Finish(p) ELSE Goto(p, "unlock")

MarkCleanGet(p) ==
  /\ At(p, Saves \cup {"manual"}, "cleanGet")
  /\ IF cache.autosave = "none" THEN AfterMarkClean(p) ELSE Goto(p, "cleanSet")
  /\ UNCHANGED <<database, redis, begun, faults>>

MarkCleanSet(p) ==
  /\ At(p, Saves \cup {"manual"}, "cleanSet")
  /\ cache' = [cache EXCEPT !.autosave = "clean"]
  /\ AfterMarkClean(p)
  /\ UNCHANGED <<database, lock, begun, faults>>
----------------------------------------------------------------------------
(***************************************************************************)
(* persistDocument, as called by autosave, by the flush before a delete    *)
(* and by the flush before a workspace is deleted.                         *)
(***************************************************************************)

\* The flush before a delete is followed by the delete unless it failed.
AfterFlush(p) ==
  IF task[p].op = "delete" /\ ~task[p].failed THEN Goto(p, "deleteTx") ELSE Finish(p)

FlushCheck(p) ==
  /\ At(p, {"delete", "flush"}, "flushCheck")
  /\ IF cache.autosave = "dirty" THEN Goto(p, "tryLock") ELSE AfterFlush(p)
  /\ UNCHANGED <<database, redis, begun, faults>>

\* Mutant: SET instead of SET NX.
TryLockWithoutNX(p) ==
  /\ At(p, Saves, "tryLock")
  /\ lock' = TRUE
  /\ Goto(p, "recheck")
  /\ UNCHANGED <<database, cache, begun, faults>>

TryLock(p) ==
  /\ At(p, Saves, "tryLock")
  /\ ~lock
  /\ lock' = TRUE
  /\ Goto(p, "recheck")
  /\ UNCHANGED <<database, cache, begun, faults>>

\* Somebody else holds the lock: persistDocument returns nil, so a delete goes on.
TryLockBusy(p) ==
  /\ At(p, Saves, "tryLock")
  /\ lock
  /\ AfterFlush(p)
  /\ UNCHANGED <<database, redis, begun, faults>>

\* Mutant: the condition of the early return inverted.
RecheckInverted(p) ==
  /\ At(p, Saves, "recheck")
  /\ Goto(p, IF cache.autosave = "dirty" THEN "unlock" ELSE "startRevision")
  /\ UNCHANGED <<database, redis, begun, faults>>

RecheckDirty(p) ==
  /\ At(p, Saves, "recheck")
  /\ Goto(p, IF cache.autosave = "dirty" THEN "startRevision" ELSE "unlock")
  /\ UNCHANGED <<database, redis, begun, faults>>

ReadStartRevision(p) ==
  /\ At(p, Saves, "startRevision")
  /\ task' = [task EXCEPT ![p].startRevision = cache.revision, ![p].step = "readContent"]
  /\ UNCHANGED <<database, redis, begun, faults>>

ReadContent(p) ==
  /\ At(p, Saves, "readContent")
  /\ IF cache.content = NoContent
       THEN Goto(p, "unlock")
       ELSE task' = [task EXCEPT ![p].held = cache.content, ![p].step = "saveTx"]
  /\ UNCHANGED <<database, redis, begun, faults>>

\* Mutant: the version is made from the document read before ReplaceContent.
SaveTxStaleVersion(p) ==
  /\ At(p, Saves, "saveTx")
  /\ \/ row.deleted /\ Goto(p, "unlock") /\ UNCHANGED database
     \/ /\ ~row.deleted
        /\ row' = ReplaceContent(row, task[p].held)
        /\ versions' = versions \cup {NewDocumentVersion(row, task[p].held, "auto_save")}
        /\ Goto(p, "endRevision")
  /\ UNCHANGED <<redis, begun, faults>>

\* Mutant: no IsDeleted check.
SaveTxOfDeleted(p) ==
  /\ At(p, Saves, "saveTx")
  /\ row' = ReplaceContent(row, task[p].held)
  /\ versions' = versions \cup {NewDocumentVersion(row', task[p].held, "auto_save")}
  /\ Goto(p, "endRevision")
  /\ UNCHANGED <<redis, begun, faults>>

\* Mutant: a deleted document counts as saved.
SaveTxSkipsAndGoesOn(p) ==
  /\ At(p, Saves, "saveTx")
  /\ \/ row.deleted /\ UNCHANGED database
     \/ /\ ~row.deleted
        /\ row' = ReplaceContent(row, task[p].held)
        /\ versions' = versions \cup {NewDocumentVersion(row', task[p].held, "auto_save")}
  /\ Goto(p, "endRevision")
  /\ UNCHANGED <<redis, begun, faults>>

\* The transaction.  A deleted document is skipped without an error, and
\* without MarkClean.
SaveTx(p) ==
  /\ At(p, Saves, "saveTx")
  /\ \/ /\ row.deleted
        /\ Goto(p, "unlock")
        /\ UNCHANGED database
     \/ /\ ~row.deleted
        /\ row' = ReplaceContent(row, task[p].held)
        /\ versions' = versions \cup
             {NewDocumentVersion(row', task[p].held,
                IF task[p].op = "autosave" THEN "auto_save" ELSE "manual_save")}
        /\ Goto(p, "endRevision")
  /\ UNCHANGED <<redis, begun, faults>>

\* Mutant: the revision is not compared.
EndRevisionIgnored(p) ==
  /\ At(p, Saves, "endRevision")
  /\ Goto(p, "cleanGet")
  /\ UNCHANGED <<database, redis, begun, faults>>

ReadEndRevision(p) ==
  /\ At(p, Saves, "endRevision")
  /\ Goto(p, IF cache.revision = task[p].startRevision THEN "cleanGet" ELSE "unlock")
  /\ UNCHANGED <<database, redis, begun, faults>>

\* The deferred Unlock: DEL, whoever created the key.
Unlock(p) ==
  /\ At(p, Saves, "unlock")
  /\ lock' = FALSE
  /\ AfterFlush(p)
  /\ UNCHANGED <<database, cache, begun, faults>>
----------------------------------------------------------------------------
(***************************************************************************)
(* SaveManualVersion, RestoreVersion and DeleteDocument.                   *)
(***************************************************************************)

\* Mutant: the cached content, also when there is none.
CurrentContentWithoutRow(r) ==
  /\ At(r, {"manual", "restore"}, "current")
  /\ task' = [task EXCEPT ![r].step = "versionTx", ![r].held = cache.content]
  /\ UNCHANGED <<database, redis, begun, faults>>

\* currentContent: the cached content, else that of the row loadDoc read.
ReadCurrentContent(r) ==
  /\ At(r, {"manual", "restore"}, "current")
  /\ task' = [task EXCEPT ![r].step = "versionTx",
                          ![r].held = IF cache.content = NoContent THEN @ ELSE cache.content]
  /\ UNCHANGED <<database, redis, begun, faults>>

\* The row is deleted by now: the transaction fails, and so does the request.
RefuseDeleted(r) ==
  /\ row.deleted
  /\ \/ At(r, {"manual", "restore"}, "versionTx")
     \/ At(r, {"delete"}, "deleteTx")
  /\ Finish(r)
  /\ UNCHANGED <<database, redis, begun, faults>>

ManualSaveTx(r) ==
  /\ At(r, {"manual"}, "versionTx")
  /\ ~row.deleted
  /\ row' = IF row.content = task[r].held THEN row ELSE ReplaceContent(row, task[r].held)
  /\ versions' = versions \cup {NewDocumentVersion(row', task[r].held, "manual_save")}
  /\ Goto(r, "setContent")
  /\ UNCHANGED <<redis, begun, faults>>

\* Mutant: what the restore replaces is not kept.
RestoreTxForgets(r) ==
  /\ At(r, {"restore"}, "versionTx")
  /\ ~row.deleted
  /\ row' = ReplaceContent(row, task[r].target)
  /\ versions' = versions \cup {NewDocumentVersion(row', task[r].target, "restore")}
  /\ task' = [task EXCEPT ![r].held = task[r].target, ![r].step = "setContent"]
  /\ UNCHANGED <<redis, begun, faults>>

RestoreTx(r) ==
  /\ At(r, {"restore"}, "versionTx")
  /\ ~row.deleted
  /\ row' = ReplaceContent(row, task[r].target)
  /\ versions' = versions \cup
       {NewDocumentVersion(row, task[r].held, "before_restore"),
        NewDocumentVersion(row', task[r].target, "restore")}
  /\ task' = [task EXCEPT ![r].held = task[r].target, ![r].step = "setContent"]
  /\ UNCHANGED <<redis, begun, faults>>

DeleteTx(r) ==
  /\ At(r, {"delete"}, "deleteTx")
  /\ ~row.deleted
  /\ row' = LogicalDelete(row)
  /\ Goto(r, "clear")
  /\ UNCHANGED <<versions, redis, begun, faults>>

ClearCache(r) ==
  /\ At(r, {"delete"}, "clear")
  /\ cache' = EmptyCache
  /\ Finish(r)
  /\ UNCHANGED <<database, lock, begun, faults>>
----------------------------------------------------------------------------
(***************************************************************************)
(* Failures, at most MaxFaults of them.                                    *)
(***************************************************************************)
Fault == faults < MaxFaults /\ faults' = faults + 1

\* The process stops, or an operation that holds no lock returns the error of
\* a failed call: nothing after the last step happens.
Crash(p) ==
  /\ task[p] # Idle
  /\ Fault
  /\ Finish(p)
  /\ UNCHANGED <<database, redis, begun>>

\* A call of a save fails under the lock: the deferred Unlock still runs.
SaveFails(p) ==
  /\ \E step \in LockedSteps \ {"unlock"} : At(p, Saves, step)
  /\ Fault
  /\ task' = [task EXCEPT ![p].step = "unlock", ![p].failed = TRUE]
  /\ UNCHANGED <<database, redis, begun>>

\* The deferred Unlock fails and is only logged: the key stays until its TTL.
UnlockFails(p) ==
  /\ At(p, Saves, "unlock")
  /\ Fault
  /\ AfterFlush(p)
  /\ UNCHANGED <<database, redis, begun>>

HoldsLock(p) == task[p].op \in Saves /\ task[p].step \in LockedSteps

\* Mutant: the key is set without a TTL.
LockNeverExpires == lock /\ ~lock /\ UNCHANGED vars

\* The TTL of the lock elapses: after its holder is gone or, if a save may be
\* that slow, under it.
LockExpires ==
  /\ lock
  /\ LockMayExpire \/ \A p \in Processes : ~HoldsLock(p)
  /\ lock' = FALSE
  /\ UNCHANGED <<database, cache, task, begun, faults>>
----------------------------------------------------------------------------
BeginRequest(r) ==
  \/ ApplyDocumentEdit(r)
  \/ SaveManualVersion(r)
  \/ RestoreVersion(r)
  \/ DeleteDocument(r)
  \/ FlushWorkspaceDocument(r)

PersistStep(p) ==
  \/ TryLock(p)
  \/ TryLockBusy(p)
  \/ RecheckDirty(p)
  \/ ReadStartRevision(p)
  \/ ReadContent(p)
  \/ SaveTx(p)
  \/ ReadEndRevision(p)
  \/ MarkCleanGet(p)
  \/ MarkCleanSet(p)
  \/ Unlock(p)

RequestStep(r) ==
  \/ SetContent(r)
  \/ SetDirty(r)
  \/ IncrementRevision(r)
  \/ FlushCheck(r)
  \/ ReadCurrentContent(r)
  \/ RefuseDeleted(r)
  \/ ManualSaveTx(r)
  \/ RestoreTx(r)
  \/ DeleteTx(r)
  \/ ClearCache(r)

Advance(p) == PersistStep(p) \/ RequestStep(p)

Failure(p) == Crash(p) \/ SaveFails(p) \/ UnlockFails(p)

Next ==
  \/ \E r \in Requests : BeginRequest(r)
  \/ \E a \in Autosavers : BeginAutosave(a)
  \/ \E p \in Processes : Advance(p) \/ Failure(p)
  \/ LockExpires

Spec == Init /\ [][Next]_vars

(***************************************************************************)
(* The ticker of the autosave loop keeps firing, a call that was made      *)
(* returns or fails, and a Redis key with a TTL goes away.  Nothing obliges *)
(* a user to make a request.                                               *)
(***************************************************************************)
Fairness ==
  /\ \A a \in Autosavers : WF_vars(BeginAutosave(a))
  /\ \A p \in Processes : WF_vars(Advance(p))
  /\ WF_vars(LockExpires)

FairSpec == Spec /\ Fairness
----------------------------------------------------------------------------
TypeOK ==
  /\ row \in Documents
  /\ versions \subseteq Versions
  /\ cache \in Caches
  /\ lock \in BOOLEAN
  /\ task \in [Processes -> Tasks]
  /\ begun \in 0 .. MaxRequests
  /\ faults \in 0 .. MaxFaults

\* The database part behaves as one document changed by one transaction after
\* the other, whatever the cache, the lock and the failures do around it.
History == INSTANCE DocumentHistory

ImplementsHistory == History!Spec

\* The content of the row can be read back from the history, however saves,
\* restores and deletes interleave, also when the lock of a slow save expired.
CurrentRevisionIsVersioned == IsVersioned(row, versions)

\* A revision number names one text, also when two saves run at once.
RevisionDeterminesContent == OneContentPerRevision(versions)

\* Whoever is about to clear the dirty flag has committed, with a version,
\* the content it read: a save that was refused or failed leaves the flag.
SavedBeforeClean ==
  \A p \in Processes :
    task[p].step \in {"cleanGet", "cleanSet"} =>
      \E v \in versions : v.type \in RecordTypes /\ v.content = task[p].held

\* At most one goroutine is between TryLock and Unlock, as long as no save
\* outlives the TTL of its lock.
AutosaveMutualExclusion ==
  \A p, q \in Processes : HoldsLock(p) /\ HoldsLock(q) => p = q

\* After a deletion committed neither the row nor the history changes, not
\* even by a save, restore or delete that read the row before.
DeletedIsFrozen == [][row.deleted => UNCHANGED database]_vars

\* When a save decides to mark the document clean it has saved what the cache
\* holds, except for an edit whose content is there but whose revision is not
\* yet counted, and for failed edits.
RevisionCheckIsSound ==
  [][\A p \in Processes :
       /\ task[p].step = "endRevision"
       /\ task'[p].step = "cleanGet"
       /\ faults = 0
       /\ ~row.deleted
       => \/ cache.content = task[p].held
          \/ \E q \in Processes : task[q].step \in {"setDirty", "incr"}]_vars

Quiet == \A p \in Processes : task[p] = Idle

\* A document that nobody works on and that is marked clean has its cached
\* content in the database.
CleanMeansPersisted ==
  Quiet /\ cache.autosave = "clean" /\ faults = 0 => cache.content = row.content

\* A manual save does not put an older text over one that is not saved.
ManualSaveKeepsEdits ==
  [][\A p \in Processes :
       /\ At(p, {"manual"}, "setContent")
       /\ task'[p].step = "setDirty"
       /\ cache.autosave = "dirty"
       => \/ cache.content = task[p].held
          \/ \E v \in versions : v.content = cache.content]_vars

\* Somebody will mark the document clean for another text than "content": a save
\* past its comparison of the counters, a manual save, which compares nothing,
\* or a save whose comparison cannot see an edit that is not counted: its INCR
\* is still to come or, after a failure, never will.
Overlooked(content) ==
  \E p \in Processes :
    /\ task[p].held # content
    /\ \/ task[p].step \in {"cleanGet", "cleanSet"}
       \/ task[p].op = "manual" /\ task[p].step \in {"setDirty", "incr"}
       \/ /\ task[p].step \in {"saveTx", "endRevision"}
          /\ \/ \E q \in Processes : task[q].step \in {"setDirty", "incr"}
             \/ faults > 0 /\ task[p].startRevision = cache.revision

\* A text that is cached and dirty is recorded by a version in the end, unless
\* another text replaces it in the cache or the document is deleted: failed
\* saves, crashes, a lock left behind and saves of older texts only delay it.
\* Exempt are the texts that a save under way has overlooked already.
DirtyIsEventuallySaved ==
  \A content \in Contents :
    (cache.content = content /\ cache.autosave = "dirty" /\ ~Overlooked(content))
      ~> \/ \E v \in versions : v.content = content
         \/ cache.content # content
         \/ row.deleted

\* The autosave lock never stays, not even when its holder crashed.
LockIsEventuallyReleased == lock ~> ~lock
=============================================================================
