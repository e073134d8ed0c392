--------------------- MODULE DocumentPersistenceProofs ---------------------
(***************************************************************************)
(* What holds of DocumentPersistence for any number of servers, requests,  *)
(* failures and texts.                                                     *)
(***************************************************************************)
EXTENDS DocumentPersistence, FiniteSetTheorems, TLAPS

(***************************************************************************)
(* Facts about rows and versions as values.                                *)
(***************************************************************************)

\* Rows and versions written by a transaction are rows and versions.
LEMMA EntityTypes ==
  ASSUME NEW doc \in Documents, NEW c \in Contents, NEW t \in VersionTypes
  PROVE  /\ ReplaceContent(doc, c) \in Documents
         /\ ReplaceContent(doc, c).revision = doc.revision + 1
         /\ ReplaceContent(doc, c).content = c
         /\ LogicalDelete(doc) \in Documents
         /\ NewDocumentVersion(doc, c, t) \in Versions
         /\ NewDocumentVersion(doc, c, t).revision = doc.revision
         /\ NewDocumentVersion(doc, c, t).content = c
         /\ NewDocumentVersion(doc, c, t).type = t
<1>1. doc.revision \in Nat \ {0} /\ doc.revision + 1 \in Nat \ {0}
  BY DEF Documents
<1>2. /\ ReplaceContent(doc, c) \in Documents
      /\ ReplaceContent(doc, c).revision = doc.revision + 1
      /\ ReplaceContent(doc, c).content = c
  BY <1>1 DEF Documents, ReplaceContent
<1>3. LogicalDelete(doc) \in Documents
  BY DEF Documents, LogicalDelete
<1>4. NewDocumentVersion(doc, c, t) \in Versions
  BY <1>1 DEF Versions, NewDocumentVersion
<1>5. QED
  BY <1>2, <1>3, <1>4 DEF NewDocumentVersion

\* The types a save, a restore and the copy before a restore record.
LEMMA Kinds ==
  /\ "auto_save" \in RecordTypes
  /\ "manual_save" \in RecordTypes
  /\ "restore" \in RecordTypes
  /\ RecordTypes \subseteq VersionTypes
  /\ "before_restore" \in VersionTypes \ RecordTypes
  BY DEF RecordTypes, VersionTypes

\* A well recorded row: the invariant behind IsVersioned.  The last conjunct is
\* not inductive without the second, since a new version must not meet an older
\* one of the same revision.
WellRecorded(doc, vs) ==
  /\ doc \in Documents
  /\ vs \subseteq Versions
  /\ IsVersioned(doc, vs)
  /\ NotAhead(doc, vs)
  /\ OneContentPerRevision(vs)

LEMMA NewDocumentIsWellRecorded == WellRecorded(NewDocument(InitialContent), {})
  BY InitialContentAssumption
  DEF WellRecorded, NewDocument, Documents, Versions, IsVersioned, NotAhead,
      OneContentPerRevision

\* Going to the next revision and recording it, next to versions of type
\* before_restore.
LEMMA NextRevisionIsWellRecorded ==
  ASSUME NEW doc, NEW vs, WellRecorded(doc, vs),
         NEW c \in Contents, NEW t \in RecordTypes,
         NEW extra \in SUBSET Versions, \A v \in extra : v.type \notin RecordTypes
  PROVE  WellRecorded(ReplaceContent(doc, c),
                      (vs \cup extra) \cup {NewDocumentVersion(ReplaceContent(doc, c), c, t)})
<1> DEFINE next == ReplaceContent(doc, c)
           new == NewDocumentVersion(next, c, t)
           ws == (vs \cup extra) \cup {new}
<1>1. doc \in Documents /\ vs \subseteq Versions /\ t \in VersionTypes
  BY Kinds DEF WellRecorded
<1>2. next \in Documents /\ next.revision = doc.revision + 1 /\ next.content = c
  BY <1>1, EntityTypes
<1> HIDE DEF next
<1>3. /\ new \in Versions /\ new.type = t
      /\ new.revision = next.revision /\ new.content = c
  BY <1>1, <1>2, EntityTypes
<1> HIDE DEF new
<1>4. new \in ws /\ ws \subseteq Versions
  BY <1>1, <1>3
<1>5. \A v \in ws : v.type \in RecordTypes => v = new \/ v \in vs
  OBVIOUS
<1> HIDE DEF ws
<1>6. doc.revision \in Nat /\ \A v \in vs : v.revision \in Nat
  BY <1>1 DEF Documents, Versions
<1>7. \A v \in vs : v.type \in RecordTypes => v.revision < next.revision
  BY <1>2, <1>6 DEF WellRecorded, NotAhead
<1>8. IsVersioned(next, ws)
  BY <1>2, <1>3, <1>4 DEF IsVersioned
<1>9. NotAhead(next, ws)
  BY <1>2, <1>3, <1>5, <1>6, <1>7 DEF NotAhead
<1>10. OneContentPerRevision(ws)
  BY <1>3, <1>5, <1>6, <1>7, <1>2 DEF WellRecorded, OneContentPerRevision
<1>11. WellRecorded(next, ws)
  BY <1>2, <1>4, <1>8, <1>9, <1>10 DEF WellRecorded
<1>12. QED
  BY <1>11 DEF next, new, ws

\* Recording the content the row already has.
LEMMA SnapshotIsWellRecorded ==
  ASSUME NEW doc, NEW vs, WellRecorded(doc, vs)
  PROVE  WellRecorded(doc, vs \cup {NewDocumentVersion(doc, doc.content, "manual_save")})
<1> DEFINE new == NewDocumentVersion(doc, doc.content, "manual_save")
<1>1. doc \in Documents /\ doc.content \in Contents /\ doc.revision \in Nat
  BY DEF WellRecorded, Documents
<1>2. "manual_save" \in RecordTypes /\ "manual_save" \in VersionTypes
  BY Kinds
<1>3. /\ new \in Versions /\ new.type \in RecordTypes
      /\ new.revision = doc.revision /\ new.content = doc.content
  BY <1>1, <1>2, EntityTypes
<1> HIDE DEF new
<1>4. IsVersioned(doc, vs \cup {new})
  BY <1>3 DEF IsVersioned
<1>5. NotAhead(doc, vs \cup {new})
  BY <1>1, <1>3 DEF WellRecorded, NotAhead
<1>6. OneContentPerRevision(vs \cup {new})
  BY <1>3 DEF WellRecorded, NotAhead, OneContentPerRevision
<1>7. QED
  BY <1>3, <1>4, <1>5, <1>6 DEF WellRecorded, new

LEMMA DeletedIsWellRecorded ==
  ASSUME NEW doc, NEW vs, WellRecorded(doc, vs)
  PROVE  WellRecorded(LogicalDelete(doc), vs)
<1>1. /\ LogicalDelete(doc) \in Documents
      /\ LogicalDelete(doc).content = doc.content
      /\ LogicalDelete(doc).revision = doc.revision
  BY DEF WellRecorded, LogicalDelete, Documents
<1>2. QED
  BY <1>1 DEF WellRecorded, IsVersioned, NotAhead, OneContentPerRevision
----------------------------------------------------------------------------
(***************************************************************************)
(* What a goroutine knows at each of its control points, given the         *)
(* versions stored so far.                                                 *)
(***************************************************************************)

\* It carries a content wherever it may write one.
CarriesContent(t) ==
  \/ t.op \in {"edit", "manual", "restore"}
  \/ t.step \in {"saveTx", "endRevision", "cleanGet", "cleanSet"}
  => t.held \in Contents

\* A restore goes back to a version that exists.
HasSource(t, vs) ==
  t.op = "restore" => \E v \in vs : v.content = t.target

\* A save after its transaction, and a manual save after its own, carries a
\* content that a version records.
HasSaved(t, vs) ==
  \/ t.op \in Saves /\ t.step \in {"endRevision", "cleanGet", "cleanSet"}
  \/ t.op = "manual" /\ t.step \in {"setContent", "setDirty", "incr", "cleanGet", "cleanSet"}
  => \E v \in vs : v.type \in RecordTypes /\ v.content = t.held

\* Only saves and manual saves mark a document clean.
MayClean(t) == t.step \in {"cleanGet", "cleanSet"} => t.op \in Saves \cup {"manual"}

GoodTask(t, vs) ==
  /\ CarriesContent(t)
  /\ HasSource(t, vs)
  /\ HasSaved(t, vs)
  /\ MayClean(t)

PersistenceInv ==
  /\ TypeOK
  /\ \A p \in Processes : GoodTask(task[p], versions)
----------------------------------------------------------------------------
LEMMA GoodTaskIsMonotone ==
  ASSUME NEW t, NEW vs, NEW ws, vs \subseteq ws, GoodTask(t, vs)
  PROVE  GoodTask(t, ws)
  BY DEF GoodTask, CarriesContent, HasSource, HasSaved, MayClean

\* The constants of the control structure are tasks and steps.
LEMMA IdleIsGood ==
  /\ Idle \in Tasks
  /\ \A vs : GoodTask(Idle, vs)
<1>1. Idle \in Tasks
  BY DEF Idle, Tasks, Operations, Steps, LockedSteps
<1>2. \A vs : GoodTask(Idle, vs)
  BY DEF Idle, GoodTask, CarriesContent, HasSource, HasSaved, MayClean, Saves
<1>3. QED
  BY <1>1, <1>2

\* A step changes the task of one goroutine, and it is enough that the new
\* task is good and that no version disappears.
LEMMA OneTask ==
  ASSUME PersistenceInv,
         NEW p \in Processes, NEW t \in Tasks,
         task' = [task EXCEPT ![p] = t],
         GoodTask(t, versions'),
         versions \subseteq versions'
  PROVE  /\ task' \in [Processes -> Tasks]
         /\ \A q \in Processes : GoodTask(task'[q], versions')
<1>1. task \in [Processes -> Tasks]
  BY DEF PersistenceInv, TypeOK
<1>2. task' \in [Processes -> Tasks]
  BY <1>1
<1>3. ASSUME NEW q \in Processes
      PROVE  GoodTask(task'[q], versions')
  <2>1. CASE q = p
    BY <1>1, <2>1
  <2>2. CASE q # p
    <3>1. task'[q] = task[q]
      BY <1>1, <2>2
    <3>2. GoodTask(task[q], versions)
      BY DEF PersistenceInv
    <3>3. QED
      BY <3>1, <3>2, GoodTaskIsMonotone
  <2>3. QED
    BY <2>1, <2>2
<1>4. QED
  BY <1>2, <1>3

\* The invariant, once the database is known to keep its types.
LEMMA InvFromOneTask ==
  ASSUME PersistenceInv,
         NEW p \in Processes, NEW t \in Tasks,
         task' = [task EXCEPT ![p] = t],
         GoodTask(t, versions'),
         row' \in Documents, versions' \subseteq Versions, versions \subseteq versions',
         cache' \in Caches, lock' \in BOOLEAN,
         begun' \in 0 .. MaxRequests, faults' \in 0 .. MaxFaults
  PROVE  PersistenceInv'
  BY OneTask DEF PersistenceInv, TypeOK

LEMMA Initially == Init => PersistenceInv
<1> SUFFICES ASSUME Init PROVE PersistenceInv
  OBVIOUS
<1>1. row \in Documents /\ versions \subseteq Versions
  BY InitialContentAssumption DEF Init, NewDocument, Documents
<1>2. cache \in Caches /\ lock \in BOOLEAN
  BY DEF Init, EmptyCache, Caches
<1>3. begun \in 0 .. MaxRequests /\ faults \in 0 .. MaxFaults
  BY BoundsAssumption DEF Init
<1>4. task \in [Processes -> Tasks] /\ \A p \in Processes : GoodTask(task[p], versions)
  BY IdleIsGood DEF Init
<1>5. QED
  BY <1>1, <1>2, <1>3, <1>4 DEF PersistenceInv, TypeOK
----------------------------------------------------------------------------
\* What the invariant says of one goroutine and of the shared state.
LEMMA Facts ==
  ASSUME PersistenceInv, NEW p \in Processes
  PROVE  /\ task[p] \in Tasks
         /\ GoodTask(task[p], versions)
         /\ row \in Documents /\ versions \subseteq Versions
         /\ cache \in Caches /\ lock \in BOOLEAN
         /\ begun \in 0 .. MaxRequests /\ faults \in 0 .. MaxFaults
  BY DEF PersistenceInv, TypeOK

\* A step that leaves the database alone.
LEMMA QuietStep ==
  ASSUME PersistenceInv,
         NEW p \in Processes, NEW t \in Tasks,
         task' = [task EXCEPT ![p] = t],
         GoodTask(t, versions),
         UNCHANGED database,
         cache' \in Caches, lock' \in BOOLEAN,
         begun' \in 0 .. MaxRequests, faults' \in 0 .. MaxFaults
  PROVE  PersistenceInv'
<1>1. row' = row /\ versions' = versions
  BY DEF database
<1>2. QED
  BY <1>1, Facts, InvFromOneTask

\* Going to another control point with the same local variables.
LEMMA GotoStep ==
  ASSUME PersistenceInv,
         NEW p \in Processes, NEW s \in Steps,
         Goto(p, s),
         GoodTask([task[p] EXCEPT !.step = s], versions),
         UNCHANGED database,
         cache' \in Caches, lock' \in BOOLEAN, UNCHANGED <<begun, faults>>
  PROVE  PersistenceInv'
<1> DEFINE t == [task[p] EXCEPT !.step = s]
<1>1. t \in Tasks
  BY Facts DEF Tasks
<1>2. task' = [task EXCEPT ![p] = t]
  BY DEF Goto
<1>3. QED
  BY <1>1, <1>2, Facts, QuietStep

LEMMA FinishStep ==
  ASSUME PersistenceInv,
         NEW p \in Processes,
         Finish(p),
         UNCHANGED database,
         cache' \in Caches, lock' \in BOOLEAN, UNCHANGED begun,
         faults' \in 0 .. MaxFaults
  PROVE  PersistenceInv'
<1>1. task' = [task EXCEPT ![p] = Idle]
  BY DEF Finish
<1>2. QED
  BY <1>1, Facts, IdleIsGood, QuietStep

\* The steps at which a task knows nothing more than at any other.
PlainSteps == Steps \ {"saveTx", "endRevision", "cleanGet", "cleanSet",
                       "setContent", "setDirty", "incr"}

LEMMA PlainStepIsGood ==
  ASSUME NEW t \in Tasks, NEW vs, GoodTask(t, vs), NEW s \in PlainSteps
  PROVE  /\ s \in Steps
         /\ GoodTask([t EXCEPT !.step = s], vs)
  BY DEF PlainSteps, Tasks, GoodTask, CarriesContent, HasSource, HasSaved, MayClean

LEMMA AfterFlushStep ==
  ASSUME PersistenceInv,
         NEW p \in Processes,
         AfterFlush(p),
         UNCHANGED database,
         cache' \in Caches, lock' \in BOOLEAN, UNCHANGED <<begun, faults>>
  PROVE  PersistenceInv'
<1>1. CASE Goto(p, "deleteTx")
  <2>1. "deleteTx" \in PlainSteps
    BY DEF PlainSteps, Steps, LockedSteps
  <2>2. QED
    BY <1>1, <2>1, Facts, PlainStepIsGood, GotoStep
<1>2. CASE Finish(p)
  BY <1>2, Facts, FinishStep
<1>3. QED
  BY <1>1, <1>2 DEF AfterFlush
----------------------------------------------------------------------------
\* Beginning a request preserves the invariant.
LEMMA BeginRequestStep ==
  ASSUME PersistenceInv, NEW r \in Requests, BeginRequest(r)
  PROVE  PersistenceInv'
<1>1. r \in Processes
  BY DEF Processes
<1>2. begun \in 0 .. MaxRequests /\ begun < MaxRequests => begun + 1 \in 0 .. MaxRequests
  BY BoundsAssumption
<1>3. ASSUME NEW op \in Operations, NEW step \in Steps,
             NEW held \in Contents \cup {NoContent}, NEW target \in Contents \cup {NoContent},
             Begin(r, op, step, held, target),
             GoodTask([Idle EXCEPT !.op = op, !.step = step, !.held = held,
                                   !.target = target], versions)
      PROVE  PersistenceInv'
  <2> DEFINE t == [Idle EXCEPT !.op = op, !.step = step, !.held = held, !.target = target]
  <2>1. t \in Tasks
    BY DEF Idle, Tasks
  <2>2. task' = [task EXCEPT ![r] = t]
    BY <1>3 DEF Begin
  <2>3. /\ UNCHANGED database /\ cache' = cache /\ lock' = lock
        /\ faults' = faults /\ begun' \in 0 .. MaxRequests
    BY <1>1, <1>2, <1>3, Facts DEF Begin, redis
  <2> HIDE DEF t
  <2>4. QED
    BY <1>1, <1>3, <2>1, <2>2, <2>3, Facts, QuietStep DEF t
<1>4. row.content \in Contents /\ \A v \in versions : v.content \in Contents
  BY <1>1, Facts DEF Documents, Versions
<1>5. CASE ApplyDocumentEdit(r)
  <2>1. PICK content \in Contents : Begin(r, "edit", "setContent", content, NoContent)
    BY <1>5 DEF ApplyDocumentEdit
  <2>2. GoodTask([Idle EXCEPT !.op = "edit", !.step = "setContent", !.held = content,
                              !.target = NoContent], versions)
    BY DEF Idle, GoodTask, CarriesContent, HasSource, HasSaved, MayClean, Saves
  <2>3. "edit" \in Operations /\ "setContent" \in Steps
    BY DEF Operations, Steps
  <2>4. QED
    BY <1>3, <2>1, <2>2, <2>3
<1>6. CASE SaveManualVersion(r)
  <2>1. GoodTask([Idle EXCEPT !.op = "manual", !.step = "current", !.held = row.content,
                              !.target = NoContent], versions)
    BY <1>4 DEF Idle, GoodTask, CarriesContent, HasSource, HasSaved, MayClean, Saves
  <2>2. "manual" \in Operations /\ "current" \in Steps
    BY DEF Operations, Steps
  <2>3. QED
    BY <1>3, <1>4, <1>6, <2>1, <2>2 DEF SaveManualVersion
<1>7. CASE RestoreVersion(r)
  <2>1. PICK v \in versions : Begin(r, "restore", "current", row.content, v.content)
    BY <1>7 DEF RestoreVersion
  <2>2. GoodTask([Idle EXCEPT !.op = "restore", !.step = "current", !.held = row.content,
                              !.target = v.content], versions)
    BY <1>4 DEF Idle, GoodTask, CarriesContent, HasSource, HasSaved, MayClean, Saves
  <2>3. "restore" \in Operations /\ "current" \in Steps
    BY DEF Operations, Steps
  <2>4. QED
    BY <1>3, <1>4, <2>1, <2>2, <2>3
<1>8. ASSUME NEW op \in {"delete", "flush"}, Begin(r, op, "flushCheck", NoContent, NoContent)
      PROVE  PersistenceInv'
  <2>1. GoodTask([Idle EXCEPT !.op = op, !.step = "flushCheck", !.held = NoContent,
                              !.target = NoContent], versions)
    BY DEF Idle, GoodTask, CarriesContent, HasSource, HasSaved, MayClean, Saves
  <2>2. op \in Operations /\ "flushCheck" \in Steps
    BY DEF Operations, Steps
  <2>3. QED
    BY <1>3, <1>8, <2>1, <2>2
<1>9. CASE DeleteDocument(r)
  BY <1>8, <1>9 DEF DeleteDocument
<1>10. CASE FlushWorkspaceDocument(r)
  BY <1>8, <1>10 DEF FlushWorkspaceDocument
<1>11. QED
  BY <1>5, <1>6, <1>7, <1>9, <1>10 DEF BeginRequest

\* A tick of the autosave loop preserves the invariant.
LEMMA BeginAutosaveStep ==
  ASSUME PersistenceInv, NEW a \in Autosavers, BeginAutosave(a)
  PROVE  PersistenceInv'
<1> DEFINE t == [Idle EXCEPT !.op = "autosave", !.step = "tryLock"]
<1>1. a \in Processes
  BY DEF Processes
<1>2. t \in Tasks
  BY DEF Idle, Tasks, Operations, Steps
<1>3. GoodTask(t, versions)
  BY DEF Idle, GoodTask, CarriesContent, HasSource, HasSaved, MayClean, Saves
<1>4. /\ task' = [task EXCEPT ![a] = t] /\ UNCHANGED database
      /\ UNCHANGED <<cache, lock, begun, faults>>
  BY DEF BeginAutosave, redis
<1> HIDE DEF t
<1>5. QED
  BY <1>1, <1>2, <1>3, <1>4, Facts, QuietStep
----------------------------------------------------------------------------
\* SetContent and MarkClean preserve the invariant.
LEMMA CacheSteps ==
  ASSUME PersistenceInv, NEW p \in Processes,
         \/ SetContent(p) \/ SetDirty(p) \/ IncrementRevision(p)
         \/ MarkCleanGet(p) \/ MarkCleanSet(p) \/ ClearCache(p)
  PROVE  PersistenceInv'
<1>1. /\ task[p] \in Tasks /\ GoodTask(task[p], versions)
      /\ cache \in Caches /\ lock \in BOOLEAN
      /\ faults \in 0 .. MaxFaults
  BY Facts
<1>2. {"setDirty", "incr", "cleanGet", "cleanSet", "unlock"} \subseteq Steps
  BY DEF Steps, LockedSteps
<1>3. ASSUME task[p].op \in {"edit", "manual", "restore"},
             task[p].step \in {"setContent", "setDirty", "incr"}
      PROVE  /\ task[p].held \in Contents
             /\ GoodTask([task[p] EXCEPT !.step = "setDirty"], versions)
             /\ GoodTask([task[p] EXCEPT !.step = "incr"], versions)
             /\ task[p].op = "manual" =>
                  GoodTask([task[p] EXCEPT !.step = "cleanGet"], versions)
  BY <1>1, <1>3 DEF Tasks, GoodTask, CarriesContent, HasSource, HasSaved, MayClean, Saves
<1>4. CASE SetContent(p)
  <2>1. cache' \in Caches
    BY <1>1, <1>3, <1>4 DEF SetContent, At, Caches
  <2>2. QED
    BY <1>1, <1>2, <1>3, <1>4, <2>1, GotoStep DEF SetContent, At
<1>5. CASE SetDirty(p)
  <2>1. cache' \in Caches
    BY <1>1, <1>5 DEF SetDirty, Caches
  <2>2. QED
    BY <1>1, <1>2, <1>3, <1>5, <2>1, GotoStep DEF SetDirty, At
<1>6. CASE IncrementRevision(p)
  <2>1. cache' \in Caches
    BY <1>1, <1>6 DEF IncrementRevision, Caches
  <2>2. CASE task[p].op = "manual"
    BY <1>1, <1>2, <1>3, <1>6, <2>1, <2>2, GotoStep DEF IncrementRevision, At
  <2>3. CASE task[p].op # "manual"
    BY <1>1, <1>6, <2>1, <2>3, FinishStep DEF IncrementRevision
  <2>4. QED
    BY <2>2, <2>3
<1>7. ASSUME task[p].op \in Saves \cup {"manual"}, AfterMarkClean(p),
             UNCHANGED database, cache' \in Caches, UNCHANGED <<lock, begun, faults>>
      PROVE  PersistenceInv'
  <2>1. "unlock" \in PlainSteps
    BY DEF PlainSteps, Steps, LockedSteps
  <2>2. CASE Goto(p, "unlock")
    BY <1>1, <1>7, <2>1, <2>2, PlainStepIsGood, GotoStep
  <2>3. CASE Finish(p)
    BY <1>1, <1>7, <2>3, FinishStep
  <2>4. QED
    BY <1>7, <2>2, <2>3 DEF AfterMarkClean
<1>8. CASE MarkCleanGet(p)
  <2>1. CASE Goto(p, "cleanSet")
    <3>1. GoodTask([task[p] EXCEPT !.step = "cleanSet"], versions)
      BY <1>1, <1>8 DEF MarkCleanGet, At, Tasks, GoodTask, CarriesContent, HasSource,
         HasSaved, MayClean, Saves
    <3>2. QED
      BY <1>1, <1>2, <1>8, <2>1, <3>1, GotoStep DEF MarkCleanGet, redis
  <2>2. CASE AfterMarkClean(p)
    BY <1>1, <1>7, <1>8, <2>2 DEF MarkCleanGet, redis, At
  <2>3. QED
    BY <1>8, <2>1, <2>2 DEF MarkCleanGet
<1>9. CASE MarkCleanSet(p)
  <2>1. cache' \in Caches
    BY <1>1, <1>9 DEF MarkCleanSet, Caches
  <2>2. QED
    BY <1>1, <1>7, <1>9, <2>1 DEF MarkCleanSet, At
<1>10. CASE ClearCache(p)
  <2>1. cache' \in Caches
    BY <1>10 DEF ClearCache, EmptyCache, Caches
  <2>2. QED
    BY <1>1, <1>10, <2>1, FinishStep DEF ClearCache
<1>11. QED
  BY <1>4, <1>5, <1>6, <1>8, <1>9, <1>10

\* The steps of persistDocument outside its transaction, and the refusal of a
\* deleted document.
LEMMA SaveSteps ==
  ASSUME PersistenceInv, NEW p \in Processes,
         \/ FlushCheck(p) \/ TryLock(p) \/ TryLockBusy(p) \/ RecheckDirty(p)
         \/ ReadStartRevision(p) \/ ReadContent(p) \/ ReadEndRevision(p)
         \/ Unlock(p) \/ ReadCurrentContent(p) \/ RefuseDeleted(p)
  PROVE  PersistenceInv'
<1>1. /\ task[p] \in Tasks /\ GoodTask(task[p], versions)
      /\ cache \in Caches /\ lock \in BOOLEAN
      /\ begun \in 0 .. MaxRequests /\ faults \in 0 .. MaxFaults
  BY Facts
<1>2. ASSUME NEW s \in {"tryLock", "recheck", "startRevision", "readContent", "unlock"},
             Goto(p, s), UNCHANGED <<database, cache, begun, faults>>, lock' \in BOOLEAN
      PROVE  PersistenceInv'
  <2>1. s \in PlainSteps
    BY DEF PlainSteps, Steps, LockedSteps
  <2>2. cache' \in Caches
    BY <1>1, <1>2
  <2>3. QED
    BY <1>1, <1>2, <2>1, <2>2, PlainStepIsGood, GotoStep
<1>3. CASE FlushCheck(p)
  <2>1. CASE Goto(p, "tryLock")
    BY <1>1, <1>2, <1>3, <2>1 DEF FlushCheck, redis
  <2>2. CASE AfterFlush(p)
    BY <1>1, <1>3, <2>2, AfterFlushStep DEF FlushCheck, redis
  <2>3. QED
    BY <1>3, <2>1, <2>2 DEF FlushCheck
<1>4. CASE TryLock(p)
  BY <1>1, <1>2, <1>4 DEF TryLock
<1>5. CASE TryLockBusy(p)
  BY <1>1, <1>5, AfterFlushStep DEF TryLockBusy, redis
<1>6. CASE RecheckDirty(p)
  BY <1>1, <1>2, <1>6 DEF RecheckDirty, redis
<1>7. CASE ReadStartRevision(p)
  <2> DEFINE t == [task[p] EXCEPT !.startRevision = cache.revision, !.step = "readContent"]
  <2>1. cache.revision \in Nat /\ "readContent" \in Steps
    BY <1>1 DEF Caches, Steps, LockedSteps
  <2>2. t \in Tasks
    BY <1>1, <2>1 DEF Tasks
  <2>3. GoodTask(t, versions)
    BY <1>1 DEF Tasks, GoodTask, CarriesContent, HasSource, HasSaved, MayClean
  <2>4. task' = [task EXCEPT ![p] = t]
    BY <1>1, <1>7, Facts DEF ReadStartRevision, PersistenceInv, TypeOK
  <2> HIDE DEF t
  <2>5. QED
    BY <1>1, <1>7, <2>2, <2>3, <2>4, QuietStep DEF ReadStartRevision, redis
<1>8. CASE ReadContent(p)
  <2>1. CASE Goto(p, "unlock")
    BY <1>1, <1>2, <1>8, <2>1 DEF ReadContent, redis
  <2>2. CASE /\ cache.content # NoContent
             /\ task' = [task EXCEPT ![p].held = cache.content, ![p].step = "saveTx"]
    <3> DEFINE t == [task[p] EXCEPT !.held = cache.content, !.step = "saveTx"]
    <3>1. cache.content \in Contents /\ "saveTx" \in Steps
      BY <1>1, <2>2 DEF Caches, Steps, LockedSteps
    <3>2. t \in Tasks
      BY <1>1, <3>1 DEF Tasks
    <3>3. GoodTask(t, versions)
      BY <1>1, <1>8, <3>1 DEF ReadContent, At, Saves, Tasks, GoodTask, CarriesContent,
         HasSource, HasSaved, MayClean
    <3>4. task' = [task EXCEPT ![p] = t]
      BY <2>2 DEF PersistenceInv, TypeOK
    <3> HIDE DEF t
    <3>5. QED
      BY <1>1, <1>8, <3>2, <3>3, <3>4, QuietStep DEF ReadContent, redis
  <2>3. QED
    BY <1>8, <2>1, <2>2 DEF ReadContent
<1>9. CASE ReadEndRevision(p)
  <2>1. CASE Goto(p, "unlock")
    BY <1>1, <1>2, <1>9, <2>1 DEF ReadEndRevision, redis
  <2>2. CASE Goto(p, "cleanGet")
    <3>1. "cleanGet" \in Steps /\ GoodTask([task[p] EXCEPT !.step = "cleanGet"], versions)
      BY <1>1, <1>9 DEF ReadEndRevision, At, Steps, LockedSteps, Saves, Tasks, GoodTask,
         CarriesContent, HasSource, HasSaved, MayClean
    <3>2. QED
      BY <1>1, <1>9, <2>2, <3>1, GotoStep DEF ReadEndRevision, redis
  <2>3. QED
    BY <1>9, <2>1, <2>2 DEF ReadEndRevision
<1>10. CASE Unlock(p)
  BY <1>1, <1>10, AfterFlushStep DEF Unlock
<1>11. CASE ReadCurrentContent(p)
  <2> DEFINE h == IF cache.content = NoContent THEN task[p].held ELSE cache.content
             t == [task[p] EXCEPT !.step = "versionTx", !.held = h]
  <2>1. task[p].held \in Contents /\ task[p].op \in {"manual", "restore"}
    BY <1>1, <1>11 DEF ReadCurrentContent, At, GoodTask, CarriesContent
  <2>2. h \in Contents /\ "versionTx" \in Steps
    BY <1>1, <2>1 DEF Caches, Steps
  <2>3. task' = [task EXCEPT ![p] = t]
    BY <1>11 DEF ReadCurrentContent, PersistenceInv, TypeOK
  <2> HIDE DEF h
  <2>4. t \in Tasks
    BY <1>1, <2>2 DEF Tasks
  <2>5. GoodTask(t, versions)
    BY <1>1, <2>1, <2>2 DEF Saves, Tasks, GoodTask, CarriesContent, HasSource, HasSaved,
       MayClean
  <2> HIDE DEF t
  <2>6. QED
    BY <1>1, <1>11, <2>3, <2>4, <2>5, QuietStep DEF ReadCurrentContent, redis
<1>12. CASE RefuseDeleted(p)
  BY <1>1, <1>12, FinishStep DEF RefuseDeleted, redis
<1>13. QED
  BY <1>3, <1>4, <1>5, <1>6, <1>7, <1>8, <1>9, <1>10, <1>11, <1>12
----------------------------------------------------------------------------
LEMMA SaveTxStep ==
  ASSUME PersistenceInv, NEW p \in Processes, SaveTx(p)
  PROVE  PersistenceInv'
<1>1. /\ task[p] \in Tasks /\ GoodTask(task[p], versions)
      /\ row \in Documents /\ versions \subseteq Versions
      /\ cache \in Caches /\ lock \in BOOLEAN
      /\ begun \in 0 .. MaxRequests /\ faults \in 0 .. MaxFaults
  BY Facts
<1>2. CASE Goto(p, "unlock") /\ UNCHANGED database
  <2>1. "unlock" \in PlainSteps
    BY DEF PlainSteps, Steps, LockedSteps
  <2>2. QED
    BY <1>1, <1>2, <2>1, PlainStepIsGood, GotoStep DEF SaveTx, redis
<1>3. ASSUME NEW type \in RecordTypes,
             row' = ReplaceContent(row, task[p].held),
             versions' = versions \cup {NewDocumentVersion(row', task[p].held, type)},
             Goto(p, "endRevision")
      PROVE  PersistenceInv'
  <2> DEFINE t == [task[p] EXCEPT !.step = "endRevision"]
             v == NewDocumentVersion(row', task[p].held, type)
  <2>1. task[p].held \in Contents
    BY <1>1 DEF SaveTx, At, GoodTask, CarriesContent
  <2>2. row' \in Documents
    BY <1>1, <1>3, <2>1, EntityTypes, Kinds
  <2>3. v \in Versions /\ v.type \in RecordTypes /\ v.content = task[p].held
    BY <2>1, <2>2, EntityTypes, Kinds
  <2>4. versions' = versions \cup {v}
    BY <1>3
  <2> HIDE DEF v
  <2>5. t \in Tasks
    BY <1>1 DEF Tasks, Steps, LockedSteps
  <2>6. GoodTask(t, versions')
    BY <1>1, <2>1, <2>3, <2>4 DEF SaveTx, At, Saves, Tasks, GoodTask, CarriesContent,
       HasSource, HasSaved, MayClean
  <2>7. task' = [task EXCEPT ![p] = t]
    BY <1>3 DEF Goto
  <2> HIDE DEF t
  <2>8. QED
    BY <1>1, <2>2, <2>3, <2>4, <2>5, <2>6, <2>7, InvFromOneTask DEF SaveTx, redis
<1>4. (IF task[p].op = "autosave" THEN "auto_save" ELSE "manual_save") \in RecordTypes
  BY Kinds
<1>5. QED
  BY <1>2, <1>3, <1>4 DEF SaveTx

LEMMA ManualSaveTxStep ==
  ASSUME PersistenceInv, NEW p \in Processes, ManualSaveTx(p)
  PROVE  PersistenceInv'
<1> DEFINE t == [task[p] EXCEPT !.step = "setContent"]
           v == NewDocumentVersion(row', task[p].held, "manual_save")
<1>1. /\ task[p] \in Tasks /\ GoodTask(task[p], versions)
      /\ row \in Documents /\ versions \subseteq Versions
      /\ cache \in Caches /\ lock \in BOOLEAN
      /\ begun \in 0 .. MaxRequests /\ faults \in 0 .. MaxFaults
  BY Facts
<1>2. task[p].held \in Contents
  BY <1>1 DEF ManualSaveTx, At, GoodTask, CarriesContent
<1>3. row' \in Documents
  BY <1>1, <1>2, EntityTypes, Kinds DEF ManualSaveTx
<1>4. v \in Versions /\ v.type \in RecordTypes /\ v.content = task[p].held
  <2>1. "manual_save" \in VersionTypes /\ "manual_save" \in RecordTypes
    BY Kinds
  <2>2. QED
    BY <1>2, <1>3, <2>1, EntityTypes
<1>5. versions' = versions \cup {v}
  BY DEF ManualSaveTx
<1> HIDE DEF v
<1>6. t \in Tasks
  BY <1>1 DEF Tasks, Steps
<1>7. GoodTask(t, versions')
  BY <1>1, <1>2, <1>4, <1>5 DEF ManualSaveTx, At, Saves, Tasks, GoodTask, CarriesContent,
     HasSource, HasSaved, MayClean
<1>8. task' = [task EXCEPT ![p] = t]
  BY DEF ManualSaveTx, Goto
<1> HIDE DEF t
<1>9. QED
  BY <1>1, <1>3, <1>4, <1>5, <1>6, <1>7, <1>8, InvFromOneTask DEF ManualSaveTx, redis

LEMMA RestoreTxStep ==
  ASSUME PersistenceInv, NEW p \in Processes, RestoreTx(p)
  PROVE  PersistenceInv'
<1> DEFINE t == [task[p] EXCEPT !.held = task[p].target, !.step = "setContent"]
           before == NewDocumentVersion(row, task[p].held, "before_restore")
           restored == NewDocumentVersion(row', task[p].target, "restore")
<1>1. /\ task[p] \in Tasks /\ GoodTask(task[p], versions)
      /\ row \in Documents /\ versions \subseteq Versions
      /\ cache \in Caches /\ lock \in BOOLEAN
      /\ begun \in 0 .. MaxRequests /\ faults \in 0 .. MaxFaults
  BY Facts
<1>2. task[p].held \in Contents /\ task[p].op = "restore"
  BY <1>1 DEF RestoreTx, At, GoodTask, CarriesContent
<1>3. task[p].target \in Contents
  BY <1>1, <1>2 DEF GoodTask, HasSource, Versions
<1>4. row' \in Documents
  BY <1>1, <1>3, EntityTypes, Kinds DEF RestoreTx
<1>5. before \in Versions /\ restored \in Versions
  BY <1>1, <1>2, <1>3, <1>4, EntityTypes, Kinds
<1>6. versions' = versions \cup {before, restored}
  BY DEF RestoreTx
<1> HIDE DEF before, restored
<1>7. t \in Tasks
  BY <1>1, <1>3 DEF Tasks, Steps
<1>8. GoodTask(t, versions')
  BY <1>1, <1>2, <1>3, <1>6 DEF Saves, Tasks, GoodTask, CarriesContent, HasSource,
     HasSaved, MayClean
<1>9. task' = [task EXCEPT ![p] = t]
  BY DEF RestoreTx, PersistenceInv, TypeOK
<1> HIDE DEF t
<1>10. QED
  BY <1>1, <1>4, <1>5, <1>6, <1>7, <1>8, <1>9, InvFromOneTask DEF RestoreTx, redis

LEMMA DeleteTxStep ==
  ASSUME PersistenceInv, NEW p \in Processes, DeleteTx(p)
  PROVE  PersistenceInv'
<1> DEFINE t == [task[p] EXCEPT !.step = "clear"]
<1>1. /\ task[p] \in Tasks /\ GoodTask(task[p], versions)
      /\ row \in Documents /\ versions \subseteq Versions
      /\ cache \in Caches /\ lock \in BOOLEAN
      /\ begun \in 0 .. MaxRequests /\ faults \in 0 .. MaxFaults
  BY Facts
<1>2. row' \in Documents /\ versions' = versions
  BY <1>1 DEF DeleteTx, LogicalDelete, Documents
<1>3. "clear" \in PlainSteps /\ "clear" \in Steps
  BY DEF PlainSteps, Steps, LockedSteps
<1>4. t \in Tasks /\ GoodTask(t, versions')
  BY <1>1, <1>2, <1>3, PlainStepIsGood DEF Tasks
<1>5. task' = [task EXCEPT ![p] = t]
  BY DEF DeleteTx, Goto
<1> HIDE DEF t
<1>6. QED
  BY <1>1, <1>2, <1>4, <1>5, InvFromOneTask DEF DeleteTx, redis

LEMMA FailureStep ==
  ASSUME PersistenceInv, NEW p \in Processes, Failure(p)
  PROVE  PersistenceInv'
<1>1. /\ task[p] \in Tasks /\ GoodTask(task[p], versions)
      /\ cache \in Caches /\ lock \in BOOLEAN
      /\ begun \in 0 .. MaxRequests /\ faults \in 0 .. MaxFaults
  BY Facts
<1>2. Fault => faults' \in 0 .. MaxFaults
  BY <1>1, BoundsAssumption DEF Fault
<1>3. CASE Crash(p)
  BY <1>1, <1>2, <1>3, FinishStep DEF Crash, redis
<1>4. CASE SaveFails(p)
  <2> DEFINE t == [task[p] EXCEPT !.step = "unlock", !.failed = TRUE]
  <2>1. t \in Tasks
    BY <1>1 DEF Tasks, Steps, LockedSteps
  <2>2. GoodTask(t, versions)
    BY <1>1 DEF Tasks, GoodTask, CarriesContent, HasSource, HasSaved, MayClean
  <2>3. task' = [task EXCEPT ![p] = t]
    BY <1>4 DEF SaveFails, PersistenceInv, TypeOK
  <2> HIDE DEF t
  <2>4. QED
    BY <1>1, <1>2, <1>4, <2>1, <2>2, <2>3, QuietStep DEF SaveFails, redis
<1>5. CASE UnlockFails(p)
  <2>1. CASE Goto(p, "deleteTx")
    <3> DEFINE t == [task[p] EXCEPT !.step = "deleteTx"]
    <3>1. "deleteTx" \in PlainSteps /\ "deleteTx" \in Steps
      BY DEF PlainSteps, Steps, LockedSteps
    <3>2. t \in Tasks /\ GoodTask(t, versions)
      BY <1>1, <3>1, PlainStepIsGood DEF Tasks
    <3>3. task' = [task EXCEPT ![p] = t]
      BY <2>1 DEF Goto
    <3> HIDE DEF t
    <3>4. QED
      BY <1>1, <1>2, <1>5, <3>2, <3>3, QuietStep DEF UnlockFails, redis
  <2>2. CASE Finish(p)
    BY <1>1, <1>2, <1>5, <2>2, FinishStep DEF UnlockFails, redis
  <2>3. QED
    BY <1>5, <2>1, <2>2 DEF UnlockFails, AfterFlush
<1>6. QED
  BY <1>3, <1>4, <1>5 DEF Failure

\* Every step preserves the invariant.
LEMMA NextStep == PersistenceInv /\ [Next]_vars => PersistenceInv'
<1> SUFFICES ASSUME PersistenceInv, [Next]_vars
             PROVE  PersistenceInv'
  OBVIOUS
<1>1. ASSUME NEW r \in Requests, BeginRequest(r)
      PROVE  PersistenceInv'
  BY <1>1, BeginRequestStep
<1>2. ASSUME NEW a \in Autosavers, BeginAutosave(a)
      PROVE  PersistenceInv'
  BY <1>2, BeginAutosaveStep
<1>3. ASSUME NEW p \in Processes, PersistStep(p)
      PROVE  PersistenceInv'
  BY <1>3, CacheSteps, SaveSteps, SaveTxStep DEF PersistStep
<1>4. ASSUME NEW p \in Processes, RequestStep(p)
      PROVE  PersistenceInv'
  BY <1>4, CacheSteps, SaveSteps, ManualSaveTxStep, RestoreTxStep, DeleteTxStep
  DEF RequestStep
<1>5. ASSUME NEW p \in Processes, Failure(p)
      PROVE  PersistenceInv'
  BY <1>5, FailureStep
<1>6. CASE LockExpires
  BY <1>6 DEF LockExpires, database, PersistenceInv, TypeOK
<1>7. CASE UNCHANGED vars
  BY <1>7 DEF vars, PersistenceInv, TypeOK
<1>8. QED
  BY <1>1, <1>2, <1>3, <1>4, <1>5, <1>6, <1>7 DEF Next, Advance

\* The invariant holds in every reachable state.
THEOREM PersistenceInvariant == Spec => []PersistenceInv
  BY Initially, NextStep, PTL DEF Spec

\* Every variable keeps its type: in particular every row and version stored
\* is well formed, whatever a cache lookup returned.
THEOREM TypeCorrectness == Spec => []TypeOK
<1>1. PersistenceInv => TypeOK
  BY DEF PersistenceInv
<1>2. QED
  BY <1>1, PersistenceInvariant, PTL

\* A goroutine that is about to mark the document clean has committed what it
\* read, with its version.
THEOREM SavedBeforeCleanHolds == Spec => []SavedBeforeClean
<1>1. PersistenceInv => SavedBeforeClean
  BY DEF PersistenceInv, SavedBeforeClean, GoodTask, HasSaved, MayClean
<1>2. QED
  BY <1>1, PersistenceInvariant, PTL
----------------------------------------------------------------------------
(***************************************************************************)
(* The database part implements the abstract history.                      *)
(***************************************************************************)
LEMMA HistoryEntities ==
  /\ \A doc, c : History!ReplaceContent(doc, c) = ReplaceContent(doc, c)
  /\ \A doc : History!LogicalDelete(doc) = LogicalDelete(doc)
  /\ \A doc, c, t : History!NewDocumentVersion(doc, c, t) = NewDocumentVersion(doc, c, t)
  BY DEF History!ReplaceContent, ReplaceContent, History!LogicalDelete, LogicalDelete,
     History!NewDocumentVersion, NewDocumentVersion

LEMMA HistoryInitially == Init => History!Init
  BY DEF Init, History!Init, NewDocument, History!NewDocument

\* Every step is a step of the history or leaves the database alone.
LEMMA HistoryStep == PersistenceInv /\ [Next]_vars => [History!Next]_(History!vars)
<1> SUFFICES ASSUME PersistenceInv, [Next]_vars
             PROVE  [History!Next]_(History!vars)
  OBVIOUS
<1> DEFINE Goal == [History!Next]_(History!vars)
<1>1. UNCHANGED database => Goal
  BY DEF database, History!vars
<1>2. ASSUME NEW p \in Processes, SaveTx(p)
      PROVE  Goal
  <2>1. task[p].held \in Contents
    BY <1>2, Facts DEF SaveTx, At, GoodTask, CarriesContent
  <2>2. CASE /\ ~row.deleted
             /\ row' = ReplaceContent(row, task[p].held)
             /\ versions' = versions \cup
                  {NewDocumentVersion(row', task[p].held,
                     IF task[p].op = "autosave" THEN "auto_save" ELSE "manual_save")}
    <3>1. \E type \in {"auto_save", "manual_save"} : History!Save(task[p].held, type)
      BY <2>2, HistoryEntities DEF History!Save
    <3>2. QED
      BY <2>1, <3>1 DEF History!Next
  <2>3. QED
    BY <1>1, <1>2, <2>2 DEF SaveTx
<1>3. ASSUME NEW p \in Processes, ManualSaveTx(p)
      PROVE  Goal
  <2>1. task[p].held \in Contents
    BY <1>3, Facts DEF ManualSaveTx, At, GoodTask, CarriesContent
  <2>2. CASE row.content = task[p].held
    BY <1>3, <2>2, HistoryEntities DEF ManualSaveTx, History!Snapshot, History!Next
  <2>3. CASE row.content # task[p].held
    <3>1. History!Save(task[p].held, "manual_save")
      BY <1>3, <2>3, HistoryEntities DEF ManualSaveTx, History!Save
    <3>2. QED
      BY <2>1, <3>1 DEF History!Next
  <2>4. QED
    BY <2>2, <2>3
<1>4. ASSUME NEW p \in Processes, RestoreTx(p)
      PROVE  Goal
  <2>1. /\ task[p].held \in Contents
        /\ \E v \in versions : v.content = task[p].target
    BY <1>4, Facts DEF RestoreTx, At, GoodTask, CarriesContent, HasSource
  <2>2. PICK v \in versions : v.content = task[p].target
    BY <2>1
  <2>3. History!Restore(task[p].held, v)
    BY <1>4, <2>2, HistoryEntities DEF RestoreTx, History!Restore
  <2>4. QED
    BY <2>1, <2>2, <2>3 DEF History!Next
<1>5. ASSUME NEW p \in Processes, DeleteTx(p)
      PROVE  Goal
  <2>1. History!Delete
    BY <1>5, HistoryEntities DEF DeleteTx, History!Delete
  <2>2. QED
    BY <2>1 DEF History!Next
<1>6. ASSUME NEW r \in Requests, BeginRequest(r)
      PROVE  UNCHANGED database
  BY <1>6 DEF BeginRequest, ApplyDocumentEdit, SaveManualVersion, RestoreVersion,
     DeleteDocument, FlushWorkspaceDocument, Begin
<1>7. ASSUME NEW a \in Autosavers, BeginAutosave(a)
      PROVE  UNCHANGED database
  BY <1>7 DEF BeginAutosave
<1>8. ASSUME NEW p \in Processes, PersistStep(p), ~SaveTx(p)
      PROVE  UNCHANGED database
  BY <1>8 DEF PersistStep, TryLock, TryLockBusy, RecheckDirty, ReadStartRevision,
     ReadContent, ReadEndRevision, MarkCleanGet, MarkCleanSet, Unlock
<1>9. ASSUME NEW p \in Processes, RequestStep(p),
             ~ManualSaveTx(p), ~RestoreTx(p), ~DeleteTx(p)
      PROVE  UNCHANGED database
  BY <1>9 DEF RequestStep, SetContent, SetDirty, IncrementRevision, FlushCheck,
     ReadCurrentContent, RefuseDeleted, ClearCache
<1>10. ASSUME NEW p \in Processes, Failure(p)
       PROVE  UNCHANGED database
  BY <1>10 DEF Failure, Crash, SaveFails, UnlockFails
<1>11. LockExpires => UNCHANGED database
  BY DEF LockExpires
<1>12. UNCHANGED vars => UNCHANGED database
  BY DEF vars, database
<1>13. (\E p \in Processes : Advance(p)) => Goal
  BY <1>1, <1>2, <1>3, <1>4, <1>5, <1>8, <1>9 DEF Advance
<1> HIDE DEF Goal
<1>14. Goal
  BY <1>1, <1>6, <1>7, <1>10, <1>11, <1>12, <1>13 DEF Next
<1>15. QED
  BY <1>14 DEF Goal

\* Whatever the cache, the lock, the failures and the interleaving do, the
\* database shows one document changed by one transaction after the other.
THEOREM PersistenceImplementsHistory == Spec => ImplementsHistory
  BY HistoryInitially, HistoryStep, PersistenceInvariant, PTL
  DEF Spec, ImplementsHistory, History!Spec

\* No step of the history is enabled for a deleted document.
LEMMA DeletedStep ==
  PersistenceInv /\ [Next]_vars => (row.deleted => UNCHANGED database)
<1>1. History!Next => ~row.deleted
  BY DEF History!Next, History!Save, History!Snapshot, History!Restore, History!Delete
<1>2. UNCHANGED History!vars => UNCHANGED database
  BY DEF History!vars, database
<1>3. QED
  BY <1>1, <1>2, HistoryStep

\* No transaction changes a deleted document or adds to its history.
THEOREM DeletedStaysFrozen == Spec => DeletedIsFrozen
<1>1. PersistenceInv /\ [Next]_vars => [row.deleted => UNCHANGED database]_vars
  BY DeletedStep
<1>2. QED
  BY <1>1, PersistenceInvariant, PTL DEF Spec, DeletedIsFrozen
----------------------------------------------------------------------------
(***************************************************************************)
(* No committed revision is lost.                                          *)
(***************************************************************************)

\* A step of the history keeps the row recorded.
LEMMA RecordedStep ==
  WellRecorded(row, versions) /\ [History!Next]_(History!vars)
    => WellRecorded(row', versions')
<1> SUFFICES ASSUME WellRecorded(row, versions), [History!Next]_(History!vars)
             PROVE  WellRecorded(row', versions')
  OBVIOUS
<1>1. ASSUME NEW content \in Contents, NEW type \in {"auto_save", "manual_save"},
             History!Save(content, type)
      PROVE  WellRecorded(row', versions')
  <2> DEFINE extra == {}
  <2>1. /\ row' = ReplaceContent(row, content)
        /\ versions' = (versions \cup extra) \cup
                         {NewDocumentVersion(ReplaceContent(row, content), content, type)}
    BY <1>1, HistoryEntities DEF History!Save
  <2>2. type \in RecordTypes /\ extra \in SUBSET Versions
        /\ \A v \in extra : v.type \notin RecordTypes
    BY Kinds
  <2> HIDE DEF extra
  <2>3. QED
    BY <2>1, <2>2, NextRevisionIsWellRecorded
<1>2. CASE History!Snapshot
  BY <1>2, SnapshotIsWellRecorded, HistoryEntities DEF History!Snapshot
<1>3. ASSUME NEW replaced \in Contents, NEW source \in versions,
             History!Restore(replaced, source)
      PROVE  WellRecorded(row', versions')
  <2> DEFINE before == NewDocumentVersion(row, replaced, "before_restore")
             extra == {before}
  <2>1. /\ row' = ReplaceContent(row, source.content)
        /\ versions' = (versions \cup extra) \cup
             {NewDocumentVersion(ReplaceContent(row, source.content), source.content, "restore")}
    BY <1>3, HistoryEntities DEF History!Restore
  <2>2. row \in Documents /\ source.content \in Contents
    BY DEF WellRecorded, Versions
  <2>3. before \in Versions /\ before.type \notin RecordTypes /\ "restore" \in RecordTypes
    BY <2>2, Kinds, EntityTypes
  <2>4. extra \in SUBSET Versions /\ \A v \in extra : v.type \notin RecordTypes
    BY <2>3
  <2> HIDE DEF extra
  <2>5. QED
    BY <2>1, <2>2, <2>3, <2>4, NextRevisionIsWellRecorded
<1>4. CASE History!Delete
  BY <1>4, DeletedIsWellRecorded, HistoryEntities DEF History!Delete
<1>5. CASE UNCHANGED History!vars
  BY <1>5 DEF History!vars
<1>6. QED
  BY <1>1, <1>2, <1>3, <1>4, <1>5 DEF History!Next

\* The properties of the history are those of the row and its versions.
LEMMA HistoryProperties ==
  /\ History!TypeOK <=> row \in Documents /\ versions \subseteq Versions
  /\ History!CurrentRevisionIsVersioned <=> IsVersioned(row, versions)
  /\ History!RevisionDeterminesContent <=> OneContentPerRevision(versions)
  BY DEF History!TypeOK, History!Documents, Documents, History!Versions, Versions,
         History!VersionTypes, VersionTypes, History!RecordTypes, RecordTypes,
         History!CurrentRevisionIsVersioned, History!IsVersioned, IsVersioned,
         History!RevisionDeterminesContent, History!OneContentPerRevision,
         OneContentPerRevision

\* The abstract history by itself: every revision it commits is recorded by a
\* version, and a revision names one text (ReplaceContent and
\* NewDocumentVersion always come in one transaction).
THEOREM HistoryIsKept ==
  History!Spec => [](/\ History!TypeOK
                     /\ History!CurrentRevisionIsVersioned
                     /\ History!RevisionDeterminesContent)
<1> DEFINE Inv == WellRecorded(row, versions)
<1>1. History!Init => Inv
  BY NewDocumentIsWellRecorded DEF History!Init, History!NewDocument, NewDocument
<1>2. Inv /\ [History!Next]_(History!vars) => Inv'
  BY RecordedStep
<1>3. Inv => /\ History!TypeOK
             /\ History!CurrentRevisionIsVersioned
             /\ History!RevisionDeterminesContent
  BY HistoryProperties DEF WellRecorded
<1> HIDE DEF Inv
<1>4. QED
  BY <1>1, <1>2, <1>3, PTL DEF History!Spec

\* Whatever interleaves or fails, also when the lock expires under a slow save:
\* the text the row holds is recorded by a version of its revision, and no two
\* versions record different texts under one revision.
THEOREM NoRevisionIsLost ==
  Spec => [](CurrentRevisionIsVersioned /\ RevisionDeterminesContent)
<1> DEFINE Recorded == WellRecorded(row, versions)
<1>1. Init => Recorded
  BY NewDocumentIsWellRecorded DEF Init
<1>2. PersistenceInv /\ Recorded /\ [Next]_vars => Recorded'
  BY HistoryStep, RecordedStep
<1>3. Recorded => CurrentRevisionIsVersioned /\ RevisionDeterminesContent
  BY DEF WellRecorded, CurrentRevisionIsVersioned, RevisionDeterminesContent
<1> HIDE DEF Recorded
<1>4. QED
  BY <1>1, <1>2, <1>3, PersistenceInvariant, PTL DEF Spec

\* The second half on its own: a revision names one text, so that who reads a
\* revision twice has read the same text twice (persistDocument relies on it).
THEOREM RevisionNamesOneText == Spec => []RevisionDeterminesContent
BY NoRevisionIsLost, PTL
----------------------------------------------------------------------------
(***************************************************************************)
(* The autosave lock, whether or not a save outlives its TTL.              *)
(***************************************************************************)
Holders == {p \in Processes : HoldsLock(p)}

\* The TTL ran out while somebody was still between TryLock and Unlock: from
\* here on the key says nothing about that save, whose Unlock will delete the
\* key of whoever took it next.
ExpiresUnderHolder == LockExpires /\ Holders # {}

\* History: how often that happened.
VARIABLE overruns

CountsOverruns ==
  /\ overruns = 0
  /\ [][overruns' = IF ExpiresUnderHolder THEN overruns + 1 ELSE overruns]_<<vars, overruns>>

\* One holder for the key, and one for every time the key went away under a
\* holder.  The step that deletes somebody else's key is paid by the holder
\* that leaves with it.
FewHolders ==
  /\ IsFiniteSet(Holders) /\ overruns \in Nat
  /\ Cardinality(Holders) <= (IF lock THEN 1 ELSE 0) + overruns

\* The other goroutines keep what they do.
OthersUnchanged(p) == \A q \in Processes \ {p} : task'[q] = task[q]

\* Goroutine p does not take the lock, and the key is deleted only by its holder.
LeavesLock(p) ==
  /\ OthersUnchanged(p)
  /\ HoldsLock(p)' => HoldsLock(p)
  /\ lock' = lock \/ (HoldsLock(p) /\ ~HoldsLock(p)')

LEMMA NobodyElseTakesIt ==
  ASSUME FewHolders, NEW p \in Processes, LeavesLock(p), lock \in BOOLEAN, lock' \in BOOLEAN,
         overruns' = overruns
  PROVE  FewHolders'
<1>1. Holders' \subseteq Holders
  BY DEF LeavesLock, OthersUnchanged, HoldsLock, Holders
<1>2. IsFiniteSet(Holders') /\ Cardinality(Holders') <= Cardinality(Holders)
  BY <1>1, FS_Subset DEF FewHolders
<1>3. Cardinality(Holders) \in Nat /\ Cardinality(Holders') \in Nat
  BY <1>2, FS_CardinalityType DEF FewHolders
<1>4. CASE lock' = lock
  BY <1>2, <1>3, <1>4 DEF FewHolders
<1>5. CASE HoldsLock(p) /\ ~HoldsLock(p)'
  <2>1. p \in Holders /\ Holders' \subseteq Holders \ {p}
    BY <1>1, <1>5 DEF Holders
  <2>2. IsFiniteSet(Holders \ {p}) /\ Cardinality(Holders \ {p}) = Cardinality(Holders) - 1
    BY <2>1, FS_RemoveElement DEF FewHolders
  <2>3. Cardinality(Holders') <= Cardinality(Holders) - 1
    BY <2>1, <2>2, FS_Subset
  <2>4. QED
    BY <1>2, <1>3, <2>3 DEF FewHolders
<1>6. QED
  BY <1>4, <1>5 DEF LeavesLock

\* Taking the free key.
LEMMA TakingIt ==
  ASSUME PersistenceInv, FewHolders, NEW p \in Processes, TryLock(p), overruns' = overruns
  PROVE  FewHolders'
<1>1. task \in [Processes -> Tasks] /\ ~lock /\ lock' = TRUE
  BY DEF PersistenceInv, TypeOK, TryLock
<1>2. \A q \in Processes : q # p => task'[q] = task[q]
  BY <1>1 DEF TryLock, Goto
<1>3. Holders' \subseteq Holders \cup {p}
  BY <1>2 DEF Holders, HoldsLock
<1>4. /\ IsFiniteSet(Holders \cup {p})
      /\ Cardinality(Holders \cup {p}) <= Cardinality(Holders) + 1
  <2>1. IsFiniteSet(Holders) /\ Cardinality(Holders) \in Nat
    BY FS_CardinalityType DEF FewHolders
  <2>2. /\ IsFiniteSet(Holders \cup {p})
        /\ Cardinality(Holders \cup {p}) =
             IF p \in Holders THEN Cardinality(Holders) ELSE Cardinality(Holders) + 1
    BY <2>1, FS_AddElement
  <2>3. QED
    BY <2>1, <2>2
<1>5. IsFiniteSet(Holders') /\ Cardinality(Holders') <= Cardinality(Holders \cup {p})
  BY <1>3, <1>4, FS_Subset
<1>6. /\ Cardinality(Holders) \in Nat /\ Cardinality(Holders') \in Nat
      /\ Cardinality(Holders \cup {p}) \in Nat
  BY <1>4, <1>5, FS_CardinalityType DEF FewHolders
<1>7. QED
  BY <1>1, <1>4, <1>5, <1>6 DEF FewHolders

\* The TTL: the holders stay, and the count of overruns takes over from the key.
LEMMA Expiring ==
  ASSUME PersistenceInv, FewHolders, LockExpires,
         overruns' = IF ExpiresUnderHolder THEN overruns + 1 ELSE overruns
  PROVE  FewHolders'
<1>1. lock = TRUE /\ lock' = FALSE /\ Holders' = Holders
  BY DEF LockExpires, PersistenceInv, TypeOK, Holders, HoldsLock
<1>2. Cardinality(Holders) \in Nat
  BY FS_CardinalityType DEF FewHolders
<1>3. CASE Holders = {}
  BY <1>1, <1>3, FS_EmptySet DEF FewHolders, ExpiresUnderHolder
<1>4. CASE Holders # {}
  BY <1>1, <1>2, <1>4 DEF FewHolders, ExpiresUnderHolder
<1>5. QED
  BY <1>3, <1>4

\* What the ways to leave a control point do to the task.
LEMMA Moves ==
  ASSUME PersistenceInv, NEW p \in Processes
  PROVE  /\ \A s \in Steps : Goto(p, s) =>
              /\ OthersUnchanged(p)
              /\ task'[p].op = task[p].op
              /\ task'[p].step = s
         /\ Finish(p) => OthersUnchanged(p) /\ ~HoldsLock(p)'
         /\ AfterFlush(p) => OthersUnchanged(p) /\ ~HoldsLock(p)'
<1>1. task \in [Processes -> Tasks] /\ task[p] \in Tasks
  BY DEF PersistenceInv, TypeOK
<1>2. ASSUME NEW s \in Steps, Goto(p, s)
      PROVE  OthersUnchanged(p) /\ task'[p].op = task[p].op /\ task'[p].step = s
  <2>1. task' = [task EXCEPT ![p] = [task[p] EXCEPT !.step = s]]
    BY <1>1, <1>2 DEF Goto
  <2>2. OthersUnchanged(p) /\ task'[p] = [task[p] EXCEPT !.step = s]
    BY <1>1, <2>1 DEF OthersUnchanged
  <2>3. QED
    BY <1>1, <2>2 DEF Tasks
<1>3. ASSUME Finish(p)
      PROVE  OthersUnchanged(p) /\ ~HoldsLock(p)'
  <2>1. OthersUnchanged(p) /\ task'[p] = Idle
    BY <1>1, <1>3 DEF Finish, OthersUnchanged
  <2>2. QED
    BY <2>1 DEF HoldsLock, Idle, Saves
<1>4. ASSUME AfterFlush(p)
      PROVE  OthersUnchanged(p) /\ ~HoldsLock(p)'
  <2>1. "deleteTx" \in Steps /\ "deleteTx" \notin LockedSteps
    BY DEF Steps, LockedSteps
  <2>2. QED
    BY <1>2, <1>3, <1>4, <2>1 DEF AfterFlush, HoldsLock
<1>5. QED
  BY <1>2, <1>3, <1>4

\* The steps of a save under the lock.
LEMMA SaveStepsLeaveLock ==
  ASSUME PersistenceInv, NEW p \in Processes, PersistStep(p), ~TryLock(p)
  PROVE  LeavesLock(p)
<1>1. task \in [Processes -> Tasks] /\ task[p] \in Tasks
  BY DEF PersistenceInv, TypeOK
<1>2. LockedSteps \subseteq Steps
  BY DEF Steps
<1>3. CASE TryLockBusy(p)
  BY <1>3, Moves DEF TryLockBusy, redis, LeavesLock
<1>4. CASE RecheckDirty(p)
  <2>1. PICK s \in LockedSteps : Goto(p, s)
    BY <1>4 DEF RecheckDirty, LockedSteps
  <2>2. HoldsLock(p) /\ lock' = lock
    BY <1>4 DEF RecheckDirty, At, HoldsLock, LockedSteps, redis
  <2>3. QED
    BY <1>2, <2>1, <2>2, Moves DEF LeavesLock
<1>5. CASE ReadStartRevision(p) \/ ReadContent(p)
  <2>1. HoldsLock(p) /\ lock' = lock
    BY <1>5 DEF ReadStartRevision, ReadContent, At, HoldsLock, LockedSteps, redis
  <2>2. OthersUnchanged(p)
    BY <1>1, <1>5 DEF ReadStartRevision, ReadContent, Goto, OthersUnchanged
  <2>3. QED
    BY <2>1, <2>2 DEF LeavesLock
<1>6. CASE SaveTx(p)
  <2>1. PICK s \in LockedSteps : Goto(p, s)
    BY <1>6 DEF SaveTx, LockedSteps
  <2>2. HoldsLock(p) /\ lock' = lock
    BY <1>6 DEF SaveTx, At, HoldsLock, LockedSteps, redis
  <2>3. QED
    BY <1>2, <2>1, <2>2, Moves DEF LeavesLock
<1>7. CASE ReadEndRevision(p)
  <2>1. PICK s \in LockedSteps : Goto(p, s)
    BY <1>7 DEF ReadEndRevision, LockedSteps
  <2>2. HoldsLock(p) /\ lock' = lock
    BY <1>7 DEF ReadEndRevision, At, HoldsLock, LockedSteps, redis
  <2>3. QED
    BY <1>2, <2>1, <2>2, Moves DEF LeavesLock
<1>8. CASE MarkCleanGet(p) \/ MarkCleanSet(p)
  <2>1. /\ lock' = lock
        /\ task[p].op \in Saves \/ task[p].op = "manual"
        /\ task[p].step \in {"cleanGet", "cleanSet"}
    BY <1>8 DEF MarkCleanGet, MarkCleanSet, At, redis
  <2>2. Finish(p) \/ \E s \in LockedSteps : Goto(p, s)
    BY <1>8 DEF MarkCleanGet, MarkCleanSet, AfterMarkClean, LockedSteps
  <2>3. OthersUnchanged(p) /\ (HoldsLock(p)' => task[p].op \in Saves)
    BY <1>2, <2>2, Moves DEF HoldsLock
  <2>4. QED
    BY <2>1, <2>3 DEF LeavesLock, HoldsLock, LockedSteps
<1>9. CASE Unlock(p)
  <2>1. HoldsLock(p)
    BY <1>9 DEF Unlock, At, HoldsLock, LockedSteps
  <2>2. OthersUnchanged(p) /\ ~HoldsLock(p)'
    BY <1>9, Moves DEF Unlock
  <2>3. lock' = FALSE /\ lock \in BOOLEAN
    BY <1>9 DEF Unlock, PersistenceInv, TypeOK
  <2>4. QED
    BY <2>1, <2>2, <2>3 DEF LeavesLock
<1>10. QED
  BY <1>3, <1>4, <1>5, <1>6, <1>7, <1>8, <1>9 DEF PersistStep

\* The steps of a request outside the lock.
LEMMA RequestStepsLeaveLock ==
  ASSUME PersistenceInv, NEW p \in Processes, RequestStep(p)
  PROVE  LeavesLock(p)
<1>1. task \in [Processes -> Tasks] /\ task[p] \in Tasks
  BY DEF PersistenceInv, TypeOK
<1>2. lock' = lock
  BY DEF RequestStep, SetContent, SetDirty, IncrementRevision, FlushCheck,
     ReadCurrentContent, RefuseDeleted, ManualSaveTx, RestoreTx, DeleteTx, ClearCache, redis
<1>3. {"setDirty", "incr", "setContent", "tryLock", "clear", "cleanGet"} \subseteq Steps
  BY DEF Steps, LockedSteps
<1>4. {"edit", "manual", "restore"} \cap Saves = {}
  BY DEF Saves
<1>5. CASE SetContent(p) \/ SetDirty(p) \/ IncrementRevision(p) \/ ManualSaveTx(p)
  <2>1. task[p].op \notin Saves
    BY <1>4, <1>5 DEF SetContent, SetDirty, IncrementRevision, ManualSaveTx, At
  <2>2. \/ Finish(p)
        \/ \E s \in {"setDirty", "incr", "setContent", "cleanGet"} : Goto(p, s)
    BY <1>5 DEF SetContent, SetDirty, IncrementRevision, ManualSaveTx
  <2>3. OthersUnchanged(p) /\ ~HoldsLock(p)'
    BY <1>3, <2>1, <2>2, Moves DEF HoldsLock
  <2>4. QED
    BY <1>2, <2>3 DEF LeavesLock
<1>6. CASE FlushCheck(p) \/ DeleteTx(p)
  <2>1. \/ AfterFlush(p)
        \/ \E s \in {"tryLock", "clear"} : Goto(p, s)
    BY <1>6 DEF FlushCheck, DeleteTx
  <2>2. {"tryLock", "clear"} \cap LockedSteps = {}
    BY DEF LockedSteps
  <2>3. OthersUnchanged(p) /\ ~HoldsLock(p)'
    BY <1>3, <2>1, <2>2, Moves DEF HoldsLock
  <2>4. QED
    BY <1>2, <2>3 DEF LeavesLock
<1>7. CASE ReadCurrentContent(p) \/ RestoreTx(p)
  <2>1. OthersUnchanged(p)
    BY <1>1, <1>7 DEF ReadCurrentContent, RestoreTx, OthersUnchanged
  <2>2. task'[p].op = task[p].op /\ task[p].op \notin Saves
    BY <1>1, <1>4, <1>7 DEF ReadCurrentContent, RestoreTx, At, Tasks
  <2>3. QED
    BY <1>2, <2>1, <2>2 DEF LeavesLock, HoldsLock
<1>8. CASE RefuseDeleted(p) \/ ClearCache(p)
  BY <1>2, <1>8, Moves DEF RefuseDeleted, ClearCache, LeavesLock
<1>9. QED
  BY <1>5, <1>6, <1>7, <1>8 DEF RequestStep

\* Nobody begins under the lock.
LEMMA BeginRequestLeavesLock ==
  ASSUME PersistenceInv, NEW r \in Requests, BeginRequest(r)
  PROVE  LeavesLock(r)
<1>1. PICK op \in Operations, step \in {"setContent", "current", "flushCheck"} :
        \E held, target : Begin(r, op, step, held, target)
  BY DEF BeginRequest, ApplyDocumentEdit, SaveManualVersion, RestoreVersion,
     DeleteDocument, FlushWorkspaceDocument, Operations
<1>2. PICK held, target : Begin(r, op, step, held, target)
  BY <1>1
<1> DEFINE t == [Idle EXCEPT !.op = op, !.step = step, !.held = held, !.target = target]
<1>3. task' = [task EXCEPT ![r] = t] /\ lock' = lock
  BY <1>2 DEF Begin, redis
<1>4. t.step \notin LockedSteps
  BY DEF Idle, LockedSteps
<1> HIDE DEF t
<1>5. OthersUnchanged(r) /\ task'[r] = t
  BY <1>3 DEF PersistenceInv, TypeOK, OthersUnchanged, Processes
<1>6. QED
  BY <1>3, <1>4, <1>5 DEF LeavesLock, HoldsLock

LEMMA BeginAutosaveLeavesLock ==
  ASSUME PersistenceInv, NEW a \in Autosavers, BeginAutosave(a)
  PROVE  LeavesLock(a)
<1> DEFINE t == [Idle EXCEPT !.op = "autosave", !.step = "tryLock"]
<1>1. task' = [task EXCEPT ![a] = t] /\ lock' = lock
  BY DEF BeginAutosave, redis
<1>2. t.step \notin LockedSteps
  BY DEF Idle, LockedSteps
<1> HIDE DEF t
<1>3. OthersUnchanged(a) /\ task'[a] = t
  BY <1>1 DEF PersistenceInv, TypeOK, OthersUnchanged, Processes
<1>4. QED
  BY <1>1, <1>2, <1>3 DEF LeavesLock, HoldsLock

\* A failed save keeps the lock until its Unlock; a crash leaves the key behind.
LEMMA FailureLeavesLock ==
  ASSUME PersistenceInv, NEW p \in Processes, Failure(p)
  PROVE  LeavesLock(p)
<1>1. lock' = lock
  BY DEF Failure, Crash, SaveFails, UnlockFails, redis
<1>2. CASE Crash(p) \/ UnlockFails(p)
  BY <1>1, <1>2, Moves DEF Crash, UnlockFails, LeavesLock
<1>3. CASE SaveFails(p)
  <2>1. HoldsLock(p)
    BY <1>3 DEF SaveFails, At, HoldsLock
  <2>2. OthersUnchanged(p)
    BY <1>3 DEF SaveFails, PersistenceInv, TypeOK, OthersUnchanged
  <2>3. QED
    BY <1>1, <2>1, <2>2 DEF LeavesLock
<1>4. QED
  BY <1>2, <1>3 DEF Failure

\* Every step keeps the holders few.
LEMMA LockStep ==
  ASSUME PersistenceInv, PersistenceInv', FewHolders, [Next]_vars,
         [overruns' = IF ExpiresUnderHolder THEN overruns + 1 ELSE overruns]_<<vars, overruns>>
  PROVE  FewHolders'
<1>1. lock \in BOOLEAN /\ lock' \in BOOLEAN
  BY DEF PersistenceInv, TypeOK
<1>2. CASE LockExpires
  <2>1. lock /\ ~lock'
    BY <1>2 DEF LockExpires
  <2>2. overruns' = IF ExpiresUnderHolder THEN overruns + 1 ELSE overruns
    BY <2>1 DEF vars, redis
  <2>3. QED
    BY <1>2, <2>2, Expiring
<1>3. CASE ~LockExpires
  <2>1. overruns' = overruns
    BY <1>3 DEF ExpiresUnderHolder
  <2>2. ASSUME NEW p \in Processes, Advance(p)
        PROVE  FewHolders'
    BY <1>1, <2>1, <2>2, TakingIt, SaveStepsLeaveLock, RequestStepsLeaveLock, NobodyElseTakesIt
       DEF Advance
  <2>3. ASSUME NEW p \in Processes, Failure(p)
        PROVE  FewHolders'
    BY <1>1, <2>1, <2>3, FailureLeavesLock, NobodyElseTakesIt
  <2>4. ASSUME NEW r \in Requests, BeginRequest(r)
        PROVE  FewHolders'
    BY <1>1, <2>1, <2>4, BeginRequestLeavesLock, NobodyElseTakesIt DEF Processes
  <2>5. ASSUME NEW a \in Autosavers, BeginAutosave(a)
        PROVE  FewHolders'
    BY <1>1, <2>1, <2>5, BeginAutosaveLeavesLock, NobodyElseTakesIt DEF Processes
  <2>6. CASE UNCHANGED vars
    <3>1. lock' = lock /\ Holders' = Holders
      BY <2>6 DEF vars, redis, Holders, HoldsLock
    <3>2. QED
      BY <2>1, <3>1 DEF FewHolders
  <2>7. QED
    BY <1>3, <2>2, <2>3, <2>4, <2>5, <2>6 DEF Next
<1>4. QED
  BY <1>2, <1>3

LEMMA HoldersStayFew == Spec /\ CountsOverruns => []FewHolders
<1>1. Init /\ overruns = 0 => FewHolders
  <2>1. Init => Holders = {}
    BY DEF Init, Holders, HoldsLock, Idle, Saves
  <2>2. Init => lock = FALSE
    BY DEF Init
  <2>3. QED
    BY <2>1, <2>2, FS_EmptySet DEF FewHolders
<1>2. /\ PersistenceInv /\ PersistenceInv' /\ FewHolders /\ [Next]_vars
      /\ [overruns' = IF ExpiresUnderHolder THEN overruns + 1 ELSE overruns]_<<vars, overruns>>
      => FewHolders'
  BY LockStep
<1>3. QED
  BY <1>1, <1>2, PersistenceInvariant, PTL DEF Spec, CountsOverruns

\* However slow the saves are: every further goroutine that works between
\* TryLock and Unlock was let in by a TTL that ran out under a holder.  Unlock
\* deletes the key without asking who created it, but whoever deletes the key
\* of another save leaves as it makes room.
THEOREM SlowSavesAreFew ==
  Spec /\ CountsOverruns => [](IsFiniteSet(Holders) /\ Cardinality(Holders) <= 1 + overruns)
<1>1. FewHolders => IsFiniteSet(Holders) /\ Cardinality(Holders) <= 1 + overruns
  BY FS_CardinalityType DEF FewHolders
<1>2. QED
  BY <1>1, HoldersStayFew, PTL

\* Until a TTL runs out under a holder for the first time, at most one goroutine
\* of all servers is between TryLock and Unlock, crashes and failed calls
\* included; saves may be as slow as they like, as long as none is that slow.
THEOREM LockIsExclusive ==
  Spec /\ CountsOverruns => [](overruns = 0 => AutosaveMutualExclusion)
<1>1. FewHolders /\ overruns = 0 => AutosaveMutualExclusion
  <2> SUFFICES ASSUME FewHolders, overruns = 0,
                      NEW p \in Processes, NEW q \in Processes, HoldsLock(p), HoldsLock(q), p # q
               PROVE  FALSE
    BY DEF AutosaveMutualExclusion
  <2>1. IsFiniteSet({p}) /\ Cardinality({p}) = 1
    BY FS_Singleton
  <2>2. IsFiniteSet({p} \cup {q}) /\ Cardinality({p} \cup {q}) = 2
    BY <2>1, FS_AddElement
  <2>3. {p} \cup {q} \subseteq Holders
    BY DEF Holders
  <2>4. Cardinality({p} \cup {q}) <= Cardinality(Holders) /\ Cardinality(Holders) \in Nat
    BY <2>3, FS_Subset, FS_CardinalityType DEF FewHolders
  <2>5. QED
    BY <2>2, <2>4 DEF FewHolders
<1>2. QED
  BY <1>1, HoldersStayFew, PTL
----------------------------------------------------------------------------
(***************************************************************************)
(* The revision check of persistDocument.                                  *)
(***************************************************************************)

\* An edit whose content is in the cache and whose revision is not counted yet.
Uncounted == \E q \in Processes : task[q].step \in {"setDirty", "incr"}

\* A save, not a manual one, has read its content and not marked it clean yet.
Carries(t) ==
  t.op # "manual" /\ t.step \in {"saveTx", "endRevision", "cleanGet", "cleanSet"}

\* What a save knows: the counter it read is not ahead of the cache, and as
\* long as the two are equal it carries the cached content, but for an
\* uncounted edit.
Compares(t) ==
  /\ t.step = "readContent" \/ Carries(t) => t.startRevision <= cache.revision
  /\ Carries(t) /\ t.startRevision = cache.revision => cache.content = t.held \/ Uncounted

CheckInv ==
  ~row.deleted /\ faults = 0 =>
    \A p \in Processes : task[p].step # "clear" /\ Compares(task[p])

SameText == cache'.content = cache.content /\ cache'.revision = cache.revision

\* What a step of goroutine p, which becomes t, does to a save in progress.
CheckMove(p, t) ==
  \/ /\ SameText /\ task[p].step \notin {"setDirty", "incr"}
     /\ t.step \notin {"clear", "readContent", "saveTx", "endRevision", "cleanGet", "cleanSet"}
  \/ /\ SameText /\ task[p].step = "startRevision"
     /\ t.step = "readContent" /\ t.startRevision = cache.revision
  \/ /\ SameText /\ task[p].step = "readContent"
     /\ t.step = "saveTx" /\ t.held = cache.content
     /\ t.startRevision = task[p].startRevision
  \/ /\ SameText /\ t.op = task[p].op
     /\ t.held = task[p].held /\ t.startRevision = task[p].startRevision
     /\ \/ task[p].step = "saveTx" /\ t.step = "endRevision"
        \/ /\ task[p].step = "endRevision" /\ t.step = "cleanGet"
           /\ task[p].op # "manual" /\ cache.revision = task[p].startRevision
        \/ task[p].step = "cleanGet" /\ t.step = "cleanSet"
  \/ /\ task[p].step = "setContent" /\ t.step = "setDirty"
     /\ cache'.revision = cache.revision
  \/ /\ SameText /\ task[p].step = "setDirty" /\ t.step = "incr"
  \/ /\ task[p].step = "incr" /\ (t.step = "idle" \/ (t.step = "cleanGet" /\ t.op = "manual"))
     /\ cache'.revision = cache.revision + 1

\* Every step is one of these, or something failed or is being deleted.
GivesUp(p, t) ==
  /\ t.step \in {"idle", "unlock", "deleteTx", "clear"}
  /\ t.step = "clear" => row'.deleted
  /\ faults' = faults + 1 \/ row'.deleted \/ task[p].step = "clear"

LEMMA PersistMoves ==
  ASSUME PersistenceInv, NEW p \in Processes, PersistStep(p)
  PROVE  \E t : task' = [task EXCEPT ![p] = t] /\ CheckMove(p, t)
<1>1. task \in [Processes -> Tasks] /\ task[p] \in Tasks /\ cache \in Caches
  BY DEF PersistenceInv, TypeOK
<1> DEFINE Turns(s) == [task[p] EXCEPT !.step = s]
<1>2. \A s \in Steps : /\ Goto(p, s) => task' = [task EXCEPT ![p] = Turns(s)]
                       /\ Turns(s).step = s /\ Turns(s).op = task[p].op
                       /\ Turns(s).held = task[p].held
                       /\ Turns(s).startRevision = task[p].startRevision
  BY <1>1 DEF Goto, Tasks
<1>3. Finish(p) => task' = [task EXCEPT ![p] = Idle]
  BY DEF Finish
<1>4. Idle.step = "idle"
  BY DEF Idle
<1>5. {"recheck", "startRevision", "unlock", "deleteTx", "endRevision", "cleanGet", "cleanSet",
       "saveTx", "readContent"} \subseteq Steps
  BY DEF Steps, LockedSteps
<1> HIDE DEF Turns
<1>6. CASE TryLock(p) \/ TryLockBusy(p) \/ RecheckDirty(p) \/ Unlock(p)
  <2>1. SameText /\ task[p].step \notin {"setDirty", "incr"}
    BY <1>6 DEF TryLock, TryLockBusy, RecheckDirty, Unlock, At, redis, SameText
  <2>2. Finish(p) \/ \E s \in {"recheck", "startRevision", "unlock", "deleteTx"} : Goto(p, s)
    BY <1>6 DEF TryLock, TryLockBusy, RecheckDirty, Unlock, AfterFlush
  <2>3. QED
    BY <1>2, <1>3, <1>4, <1>5, <2>1, <2>2 DEF CheckMove
<1>7. CASE ReadStartRevision(p)
  <2> DEFINE t == [task[p] EXCEPT !.startRevision = cache.revision, !.step = "readContent"]
  <2>1. task' = [task EXCEPT ![p] = t]
    BY <1>1, <1>7 DEF ReadStartRevision
  <2>2. t.step = "readContent" /\ t.startRevision = cache.revision
    BY <1>1 DEF Tasks
  <2>3. SameText /\ task[p].step = "startRevision"
    BY <1>7 DEF ReadStartRevision, At, redis, SameText
  <2> HIDE DEF t
  <2>4. QED
    BY <2>1, <2>2, <2>3 DEF CheckMove
<1>8. CASE ReadContent(p)
  <2>1. SameText /\ task[p].step = "readContent"
    BY <1>8 DEF ReadContent, At, redis, SameText
  <2>2. CASE Goto(p, "unlock")
    BY <1>2, <1>5, <2>1, <2>2 DEF CheckMove
  <2>3. CASE ~Goto(p, "unlock")
    <3> DEFINE t == [task[p] EXCEPT !.held = cache.content, !.step = "saveTx"]
    <3>1. task' = [task EXCEPT ![p] = t]
      BY <1>1, <1>8, <2>3 DEF ReadContent
    <3>2. t.step = "saveTx" /\ t.held = cache.content /\ t.startRevision = task[p].startRevision
      BY <1>1 DEF Tasks
    <3> HIDE DEF t
    <3>3. QED
      BY <2>1, <3>1, <3>2 DEF CheckMove
  <2>4. QED
    BY <2>2, <2>3
<1>9. CASE SaveTx(p)
  <2>1. SameText /\ task[p].step = "saveTx"
    BY <1>9 DEF SaveTx, At, redis, SameText
  <2>2. Goto(p, "unlock") \/ Goto(p, "endRevision")
    BY <1>9 DEF SaveTx
  <2>3. QED
    BY <1>2, <1>5, <2>1, <2>2 DEF CheckMove
<1>10. CASE ReadEndRevision(p)
  <2>1. SameText /\ task[p].step = "endRevision" /\ task[p].op # "manual"
    BY <1>10 DEF ReadEndRevision, At, redis, SameText, Saves
  <2>2. \/ Goto(p, "unlock")
        \/ Goto(p, "cleanGet") /\ cache.revision = task[p].startRevision
    BY <1>10 DEF ReadEndRevision
  <2>3. QED
    BY <1>2, <1>5, <2>1, <2>2 DEF CheckMove
<1>11. CASE MarkCleanGet(p) \/ MarkCleanSet(p)
  <2>1. SameText /\ task[p].step \in {"cleanGet", "cleanSet"}
    BY <1>1, <1>11 DEF MarkCleanGet, MarkCleanSet, At, redis, SameText, Caches
  <2>2. Finish(p) \/ Goto(p, "unlock") \/ (task[p].step = "cleanGet" /\ Goto(p, "cleanSet"))
    BY <1>11 DEF MarkCleanGet, MarkCleanSet, AfterMarkClean, At
  <2>3. QED
    BY <1>2, <1>3, <1>4, <1>5, <2>1, <2>2 DEF CheckMove
<1>12. QED
  BY <1>6, <1>7, <1>8, <1>9, <1>10, <1>11 DEF PersistStep

LEMMA RequestMoves ==
  ASSUME PersistenceInv, NEW p \in Processes, RequestStep(p)
  PROVE  \E t : task' = [task EXCEPT ![p] = t] /\ (CheckMove(p, t) \/ GivesUp(p, t))
<1>1. task \in [Processes -> Tasks] /\ task[p] \in Tasks /\ cache \in Caches
  BY DEF PersistenceInv, TypeOK
<1> DEFINE Turns(s) == [task[p] EXCEPT !.step = s]
<1>2. \A s \in Steps : /\ Goto(p, s) => task' = [task EXCEPT ![p] = Turns(s)]
                       /\ Turns(s).step = s /\ Turns(s).op = task[p].op
  BY <1>1 DEF Goto, Tasks
<1>3. Finish(p) => task' = [task EXCEPT ![p] = Idle]
  BY DEF Finish
<1>4. Idle.step = "idle"
  BY DEF Idle
<1>5. {"setDirty", "incr", "cleanGet", "tryLock", "deleteTx", "setContent",
       "versionTx", "clear"}
        \subseteq Steps
  BY DEF Steps, LockedSteps
<1> HIDE DEF Turns
<1>6. CASE SetContent(p)
  <2>1. cache'.revision = cache.revision /\ task[p].step = "setContent" /\ Goto(p, "setDirty")
    BY <1>1, <1>6 DEF SetContent, At, Caches
  <2>2. QED
    BY <1>2, <1>5, <2>1 DEF CheckMove
<1>7. CASE SetDirty(p)
  <2>1. SameText /\ task[p].step = "setDirty" /\ Goto(p, "incr")
    BY <1>1, <1>7 DEF SetDirty, At, Caches, SameText
  <2>2. QED
    BY <1>2, <1>5, <2>1 DEF CheckMove
<1>8. CASE IncrementRevision(p)
  <2>1. cache'.revision = cache.revision + 1 /\ task[p].step = "incr"
    BY <1>1, <1>8 DEF IncrementRevision, At, Caches
  <2>2. Finish(p) \/ (Goto(p, "cleanGet") /\ task[p].op = "manual")
    BY <1>8 DEF IncrementRevision
  <2>3. CASE Finish(p)
    BY <1>3, <1>4, <2>1, <2>3 DEF CheckMove
  <2>4. CASE Goto(p, "cleanGet") /\ task[p].op = "manual"
    <3> DEFINE t == Turns("cleanGet")
    <3>1. task' = [task EXCEPT ![p] = t] /\ t.step = "cleanGet" /\ t.op = "manual"
      BY <1>2, <1>5, <2>4
    <3> HIDE DEF t
    <3>2. QED
      BY <2>1, <3>1 DEF CheckMove
  <2>5. QED
    BY <2>2, <2>3, <2>4
<1>9. CASE FlushCheck(p) \/ RefuseDeleted(p) \/ ManualSaveTx(p)
  <2>1. SameText /\ task[p].step \notin {"setDirty", "incr"}
    BY <1>9 DEF FlushCheck, RefuseDeleted, ManualSaveTx, At, redis, SameText
  <2>2. Finish(p) \/ \E s \in {"tryLock", "deleteTx", "setContent"} : Goto(p, s)
    BY <1>9 DEF FlushCheck, RefuseDeleted, ManualSaveTx, AfterFlush
  <2>3. QED
    BY <1>2, <1>3, <1>4, <1>5, <2>1, <2>2 DEF CheckMove
<1>10. CASE ReadCurrentContent(p) \/ RestoreTx(p)
  <2>1. SameText /\ task[p].step \notin {"setDirty", "incr"}
    BY <1>10 DEF ReadCurrentContent, RestoreTx, At, redis, SameText
  <2>2. PICK t \in Tasks : task' = [task EXCEPT ![p] = t] /\ t.step \in {"versionTx", "setContent"}
    <3>1. task'[p].step \in {"versionTx", "setContent"} /\ task' = [task EXCEPT ![p] = task'[p]]
      BY <1>1, <1>10 DEF ReadCurrentContent, RestoreTx, Tasks
    <3>2. task' \in [Processes -> Tasks]
      BY <1>10, NextStep DEF PersistenceInv, TypeOK, Next, Advance, RequestStep
    <3>3. QED
      BY <3>1, <3>2
  <2>3. QED
    BY <2>1, <2>2 DEF CheckMove
<1>11. CASE DeleteTx(p)
  <2>1. row'.deleted
    BY <1>11 DEF DeleteTx, LogicalDelete, PersistenceInv, TypeOK, Documents
  <2>2. Goto(p, "clear")
    BY <1>11 DEF DeleteTx
  <2>3. QED
    BY <1>2, <1>5, <2>1, <2>2 DEF GivesUp
<1>12. CASE ClearCache(p)
  BY <1>3, <1>4, <1>12 DEF ClearCache, At, GivesUp
<1>13. QED
  BY <1>6, <1>7, <1>8, <1>9, <1>10, <1>11, <1>12 DEF RequestStep

LEMMA FailureMoves ==
  ASSUME PersistenceInv, NEW p \in Processes, Failure(p)
  PROVE  \E t : task' = [task EXCEPT ![p] = t] /\ GivesUp(p, t)
<1>1. task \in [Processes -> Tasks] /\ task[p] \in Tasks
  BY DEF PersistenceInv, TypeOK
<1>2. faults' = faults + 1
  BY DEF Failure, Crash, SaveFails, UnlockFails, Fault, AfterFlush
<1>3. Idle.step = "idle"
  BY DEF Idle
<1>4. CASE Finish(p)
  BY <1>2, <1>3, <1>4 DEF Finish, GivesUp
<1>5. CASE Goto(p, "deleteTx")
  <2> DEFINE t == [task[p] EXCEPT !.step = "deleteTx"]
  <2>1. task' = [task EXCEPT ![p] = t]
    BY <1>1, <1>5 DEF Goto
  <2>2. t.step = "deleteTx"
    BY <1>1 DEF Tasks
  <2> HIDE DEF t
  <2>3. QED
    BY <1>2, <2>1, <2>2 DEF GivesUp
<1>6. CASE SaveFails(p)
  <2> DEFINE t == [task[p] EXCEPT !.step = "unlock", !.failed = TRUE]
  <2>1. task' = [task EXCEPT ![p] = t]
    BY <1>1, <1>6 DEF SaveFails
  <2>2. t.step = "unlock"
    BY <1>1 DEF Tasks
  <2> HIDE DEF t
  <2>3. QED
    BY <1>2, <2>1, <2>2 DEF GivesUp
<1>7. QED
  BY <1>4, <1>5, <1>6 DEF Failure, Crash, UnlockFails, AfterFlush

LEMMA CheckMoves ==
  ASSUME PersistenceInv, [Next]_vars
  PROVE  \/ \E p \in Processes : \E t :
              task' = [task EXCEPT ![p] = t] /\ (CheckMove(p, t) \/ GivesUp(p, t))
         \/ task' = task /\ SameText
<1>1. ASSUME NEW p \in Processes, Advance(p)
      PROVE  \E t : task' = [task EXCEPT ![p] = t] /\ (CheckMove(p, t) \/ GivesUp(p, t))
  BY <1>1, PersistMoves, RequestMoves DEF Advance
<1>2. ASSUME NEW p \in Processes, Failure(p)
      PROVE  \E t : task' = [task EXCEPT ![p] = t] /\ GivesUp(p, t)
  BY <1>2, FailureMoves
<1>3. ASSUME NEW r \in Requests, BeginRequest(r)
      PROVE  \E t : task' = [task EXCEPT ![r] = t] /\ CheckMove(r, t)
  <2>1. PICK op \in Operations, step \in {"setContent", "current", "flushCheck"} :
          \E held, target : Begin(r, op, step, held, target)
    BY <1>3 DEF BeginRequest, ApplyDocumentEdit, SaveManualVersion, RestoreVersion,
       DeleteDocument, FlushWorkspaceDocument, Operations
  <2> PICK held, target : Begin(r, op, step, held, target)
    BY <2>1
  <2> DEFINE t == [Idle EXCEPT !.op = op, !.step = step, !.held = held, !.target = target]
  <2>2. task' = [task EXCEPT ![r] = t] /\ SameText /\ task[r].step = "idle"
    BY DEF Begin, redis, SameText, Idle
  <2>3. t.step = step
    BY DEF Idle
  <2> HIDE DEF t
  <2>4. QED
    BY <2>2, <2>3 DEF CheckMove
<1>4. ASSUME NEW a \in Autosavers, BeginAutosave(a)
      PROVE  \E t : task' = [task EXCEPT ![a] = t] /\ CheckMove(a, t)
  <2> DEFINE t == [Idle EXCEPT !.op = "autosave", !.step = "tryLock"]
  <2>1. task' = [task EXCEPT ![a] = t] /\ SameText /\ task[a].step = "idle"
    BY <1>4 DEF BeginAutosave, redis, SameText, Idle
  <2>2. t.step = "tryLock"
    BY DEF Idle
  <2> HIDE DEF t
  <2>3. QED
    BY <2>1, <2>2 DEF CheckMove
<1>5. CASE LockExpires \/ UNCHANGED vars
  BY <1>5 DEF LockExpires, vars, SameText
<1>6. QED
  BY <1>1, <1>2, <1>3, <1>4, <1>5 DEF Next, Processes

\* A deletion is not taken back, and failures are not forgotten.
LEMMA NothingIsUndone ==
  ASSUME PersistenceInv, [Next]_vars
  PROVE  /\ row.deleted => row'.deleted
         /\ faults' = faults \/ faults' = faults + 1
         /\ faults \in Nat
<1>1. row.deleted => row'.deleted
  BY DeletedStep DEF database
<1>2. ASSUME NEW p \in Processes, Advance(p)
      PROVE  faults' = faults
  <2>1. PersistStep(p) => faults' = faults
    BY DEF PersistStep, TryLock, TryLockBusy, RecheckDirty, ReadStartRevision, ReadContent,
       SaveTx, ReadEndRevision, MarkCleanGet, MarkCleanSet, Unlock
  <2>2. RequestStep(p) => faults' = faults
    BY DEF RequestStep, SetContent, SetDirty, IncrementRevision, FlushCheck, ReadCurrentContent,
       RefuseDeleted, ManualSaveTx, RestoreTx, DeleteTx, ClearCache
  <2>3. QED
    BY <1>2, <2>1, <2>2 DEF Advance
<1>3. ASSUME NEW p \in Processes, Failure(p)
      PROVE  faults' = faults + 1
  BY <1>3 DEF Failure, Crash, SaveFails, UnlockFails, Fault
<1>4. ASSUME NEW r \in Requests, BeginRequest(r)
      PROVE  faults' = faults
  BY <1>4 DEF BeginRequest, ApplyDocumentEdit, SaveManualVersion, RestoreVersion,
     DeleteDocument, FlushWorkspaceDocument, Begin
<1>5. ASSUME NEW a \in Autosavers, BeginAutosave(a)
      PROVE  faults' = faults
  BY <1>5 DEF BeginAutosave
<1>6. LockExpires \/ UNCHANGED vars => faults' = faults
  BY DEF LockExpires, vars
<1>7. faults' = faults \/ faults' = faults + 1
  BY <1>2, <1>3, <1>4, <1>5, <1>6 DEF Next
<1>8. faults \in Nat
  BY DEF PersistenceInv, TypeOK
<1>9. QED
  BY <1>1, <1>7, <1>8

LEMMA CheckStep ==
  ASSUME PersistenceInv, CheckInv, [Next]_vars
  PROVE  CheckInv'
<1> SUFFICES ASSUME ~row'.deleted, faults' = 0, NEW q \in Processes
             PROVE  task'[q].step # "clear" /\ Compares(task[q])'
  BY DEF CheckInv
<1>1. ~row.deleted /\ faults = 0
  BY NothingIsUndone
<1>2. task \in [Processes -> Tasks] /\ cache.revision \in Nat
      /\ \A p \in Processes : task[p].startRevision \in Nat
  BY DEF PersistenceInv, TypeOK, Tasks, Caches
<1>3. \A p \in Processes : task[p].step # "clear" /\ Compares(task[p])
  BY <1>1 DEF CheckInv
<1>4. CASE task' = task /\ SameText
  BY <1>3, <1>4 DEF SameText, Compares, Carries, Uncounted
<1>5. ASSUME NEW p \in Processes, NEW t, task' = [task EXCEPT ![p] = t], CheckMove(p, t)
      PROVE  task'[q].step # "clear" /\ Compares(task[q])'
  <2>1. task'[p] = t /\ \A r \in Processes \ {p} : task'[r] = task[r]
    BY <1>2, <1>5
  <2>2. Uncounted => Uncounted' \/ cache'.revision = cache.revision + 1
    <3>1. CASE task[p].step \in {"setDirty", "incr"}
      BY <1>5, <2>1, <3>1 DEF CheckMove, Uncounted
    <3>2. CASE task[p].step \notin {"setDirty", "incr"}
      BY <2>1, <3>2 DEF Uncounted
    <3>3. QED
      BY <3>1, <3>2
  <2>3. \/ SameText
        \/ cache'.revision = cache.revision /\ Uncounted'
        \/ cache'.revision = cache.revision + 1
    BY <1>5, <2>1 DEF CheckMove, Uncounted
  <2>4. CASE q # p
    <3>1. task'[q] = task[q]
      BY <2>1, <2>4
    <3>2. task'[q].step # "clear"
      BY <1>3, <3>1
    <3>3. Compares(task[q])
      BY <1>3
    <3>4. task[q].startRevision \in Nat /\ cache.revision \in Nat
      BY <1>2
    <3>5. QED
      BY <2>2, <2>3, <3>1, <3>2, <3>3, <3>4 DEF Compares, Carries, SameText
  <2>5. CASE q = p
    <3>1. t.step # "clear"
      BY <1>5 DEF CheckMove
    <3>2. Compares(task[p])
      BY <1>3
    <3>3. Compares(t)'
      BY <1>2, <1>5, <2>2, <3>2 DEF CheckMove, Compares, Carries, SameText
    <3>4. QED
      BY <2>1, <2>5, <3>1, <3>3 DEF Compares, Carries
  <2>6. QED
    BY <2>4, <2>5
<1>6. ASSUME NEW p \in Processes, NEW t, GivesUp(p, t)
      PROVE  FALSE
  BY <1>1, <1>3, <1>6 DEF GivesUp
<1>7. QED
  BY <1>4, <1>5, <1>6, CheckMoves

\* Comparing the counter before and after finds every edit that the save did
\* not see, however many servers and requests interleave: the save that goes on
\* to MarkClean carries what the cache holds, but for an edit not counted yet.
THEOREM RevisionCheckHolds == Spec => RevisionCheckIsSound
<1>1. Init => CheckInv
  BY DEF Init, CheckInv, Compares, Carries, Idle
<1>2. PersistenceInv /\ CheckInv /\ [Next]_vars => CheckInv'
  BY CheckStep
<1>3. PersistenceInv /\ CheckInv /\ [Next]_vars =>
        [\A p \in Processes :
           /\ task[p].step = "endRevision"
           /\ task'[p].step = "cleanGet"
           /\ faults = 0
           /\ ~row.deleted
           => \/ cache.content = task[p].held
              \/ \E q \in Processes : task[q].step \in {"setDirty", "incr"}]_vars
  <2> SUFFICES ASSUME PersistenceInv, CheckInv, Next, NEW p \in Processes,
                      task[p].step = "endRevision", task'[p].step = "cleanGet",
                      faults = 0, ~row.deleted
               PROVE  cache.content = task[p].held \/ Uncounted
    BY DEF Uncounted
  <2>1. Compares(task[p])
    BY DEF CheckInv
  <2>2. cache.revision = task[p].startRevision /\ task[p].op # "manual"
    <3>1. task \in [Processes -> Tasks]
      BY DEF PersistenceInv, TypeOK
    <3>2. PICK q \in Processes :
            \E t : task' = [task EXCEPT ![q] = t] /\ (CheckMove(q, t) \/ GivesUp(q, t))
      BY CheckMoves
    <3>3. PICK t : task' = [task EXCEPT ![q] = t] /\ (CheckMove(q, t) \/ GivesUp(q, t))
      BY <3>2
    <3>4. q = p /\ t.step = "cleanGet"
      BY <3>1, <3>3
    <3>5. QED
      BY <3>3, <3>4 DEF CheckMove, GivesUp
  <2>3. QED
    BY <2>1, <2>2 DEF Compares, Carries
<1>4. QED
  BY <1>1, <1>2, <1>3, PersistenceInvariant, PTL DEF Spec, RevisionCheckIsSound

\* The window that the check leaves open: between it and the SET of MarkClean an
\* edit was counted, or one is under way that is not.
OnlyRacingEditsAreDropped ==
  [][\A p \in Processes :
       MarkCleanSet(p) /\ task[p].op \in Saves /\ faults = 0 /\ ~row.deleted =>
         \/ cache.content = task[p].held
         \/ cache.revision > task[p].startRevision
         \/ Uncounted]_vars

\* A save never drops the dirty flag of a text it has not saved, unless an edit
\* runs into that window: a text whose edit had ended before the check keeps its
\* flag, whatever number of saves, edits and servers interleave.
THEOREM ChecksLoseOnlyRacingEdits == Spec => OnlyRacingEditsAreDropped
<1>1. Init => CheckInv
  BY DEF Init, CheckInv, Compares, Carries, Idle
<1>2. PersistenceInv /\ CheckInv /\ [Next]_vars => CheckInv'
  BY CheckStep
<1>3. PersistenceInv /\ CheckInv =>
        \A p \in Processes :
          MarkCleanSet(p) /\ task[p].op \in Saves /\ faults = 0 /\ ~row.deleted =>
            \/ cache.content = task[p].held
            \/ cache.revision > task[p].startRevision
            \/ Uncounted
  <2> SUFFICES ASSUME PersistenceInv, CheckInv, NEW p \in Processes,
                      MarkCleanSet(p), task[p].op \in Saves, faults = 0, ~row.deleted,
                      cache.content # task[p].held, ~Uncounted
               PROVE  cache.revision > task[p].startRevision
    OBVIOUS
  <2>1. Compares(task[p]) /\ Carries(task[p])
    BY DEF CheckInv, Carries, MarkCleanSet, At, Saves
  <2>2. cache.revision \in Nat /\ task[p].startRevision \in Nat
    BY DEF PersistenceInv, TypeOK, Tasks, Caches
  <2>3. QED
    BY <2>1, <2>2 DEF Compares
<1>4. QED
  BY <1>1, <1>2, <1>3, PersistenceInvariant, PTL DEF Spec, OnlyRacingEditsAreDropped
----------------------------------------------------------------------------
(***************************************************************************)
(* How the dirty flag goes away.                                           *)
(***************************************************************************)

\* The cache is cleared only of a deleted document.
ClearsDeleted == \A p \in Processes : task[p].step = "clear" => row.deleted

LEMMA ClearsDeletedStep ==
  ASSUME PersistenceInv, ClearsDeleted, [Next]_vars
  PROVE  ClearsDeleted'
<1> SUFFICES ASSUME NEW q \in Processes, task'[q].step = "clear"
             PROVE  row'.deleted
  BY DEF ClearsDeleted
<1>1. task \in [Processes -> Tasks]
  BY DEF PersistenceInv, TypeOK
<1>2. CASE task'[q] = task[q]
  BY <1>2, NothingIsUndone DEF ClearsDeleted
<1>3. CASE task'[q] # task[q]
  <2>1. PICK p \in Processes :
          \E t : task' = [task EXCEPT ![p] = t] /\ (CheckMove(p, t) \/ GivesUp(p, t))
    BY <1>3, CheckMoves
  <2>2. PICK t : task' = [task EXCEPT ![p] = t] /\ (CheckMove(p, t) \/ GivesUp(p, t))
    BY <2>1
  <2>3. t.step = "clear"
    BY <1>1, <1>3, <2>2
  <2>4. QED
    BY <2>2, <2>3 DEF CheckMove, GivesUp
<1>4. QED
  BY <1>2, <1>3

\* The flag is written by an edit, by MarkClean and by Clear, and by nothing else.
LEMMA FlagWriters ==
  ASSUME PersistenceInv, [Next]_vars,
         cache.autosave = "dirty", cache'.autosave # "dirty"
  PROVE  \E p \in Processes : MarkCleanSet(p) \/ ClearCache(p)
<1>1. cache \in Caches
  BY DEF PersistenceInv, TypeOK
<1>2. ASSUME NEW p \in Processes, PersistStep(p)
      PROVE  MarkCleanSet(p)
  BY <1>2 DEF PersistStep, TryLock, TryLockBusy, RecheckDirty, ReadStartRevision, ReadContent,
     SaveTx, ReadEndRevision, MarkCleanGet, Unlock, redis
<1>3. ASSUME NEW p \in Processes, RequestStep(p)
      PROVE  ClearCache(p)
  <2>1. ~SetContent(p) /\ ~SetDirty(p) /\ ~IncrementRevision(p)
    BY <1>1 DEF SetContent, SetDirty, IncrementRevision, Caches
  <2>2. QED
    BY <1>3, <2>1 DEF RequestStep, FlushCheck, ReadCurrentContent, RefuseDeleted,
       ManualSaveTx, RestoreTx, DeleteTx, redis
<1>4. \A p \in Processes : ~Failure(p)
  BY DEF Failure, Crash, SaveFails, UnlockFails, redis
<1>5. \A r \in Requests : ~BeginRequest(r)
  BY DEF BeginRequest, ApplyDocumentEdit, SaveManualVersion, RestoreVersion,
     DeleteDocument, FlushWorkspaceDocument, Begin, redis
<1>6. \A a \in Autosavers : ~BeginAutosave(a)
  BY DEF BeginAutosave, redis
<1>7. ~LockExpires /\ ~UNCHANGED vars
  BY DEF LockExpires, vars
<1>8. QED
  BY <1>2, <1>3, <1>4, <1>5, <1>6, <1>7 DEF Next, Advance

\* A dirty document stops being dirty only by MarkClean, of a goroutine whose
\* own text a version records by then, or by the Clear of a deletion that is
\* committed: no crash, expired lock, failed call or save that was refused
\* takes the flag away.
DirtyEndsWithASave ==
  [][cache.autosave = "dirty" /\ cache'.autosave # "dirty" =>
       \/ row.deleted
       \/ \E p \in Processes :
            /\ At(p, Saves \cup {"manual"}, "cleanSet")
            /\ \E v \in versions : v.type \in RecordTypes /\ v.content = task[p].held]_vars

\* With every number of servers and requests, and whatever fails, the flag that
\* makes the autosave look at a document goes away only with a recorded save or
\* with the document.
THEOREM DirtyIsNeverForgotten == Spec => DirtyEndsWithASave
<1>1. Init => ClearsDeleted
  BY DEF Init, ClearsDeleted, Idle
<1>2. PersistenceInv /\ ClearsDeleted /\ [Next]_vars => ClearsDeleted'
  BY ClearsDeletedStep
<1>3. PersistenceInv /\ ClearsDeleted /\ [Next]_vars =>
        [cache.autosave = "dirty" /\ cache'.autosave # "dirty" =>
           \/ row.deleted
           \/ \E p \in Processes :
                /\ At(p, Saves \cup {"manual"}, "cleanSet")
                /\ \E v \in versions : v.type \in RecordTypes /\ v.content = task[p].held]_vars
  <2> SUFFICES ASSUME PersistenceInv, ClearsDeleted, [Next]_vars,
                      cache.autosave = "dirty", cache'.autosave # "dirty", ~row.deleted
               PROVE  \E p \in Processes :
                        /\ At(p, Saves \cup {"manual"}, "cleanSet")
                        /\ \E v \in versions : v.type \in RecordTypes /\ v.content = task[p].held
    OBVIOUS
  <2>1. PICK p \in Processes : MarkCleanSet(p) \/ ClearCache(p)
    BY FlagWriters
  <2>2. ~ClearCache(p)
    BY DEF ClearCache, At, ClearsDeleted
  <2>3. At(p, Saves \cup {"manual"}, "cleanSet")
    BY <2>1, <2>2 DEF MarkCleanSet
  <2>4. GoodTask(task[p], versions)
    BY DEF PersistenceInv
  <2>5. QED
    BY <2>3, <2>4 DEF At, GoodTask, HasSaved
<1>4. QED
  BY <1>1, <1>2, <1>3, PersistenceInvariant, PTL DEF Spec, DirtyEndsWithASave
----------------------------------------------------------------------------
(***************************************************************************)
(* Nobody waits for anybody.                                               *)
(***************************************************************************)

\* The control points of every operation.
Points(op) ==
  CASE op = "edit"    -> {"setContent", "setDirty", "incr"}
    [] op = "manual"  -> {"current", "versionTx", "setContent", "setDirty", "incr",
                          "cleanGet", "cleanSet"}
    [] op = "restore" -> {"current", "versionTx", "setContent", "setDirty", "incr"}
    [] op = "delete"  -> {"flushCheck", "tryLock", "deleteTx", "clear"} \cup LockedSteps
    [] op = "flush"   -> {"flushCheck", "tryLock"} \cup LockedSteps
    [] op = "autosave" -> {"tryLock"} \cup LockedSteps

InProgram(t) == t = Idle \/ (t.op \in Operations \ {"none"} /\ t.step \in Points(t.op))

\* The guards of the steps of Advance, without what they do.
CanAdvance(p) ==
  \/ At(p, {"edit", "manual", "restore"}, "setContent")
  \/ At(p, {"edit", "manual", "restore"}, "setDirty")
  \/ At(p, {"edit", "manual", "restore"}, "incr")
  \/ At(p, Saves \cup {"manual"}, "cleanGet")
  \/ At(p, Saves \cup {"manual"}, "cleanSet")
  \/ At(p, {"delete", "flush"}, "flushCheck")
  \/ At(p, Saves, "tryLock")                      \* with the lock or without it
  \/ \E step \in {"recheck", "startRevision", "readContent", "saveTx", "endRevision",
                  "unlock"} : At(p, Saves, step)
  \/ At(p, {"manual", "restore"}, "current")
  \/ At(p, {"manual"}, "versionTx")               \* refused when the row is deleted
  \/ At(p, {"restore"}, "versionTx")
  \/ At(p, {"delete"}, "deleteTx")
  \/ At(p, {"delete"}, "clear")

LEMMA ProgramGoesOn ==
  ASSUME NEW p \in Processes, InProgram(task[p]), task[p] # Idle
  PROVE  CanAdvance(p)
  BY DEF InProgram, Points, CanAdvance, At, Saves, Operations, LockedSteps

\* What the ways to leave a control point do to the task.
LEMMA ProgramMoves ==
  ASSUME PersistenceInv, NEW p \in Processes
  PROVE  /\ \A s \in Steps : Goto(p, s) =>
              task' = [task EXCEPT ![p] = task'[p]] /\ task'[p].op = task[p].op /\ task'[p].step = s
         /\ Finish(p) => task' = [task EXCEPT ![p] = task'[p]] /\ task'[p] = Idle
         /\ AfterFlush(p) =>
              /\ task' = [task EXCEPT ![p] = task'[p]]
              /\ \/ task'[p] = Idle
                 \/ task[p].op = "delete" /\ task'[p].op = "delete" /\ task'[p].step = "deleteTx"
<1>1. task \in [Processes -> Tasks] /\ task[p] \in Tasks
  BY DEF PersistenceInv, TypeOK
<1>2. ASSUME NEW s \in Steps, Goto(p, s)
      PROVE  task' = [task EXCEPT ![p] = task'[p]] /\ task'[p].op = task[p].op /\ task'[p].step = s
  <2>1. task' = [task EXCEPT ![p] = [task[p] EXCEPT !.step = s]]
    BY <1>1, <1>2 DEF Goto
  <2>2. task' = [task EXCEPT ![p] = task'[p]] /\ task'[p] = [task[p] EXCEPT !.step = s]
    BY <1>1, <2>1
  <2>3. QED
    BY <1>1, <2>2 DEF Tasks
<1>3. Finish(p) => task' = [task EXCEPT ![p] = task'[p]] /\ task'[p] = Idle
  BY <1>1 DEF Finish
<1>4. ASSUME AfterFlush(p)
      PROVE  /\ task' = [task EXCEPT ![p] = task'[p]]
             /\ \/ task'[p] = Idle
                \/ task[p].op = "delete" /\ task'[p].op = "delete" /\ task'[p].step = "deleteTx"
  <2>1. "deleteTx" \in Steps
    BY DEF Steps
  <2>2. QED
    BY <1>2, <1>3, <1>4, <2>1 DEF AfterFlush
<1>5. QED
  BY <1>2, <1>3, <1>4

\* The steps of persistDocument and of MarkClean stay in the program.
LEMMA PersistStaysInProgram ==
  ASSUME PersistenceInv, NEW p \in Processes, PersistStep(p)
  PROVE  task' = [task EXCEPT ![p] = task'[p]] /\ InProgram(task'[p])
<1>1. task \in [Processes -> Tasks] /\ task[p] \in Tasks
  BY DEF PersistenceInv, TypeOK
<1>2. LockedSteps \subseteq Steps
  BY DEF Steps
<1>3. Saves \cup {"manual"} \subseteq Operations \ {"none"}
  BY DEF Saves, Operations
<1>4. \A op \in Saves : LockedSteps \cup {"tryLock"} \subseteq Points(op)
  BY DEF Saves, Points
<1>5. "deleteTx" \in Points("delete") /\ "cleanSet" \in Points("manual")
  BY DEF Points
<1>6. CASE TryLockBusy(p) \/ Unlock(p)
  BY <1>3, <1>5, <1>6, ProgramMoves DEF TryLockBusy, Unlock, InProgram, Saves
<1>7. CASE TryLock(p) \/ RecheckDirty(p) \/ SaveTx(p) \/ ReadEndRevision(p)
  <2>1. PICK s \in LockedSteps : Goto(p, s)
    BY <1>7 DEF TryLock, RecheckDirty, SaveTx, ReadEndRevision, LockedSteps
  <2>2. task[p].op \in Saves
    BY <1>7 DEF TryLock, RecheckDirty, SaveTx, ReadEndRevision, At
  <2>3. QED
    BY <1>2, <1>3, <1>4, <2>1, <2>2, ProgramMoves DEF InProgram
<1>8. CASE ReadStartRevision(p) \/ ReadContent(p)
  <2>1. task[p].op \in Saves
    BY <1>8 DEF ReadStartRevision, ReadContent, At
  <2>2. /\ task' = [task EXCEPT ![p] = task'[p]]
        /\ task'[p].op = task[p].op /\ task'[p].step \in LockedSteps
    <3>1. CASE ReadStartRevision(p)
      BY <1>1, <3>1 DEF ReadStartRevision, Tasks, LockedSteps
    <3>2. CASE ReadContent(p) /\ Goto(p, "unlock")
      BY <1>2, <3>2, ProgramMoves DEF LockedSteps
    <3>3. CASE ReadContent(p) /\ ~Goto(p, "unlock")
      BY <1>1, <3>3 DEF ReadContent, Tasks, LockedSteps
    <3>4. QED
      BY <1>8, <3>1, <3>2, <3>3
  <2>3. QED
    BY <1>3, <1>4, <2>1, <2>2 DEF InProgram
<1>9. CASE MarkCleanGet(p) \/ MarkCleanSet(p)
  <2>1. task[p].op \in Saves \cup {"manual"}
    BY <1>9 DEF MarkCleanGet, MarkCleanSet, At
  <2>2. \/ Goto(p, "cleanSet")
        \/ task[p].op = "manual" /\ Finish(p)
        \/ task[p].op # "manual" /\ Goto(p, "unlock")
    BY <1>9 DEF MarkCleanGet, MarkCleanSet, AfterMarkClean
  <2>3. "cleanSet" \in LockedSteps /\ "unlock" \in LockedSteps
    BY DEF LockedSteps
  <2>4. QED
    BY <1>2, <1>3, <1>4, <1>5, <2>1, <2>2, <2>3, ProgramMoves DEF InProgram
<1>10. QED
  BY <1>6, <1>7, <1>8, <1>9 DEF PersistStep

\* So do those of a request.
LEMMA RequestStaysInProgram ==
  ASSUME PersistenceInv, NEW p \in Processes, RequestStep(p)
  PROVE  task' = [task EXCEPT ![p] = task'[p]] /\ InProgram(task'[p])
<1>1. task \in [Processes -> Tasks] /\ task[p] \in Tasks
  BY DEF PersistenceInv, TypeOK
<1>2. CASE Finish(p)
  BY <1>2, ProgramMoves DEF InProgram
<1>3. CASE SetContent(p) \/ SetDirty(p)
  <2>1. task[p].op \in {"edit", "manual", "restore"}
    BY <1>3 DEF SetContent, SetDirty, At
  <2>2. PICK s \in {"setDirty", "incr"} : Goto(p, s)
    BY <1>3 DEF SetContent, SetDirty
  <2>3. s \in Steps /\ s \in Points(task[p].op)
    BY <2>1, <2>2 DEF Steps, Points
  <2>4. QED
    BY <2>1, <2>2, <2>3, ProgramMoves DEF InProgram, Operations
<1>4. CASE IncrementRevision(p) /\ ~Finish(p)
  <2>1. task[p].op = "manual" /\ Goto(p, "cleanGet")
    BY <1>4 DEF IncrementRevision
  <2>2. "cleanGet" \in Steps /\ "cleanGet" \in Points("manual")
    BY DEF Steps, LockedSteps, Points
  <2>3. QED
    BY <2>1, <2>2, ProgramMoves DEF InProgram, Operations
<1>5. CASE FlushCheck(p)
  <2>1. task[p].op \in {"delete", "flush"}
    BY <1>5 DEF FlushCheck, At
  <2>2. "tryLock" \in Steps /\ "tryLock" \in Points(task[p].op) /\ "deleteTx" \in Points("delete")
    BY <2>1 DEF Steps, Points
  <2>3. QED
    BY <1>5, <2>1, <2>2, ProgramMoves DEF FlushCheck, InProgram, Operations
<1>6. CASE ReadCurrentContent(p)
  <2>1. task[p].op \in {"manual", "restore"}
    BY <1>6 DEF ReadCurrentContent, At
  <2>2. /\ task' = [task EXCEPT ![p] = task'[p]]
        /\ task'[p].op = task[p].op /\ task'[p].step = "versionTx"
    BY <1>1, <1>6 DEF ReadCurrentContent, Tasks
  <2>3. "versionTx" \in Points(task[p].op)
    BY <2>1 DEF Points
  <2>4. QED
    BY <2>1, <2>2, <2>3 DEF InProgram, Operations
<1>7. CASE ManualSaveTx(p)
  <2>1. task[p].op = "manual" /\ Goto(p, "setContent")
    BY <1>7 DEF ManualSaveTx, At
  <2>2. "setContent" \in Steps /\ "setContent" \in Points("manual")
    BY DEF Steps, Points
  <2>3. QED
    BY <2>1, <2>2, ProgramMoves DEF InProgram, Operations
<1>8. CASE RestoreTx(p)
  <2>1. /\ task' = [task EXCEPT ![p] = task'[p]]
        /\ task'[p].op = "restore" /\ task'[p].step = "setContent"
    BY <1>1, <1>8 DEF RestoreTx, At, Tasks
  <2>2. "setContent" \in Points("restore")
    BY DEF Points
  <2>3. QED
    BY <2>1, <2>2 DEF InProgram, Operations
<1>9. CASE DeleteTx(p)
  <2>1. task[p].op = "delete" /\ Goto(p, "clear")
    BY <1>9 DEF DeleteTx, At
  <2>2. "clear" \in Steps /\ "clear" \in Points("delete")
    BY DEF Steps, Points
  <2>3. QED
    BY <2>1, <2>2, ProgramMoves DEF InProgram, Operations
<1>10. QED
  BY <1>2, <1>3, <1>4, <1>5, <1>6, <1>7, <1>8, <1>9
  DEF RequestStep, RefuseDeleted, ClearCache

\* And a failure ends the operation or goes to the deferred Unlock.
LEMMA FailureStaysInProgram ==
  ASSUME PersistenceInv, NEW p \in Processes, Failure(p)
  PROVE  task' = [task EXCEPT ![p] = task'[p]] /\ InProgram(task'[p])
<1>1. task \in [Processes -> Tasks] /\ task[p] \in Tasks
  BY DEF PersistenceInv, TypeOK
<1>2. CASE Crash(p)
  BY <1>2, ProgramMoves DEF Crash, InProgram
<1>3. CASE SaveFails(p)
  <2>1. task[p].op \in Saves
    BY <1>3 DEF SaveFails, At
  <2>2. /\ task' = [task EXCEPT ![p] = task'[p]]
        /\ task'[p].op = task[p].op /\ task'[p].step = "unlock"
    BY <1>1, <1>3 DEF SaveFails, Tasks
  <2>3. task[p].op \in Operations \ {"none"} /\ "unlock" \in Points(task[p].op)
    BY <2>1 DEF Saves, Operations, Points, LockedSteps
  <2>4. QED
    BY <2>2, <2>3 DEF InProgram
<1>4. CASE UnlockFails(p)
  <2>1. "deleteTx" \in Points("delete") /\ "delete" \in Operations \ {"none"}
    BY DEF Points, Operations
  <2>2. QED
    BY <1>4, <2>1, ProgramMoves DEF UnlockFails, InProgram
<1>5. QED
  BY <1>2, <1>3, <1>4 DEF Failure

LEMMA BeginsInProgram ==
  ASSUME PersistenceInv, NEW p \in Processes, BeginRequest(p) \/ BeginAutosave(p)
  PROVE  task' = [task EXCEPT ![p] = task'[p]] /\ InProgram(task'[p])
<1>1. task \in [Processes -> Tasks]
  BY DEF PersistenceInv, TypeOK
<1>2. CASE BeginAutosave(p)
  <2>1. /\ task' = [task EXCEPT ![p] = task'[p]]
        /\ task'[p].op = "autosave" /\ task'[p].step = "tryLock"
    BY <1>1, <1>2 DEF BeginAutosave, Idle
  <2>2. "tryLock" \in Points("autosave")
    BY DEF Points
  <2>3. QED
    BY <2>1, <2>2 DEF InProgram, Operations
<1>3. CASE BeginRequest(p)
  <2>1. PICK op \in Operations \ {"none"}, step \in Steps :
          step \in Points(op) /\ \E held, target : Begin(p, op, step, held, target)
    BY <1>3 DEF BeginRequest, ApplyDocumentEdit, SaveManualVersion, RestoreVersion,
       DeleteDocument, FlushWorkspaceDocument, Operations, Steps, Points
  <2>2. /\ task' = [task EXCEPT ![p] = task'[p]]
        /\ task'[p].op = op /\ task'[p].step = step
    BY <1>1, <2>1 DEF Begin, Idle
  <2>3. QED
    BY <2>1, <2>2 DEF InProgram
<1>4. QED
  BY <1>2, <1>3

AllInProgram == \A p \in Processes : InProgram(task[p])

LEMMA ProgramStep ==
  ASSUME PersistenceInv, AllInProgram, [Next]_vars
  PROVE  AllInProgram'
<1>1. task \in [Processes -> Tasks]
  BY DEF PersistenceInv, TypeOK
<1>2. ASSUME NEW p \in Processes, task' = [task EXCEPT ![p] = task'[p]], InProgram(task'[p])
      PROVE  AllInProgram'
  BY <1>1, <1>2 DEF AllInProgram, InProgram
<1>3. CASE LockExpires \/ UNCHANGED vars
  BY <1>3 DEF LockExpires, vars, AllInProgram, InProgram
<1>4. CASE \E r \in Requests : BeginRequest(r)
  BY <1>2, <1>4, BeginsInProgram DEF Processes
<1>5. CASE \E a \in Autosavers : BeginAutosave(a)
  BY <1>2, <1>5, BeginsInProgram DEF Processes
<1>6. CASE \E p \in Processes : Advance(p) \/ Failure(p)
  BY <1>2, <1>6, PersistStaysInProgram, RequestStaysInProgram, FailureStaysInProgram
  DEF Advance
<1>7. QED
  BY <1>3, <1>4, <1>5, <1>6 DEF Next

\* No goroutine waits for another: whoever is under way has a step, with the
\* lock taken or free and the row deleted or not.  While the lock is taken its
\* holder goes on to Unlock, or there is none and the TTL of the key runs; and
\* while the document is dirty every autosave goroutine saves or can begin to.
NobodyWaitsForAnother ==
  /\ \A p \in Processes : task[p] # Idle => CanAdvance(p)
  /\ lock => \/ \E p \in Processes : HoldsLock(p) /\ CanAdvance(p)
             \/ \A p \in Processes : ~HoldsLock(p)
  /\ cache.autosave = "dirty" =>
       \A a \in Autosavers : CanAdvance(a) \/ task[a] = Idle

\* persistDocument gives way to a taken lock instead of waiting for it, so no
\* deadlock and no goroutine stuck on the lock, for every number of servers and
\* requests and whatever fails.
THEOREM SavesNeverWait == Spec => []NobodyWaitsForAnother
<1>1. Init => AllInProgram
  BY DEF Init, AllInProgram, InProgram
<1>2. PersistenceInv /\ AllInProgram /\ [Next]_vars => AllInProgram'
  BY ProgramStep
<1>3. AllInProgram => NobodyWaitsForAnother
  <2> SUFFICES ASSUME AllInProgram PROVE NobodyWaitsForAnother
    OBVIOUS
  <2>1. \A p \in Processes : task[p] # Idle => CanAdvance(p)
    BY ProgramGoesOn DEF AllInProgram
  <2>2. \A p \in Processes : HoldsLock(p) => task[p] # Idle
    BY DEF HoldsLock, Idle, Saves
  <2>3. QED
    BY <2>1, <2>2 DEF NobodyWaitsForAnother, Processes
<1>4. QED
  BY <1>1, <1>2, <1>3, PersistenceInvariant, PTL DEF Spec
----------------------------------------------------------------------------
(***************************************************************************)
(* Operations end: how many steps a goroutine may still take, by its       *)
(* control point, at most.                                                 *)
(***************************************************************************)
StepsLeft(step) ==
  CASE step = "idle" -> 0
    [] step = "clear" -> 1
    [] step = "deleteTx" -> 2
    [] step = "unlock" -> 3
    [] step = "cleanSet" -> 4
    [] step = "cleanGet" -> 5
    [] step \in {"endRevision", "incr"} -> 6
    [] step \in {"saveTx", "setDirty"} -> 7
    [] step \in {"readContent", "setContent"} -> 8
    [] step \in {"startRevision", "versionTx"} -> 9
    [] step \in {"recheck", "current"} -> 10
    [] step = "tryLock" -> 11
    [] step = "flushCheck" -> 12

OperationsGetOn ==
  [][\A p \in Processes :
       /\ StepsLeft(task[p].step) \in 0..12
       /\ Advance(p) => StepsLeft(task'[p].step) < StepsLeft(task[p].step)
       /\ StepsLeft(task'[p].step) > StepsLeft(task[p].step) =>
            BeginRequest(p) \/ BeginAutosave(p)]_vars

LEMMA StepsLeftValues ==
  /\ StepsLeft("idle") = 0 /\ StepsLeft("clear") = 1 /\ StepsLeft("deleteTx") = 2
  /\ StepsLeft("unlock") = 3 /\ StepsLeft("cleanSet") = 4 /\ StepsLeft("cleanGet") = 5
  /\ StepsLeft("endRevision") = 6 /\ StepsLeft("incr") = 6
  /\ StepsLeft("saveTx") = 7 /\ StepsLeft("setDirty") = 7
  /\ StepsLeft("readContent") = 8 /\ StepsLeft("setContent") = 8
  /\ StepsLeft("startRevision") = 9 /\ StepsLeft("versionTx") = 9
  /\ StepsLeft("recheck") = 10 /\ StepsLeft("current") = 10
  /\ StepsLeft("tryLock") = 11 /\ StepsLeft("flushCheck") = 12
  BY DEF StepsLeft

LEMMA StepsLeftBounds ==
  /\ \A step \in Steps : StepsLeft(step) \in 0..12
  /\ \A step \in LockedSteps \ {"unlock"} : StepsLeft(step) > 3
  /\ \A step \in Steps \ {"idle"} : StepsLeft(step) > 0
<1>1. \A step \in LockedSteps : StepsLeft(step) \in 3..12 /\ (step # "unlock" => StepsLeft(step) > 3)
  BY StepsLeftValues DEF LockedSteps
<1>2. \A step \in Steps \ LockedSteps :
        StepsLeft(step) \in 0..12 /\ (step # "idle" => StepsLeft(step) > 0)
  BY StepsLeftValues DEF Steps
<1>3. QED
  BY <1>1, <1>2

\* An operation under way is at one of its control points.
LEMMA UnderWay ==
  ASSUME NEW t \in Tasks, InProgram(t), t # Idle
  PROVE  t.step \in Steps \ {"idle"}
  BY DEF InProgram, Points, Tasks, Operations, LockedSteps

LEMMA PersistGetsOn ==
  ASSUME PersistenceInv, NEW p \in Processes, PersistStep(p)
  PROVE  StepsLeft(task'[p].step) < StepsLeft(task[p].step)
<1>1. task \in [Processes -> Tasks] /\ Idle.step = "idle"
  BY DEF PersistenceInv, TypeOK, Idle
<1>2. /\ \A s \in LockedSteps \cup {"deleteTx"} : Goto(p, s) => task'[p].step = s
      /\ Finish(p) => task'[p].step = "idle"
      /\ AfterFlush(p) => task'[p].step \in {"idle", "deleteTx"}
  BY <1>1, ProgramMoves DEF Steps
<1>3. CASE TryLockBusy(p) \/ Unlock(p)
  BY <1>2, <1>3, StepsLeftValues DEF TryLockBusy, Unlock, At
<1>4. CASE TryLock(p) \/ RecheckDirty(p)
  BY <1>2, <1>4, StepsLeftValues DEF TryLock, RecheckDirty, At, LockedSteps
<1>5. CASE ReadStartRevision(p)
  <2>1. task'[p].step = "readContent" /\ task[p].step = "startRevision"
    BY <1>1, <1>5 DEF ReadStartRevision, At, Tasks
  <2>2. QED
    BY <2>1, StepsLeftValues
<1>6. CASE ReadContent(p)
  <2>1. task'[p].step \in {"unlock", "saveTx"} /\ task[p].step = "readContent"
    BY <1>1, <1>2, <1>6 DEF ReadContent, At, Tasks, LockedSteps
  <2>2. QED
    BY <2>1, StepsLeftValues
<1>7. CASE SaveTx(p) \/ ReadEndRevision(p)
  <2>1. \/ task[p].step = "saveTx" /\ task'[p].step \in {"unlock", "endRevision"}
        \/ task[p].step = "endRevision" /\ task'[p].step \in {"unlock", "cleanGet"}
    BY <1>2, <1>7 DEF SaveTx, ReadEndRevision, At, LockedSteps
  <2>2. QED
    BY <2>1, StepsLeftValues
<1>8. CASE MarkCleanGet(p) \/ MarkCleanSet(p)
  <2>1. \/ task[p].step = "cleanGet" /\ task'[p].step \in {"idle", "unlock", "cleanSet"}
        \/ task[p].step = "cleanSet" /\ task'[p].step \in {"idle", "unlock"}
    BY <1>2, <1>8 DEF MarkCleanGet, MarkCleanSet, AfterMarkClean, At, LockedSteps
  <2>2. QED
    BY <2>1, StepsLeftValues
<1>9. QED
  BY <1>3, <1>4, <1>5, <1>6, <1>7, <1>8 DEF PersistStep

LEMMA RequestGetsOn ==
  ASSUME PersistenceInv, NEW p \in Processes, RequestStep(p)
  PROVE  StepsLeft(task'[p].step) < StepsLeft(task[p].step)
<1>1. task \in [Processes -> Tasks] /\ Idle.step = "idle"
  BY DEF PersistenceInv, TypeOK, Idle
<1>2. /\ \A s \in {"setContent", "setDirty", "incr", "cleanGet", "tryLock", "clear", "deleteTx"} :
           Goto(p, s) => task'[p].step = s
      /\ Finish(p) => task'[p].step = "idle"
      /\ AfterFlush(p) => task'[p].step \in {"idle", "deleteTx"}
  BY <1>1, ProgramMoves DEF Steps, LockedSteps
<1>3. CASE SetContent(p) \/ SetDirty(p) \/ IncrementRevision(p)
  BY <1>2, <1>3, StepsLeftValues DEF SetContent, SetDirty, IncrementRevision, At
<1>4. CASE FlushCheck(p) \/ DeleteTx(p) \/ ClearCache(p)
  BY <1>2, <1>4, StepsLeftValues DEF FlushCheck, DeleteTx, ClearCache, At
<1>5. CASE ReadCurrentContent(p)
  <2>1. task'[p].step = "versionTx" /\ task[p].step = "current"
    BY <1>1, <1>5 DEF ReadCurrentContent, At, Tasks
  <2>2. QED
    BY <2>1, StepsLeftValues
<1>6. CASE RefuseDeleted(p) \/ ManualSaveTx(p)
  BY <1>2, <1>6, StepsLeftValues DEF RefuseDeleted, ManualSaveTx, At
<1>7. CASE RestoreTx(p)
  <2>1. task'[p].step = "setContent" /\ task[p].step = "versionTx"
    BY <1>1, <1>7 DEF RestoreTx, At, Tasks
  <2>2. QED
    BY <2>1, StepsLeftValues
<1>8. QED
  BY <1>3, <1>4, <1>5, <1>6, <1>7 DEF RequestStep

LEMMA FailureGetsOn ==
  ASSUME PersistenceInv, AllInProgram, NEW p \in Processes, Failure(p)
  PROVE  StepsLeft(task'[p].step) < StepsLeft(task[p].step)
<1>1. task \in [Processes -> Tasks] /\ Idle.step = "idle"
  BY DEF PersistenceInv, TypeOK, Idle
<1>2. CASE Crash(p)
  <2>1. task'[p].step = "idle" /\ task[p].step \in Steps \ {"idle"}
    BY <1>1, <1>2, ProgramMoves, UnderWay DEF Crash, AllInProgram
  <2>2. QED
    BY <2>1, StepsLeftValues, StepsLeftBounds
<1>3. CASE SaveFails(p)
  <2>1. task'[p].step = "unlock" /\ task[p].step \in LockedSteps \ {"unlock"}
    BY <1>1, <1>3 DEF SaveFails, At, Tasks
  <2>2. QED
    BY <2>1, StepsLeftValues, StepsLeftBounds
<1>4. CASE UnlockFails(p)
  <2>1. task[p].step = "unlock" /\ task'[p].step \in {"idle", "deleteTx"}
    BY <1>1, <1>4, ProgramMoves DEF UnlockFails, At
  <2>2. QED
    BY <2>1, StepsLeftValues
<1>5. QED
  BY <1>2, <1>3, <1>4 DEF Failure

\* Only its own steps and its start move a goroutine.
LEMMA OnlyItsOwn ==
  ASSUME PersistenceInv, [Next]_vars, NEW p \in Processes, task'[p] # task[p]
  PROVE  Advance(p) \/ Failure(p) \/ BeginRequest(p) \/ BeginAutosave(p)
<1>1. task \in [Processes -> Tasks]
  BY DEF PersistenceInv, TypeOK
<1>2. ASSUME NEW q \in Processes,
             Advance(q) \/ Failure(q) \/ BeginRequest(q) \/ BeginAutosave(q)
      PROVE  q = p
  <2>1. task' = [task EXCEPT ![q] = task'[q]]
    BY <1>2, PersistStaysInProgram, RequestStaysInProgram, FailureStaysInProgram,
       BeginsInProgram DEF Advance
  <2>2. QED
    BY <1>1, <2>1
<1>3. CASE LockExpires \/ UNCHANGED vars
  BY <1>3 DEF LockExpires, vars
<1>4. QED
  BY <1>2, <1>3 DEF Next, Processes

\* Whatever the other goroutines do and whatever fails, no operation takes more
\* than twelve steps (a deletion that saves first): each brings it nearer to its
\* end, and nothing takes it back.  No retry and no loop keeps a save, or the
\* lock it holds, for ever.
THEOREM OperationsEnd == Spec => OperationsGetOn
<1>1. Init => AllInProgram
  BY DEF Init, AllInProgram, InProgram
<1>2. PersistenceInv /\ AllInProgram /\ [Next]_vars => AllInProgram'
  BY ProgramStep
<1>3. ASSUME PersistenceInv, AllInProgram, [Next]_vars, NEW p \in Processes
      PROVE  /\ StepsLeft(task[p].step) \in 0..12
             /\ Advance(p) => StepsLeft(task'[p].step) < StepsLeft(task[p].step)
             /\ StepsLeft(task'[p].step) > StepsLeft(task[p].step) =>
                  BeginRequest(p) \/ BeginAutosave(p)
  <2>1. task[p] \in Tasks /\ task'[p] \in Tasks
    BY <1>3, NextStep DEF PersistenceInv, TypeOK
  <2>2. StepsLeft(task[p].step) \in 0..12 /\ StepsLeft(task'[p].step) \in 0..12
    BY <2>1, StepsLeftBounds DEF Tasks
  <2>3. Advance(p) \/ Failure(p) => StepsLeft(task'[p].step) < StepsLeft(task[p].step)
    BY <1>3, PersistGetsOn, RequestGetsOn, FailureGetsOn DEF Advance
  <2>4. QED
    BY <1>3, <2>2, <2>3, OnlyItsOwn
<1>4. PersistenceInv /\ AllInProgram /\ [Next]_vars =>
        \A p \in Processes :
          /\ StepsLeft(task[p].step) \in 0..12
          /\ Advance(p) => StepsLeft(task'[p].step) < StepsLeft(task[p].step)
          /\ StepsLeft(task'[p].step) > StepsLeft(task[p].step) =>
               BeginRequest(p) \/ BeginAutosave(p)
  BY <1>3
<1>5. QED
  BY <1>1, <1>2, <1>4, PersistenceInvariant, PTL DEF Spec, OperationsGetOn
=============================================================================
