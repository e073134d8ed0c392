-------------------------- MODULE DocumentHistory --------------------------
(***************************************************************************)
(* What the database promises about one document, with no cache, no lock   *)
(* and no concurrency: the row moves from one revision to the next, every  *)
(* new revision is recorded as a version in the same step, versions are    *)
(* never changed or removed, and a deleted document never changes again.   *)
(* DocumentPersistence implements it.                                      *)
(***************************************************************************)
EXTENDS DocumentEntity

VARIABLES row,       \* the row of table "documents"
          versions   \* the rows of table "document_versions"

vars == <<row, versions>>

Init ==
  /\ row = NewDocument(InitialContent)
  /\ versions = {}

\* A save of new content: the next revision and the version that records it.
Save(content, type) ==
  /\ ~row.deleted
  /\ row' = ReplaceContent(row, content)
  /\ versions' = versions \cup {NewDocumentVersion(row', content, type)}

\* A manual save of what the row already holds: a version, no new revision.
Snapshot ==
  /\ ~row.deleted
  /\ versions' = versions \cup {NewDocumentVersion(row, row.content, "manual_save")}
  /\ UNCHANGED row

\* A restore: what the user replaced, then the old text as a new revision.
Restore(replaced, source) ==
  /\ ~row.deleted
  /\ row' = ReplaceContent(row, source.content)
  /\ versions' = versions \cup
       {NewDocumentVersion(row, replaced, "before_restore"),
        NewDocumentVersion(row', source.content, "restore")}

Delete ==
  /\ ~row.deleted
  /\ row' = LogicalDelete(row)
  /\ UNCHANGED versions

Next ==
  \/ \E content \in Contents, type \in {"auto_save", "manual_save"} : Save(content, type)
  \/ Snapshot
  \/ \E replaced \in Contents, source \in versions : Restore(replaced, source)
  \/ Delete

Spec == Init /\ [][Next]_vars
----------------------------------------------------------------------------
TypeOK ==
  /\ row \in Documents
  /\ versions \subseteq Versions

\* The content the row holds can be read back from the history: every
\* committed change of content came with the version that records it.
CurrentRevisionIsVersioned == IsVersioned(row, versions)

\* A revision number names one text.
RevisionDeterminesContent == OneContentPerRevision(versions)
=============================================================================
