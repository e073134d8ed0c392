--------------------------- MODULE DocumentEntity ---------------------------
(***************************************************************************)
(* The rows of tables "documents" and "document_versions" and the methods  *)
(* of entity.Document that change them, as operators on records.  Title,   *)
(* actors and timestamps are left out: no operation on the content reads   *)
(* them.  A row is only ever written under SELECT ... FOR UPDATE, so the   *)
(* revision ReplaceContent expects is the one the row has.                 *)
(***************************************************************************)
EXTENDS Naturals

CONSTANTS Contents,        \* the texts a document may hold
          InitialContent   \* the text it was created with

ASSUME InitialContentAssumption == InitialContent \in Contents

\* The kinds of version that record a content the row took.
RecordTypes == {"auto_save", "manual_save", "restore"}

VersionTypes == RecordTypes \cup {"before_restore"}

Documents == [content : Contents, revision : Nat \ {0}, deleted : BOOLEAN]

Versions == [revision : Nat \ {0}, content : Contents, type : VersionTypes]

NewDocument(content) == [content |-> content, revision |-> 1, deleted |-> FALSE]

\* Mutant: the revision is not counted.
ReplaceContentOnly(doc, content) == [doc EXCEPT !.content = content]

ReplaceContent(doc, content) ==
  [doc EXCEPT !.content = content, !.revision = @ + 1]

LogicalDelete(doc) == [doc EXCEPT !.deleted = TRUE]

NewDocumentVersion(doc, content, type) ==
  [revision |-> doc.revision, content |-> content, type |-> type]
----------------------------------------------------------------------------
(***************************************************************************)
(* What it means that a row is recorded by a set of versions.              *)
(***************************************************************************)

\* Some version records what the row holds.  The content a document is created
\* with (revision 1) is the exception: creating it records no version.
IsVersioned(doc, vs) ==
  doc.revision > 1 =>
    \E v \in vs : /\ v.type \in RecordTypes
                  /\ v.revision = doc.revision
                  /\ v.content = doc.content

\* No version is ahead of the row, and one of the row's own revision has its
\* content.
NotAhead(doc, vs) ==
  \A v \in vs :
    v.type \in RecordTypes =>
      /\ v.revision <= doc.revision
      /\ v.revision = doc.revision => v.content = doc.content

\* Two versions that record the same revision record the same content.  (A
\* before_restore version carries the revision of the row but the content of
\* the cache, and is excluded.)
OneContentPerRevision(vs) ==
  \A v, w \in vs :
    /\ v.type \in RecordTypes
    /\ w.type \in RecordTypes
    /\ v.revision = w.revision
    => v.content = w.content
=============================================================================
