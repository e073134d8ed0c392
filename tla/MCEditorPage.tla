---------------------------- MODULE MCEditorPage ----------------------------
(* Instances of EditorPage for TLC. *)
EXTENDS EditorPage
=============================================================================
