-------------------------- MODULE MCEditorPresence --------------------------
(* Instances of EditorPresence for TLC. *)
EXTENDS EditorPresence, TLC

=============================================================================
