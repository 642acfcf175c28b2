-------------------------- MODULE MCEditorSession --------------------------
(* An instance of EditorSession for TLC. *)
EXTENDS EditorSession

CONSTANTS W, T, R
=============================================================================
