--------------------------- MODULE MCEditorSession ---------------------------
(* Instances of EditorSession for TLC: tabs and jobs are model values. *)
EXTENDS EditorSession, TLC

TabSymmetry == Permutations(Tabs)
=============================================================================
