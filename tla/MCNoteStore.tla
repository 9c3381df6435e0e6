---------------------------- MODULE MCNoteStore ----------------------------
(* NoteStore with small sets of notes and processes. *)
EXTENDS NoteStore, TLC

Symmetry == Permutations(Ids) \cup Permutations(Locals)
=============================================================================
