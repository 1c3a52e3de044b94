---------------------------- MODULE MCRollingVad ----------------------------
(***************************************************************************)
(* Values for checking RollingVad.  A chunk is three units (30 ms), as in  *)
(* the code.  A frame is empty, shorter than a chunk (the 20 ms frames of  *)
(* the desktop), or longer than a push keeps; with the residual of another *)
(* frame the provider sees two chunks.                                     *)
(***************************************************************************)
EXTENDS RollingVad

Lengths == {0, 2, 6}
=============================================================================
