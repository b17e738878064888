---------------------------- MODULE MCFileDialog ----------------------------
(* An instance of FileDialog with requests as model values. *)
EXTENDS FileDialog
CONSTANTS r1
OneRequest == {r1}
=============================================================================
