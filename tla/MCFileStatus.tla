---------------------------- MODULE MCFileStatus ----------------------------
(* Two files of one sender, the model constants of FileStatus for TLC.     *)
EXTENDS FileStatus

CONSTANTS s1, s2

MCSender == [f \in 0..(NumFiles - 1) |-> IF f = 2 THEN s2 ELSE s1]
=============================================================================
