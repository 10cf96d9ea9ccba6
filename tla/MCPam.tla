------------------------------- MODULE MCPam -------------------------------
(***************************************************************************)
(* Bounds of Pam for TLC: answers left over in a pipe are counted to 1.    *)
(***************************************************************************)
EXTENDS Pam

FewAnswers == \A c \in Convs : answers[c] <= 1
=============================================================================
