-------------------------- MODULE MCScreencopyView --------------------------
(***************************************************************************)
(* ScreencopyView for TLC: two sources to switch between, two sizes so     *)
(* that buffers are reused and replaced, three addresses so that a new     *)
(* buffer always finds a free one.                                         *)
(***************************************************************************)
EXTENDS ScreencopyView, TLC

Alike == Permutations(Sources) \cup Permutations(Addrs)
=============================================================================
