---------------------------- MODULE MCIccCapture ----------------------------
(***************************************************************************)
(* IccCapture for TLC: two sizes, so that buffers are reused and replaced, *)
(* three addresses, so that a new buffer always finds a free one.          *)
(***************************************************************************)
EXTENDS IccCapture
=============================================================================
