---------------------------- MODULE MCSystemTray ----------------------------
(***************************************************************************)
(* SystemTray for TLC: c is a plain service with one item; b has two, the  *)
(* id of one a prefix of the other's; the name of the host h is a prefix   *)
(* of b, as ":1.5" is of ":1.57".                                          *)
(***************************************************************************)
EXTENDS SystemTray

CONSTANTS b, c, h, b1, b2, c1

MCServices == {b, c, h}
MCItems == {b1, b2, c1}
MCServiceOf == (b1 :> b) @@ (b2 :> b) @@ (c1 :> c)
MCServicePrefix == {<<h, b>>}
MCItemPrefix == {<<b1, b2>>}
=============================================================================
