--------------------------- MODULE MCWlBuffers ----------------------------
(***************************************************************************)
(* WlBuffers for TLC: two nodes with GBM, one of them with two device      *)
(* handles; renderers of each kind; requests with and without a device,    *)
(* modifiers and a fall-back to shared memory.                             *)
(***************************************************************************)
EXTENDS WlBuffers, TLC

MCNodeOf == (1 :> "n1") @@ (2 :> "n1") @@ (3 :> "n2")
MCCreatable == {<<"n1", "argb">>, <<"n1", "xrgb">>, <<"n2", "xrgb">>}

Tr(d, e) == [device |-> d, entries |-> e]

MCFeedbacks ==
  {<<Tr(1, <<<<"xrgb", 1>>, <<"argb", 1>>, <<"xrgb", 2>>, <<"argb", 0>>>>)>>,
   <<Tr(3, <<<<"xrgb", 1>>>>), Tr(2, <<<<"argb", 0>>, <<"xrgb", 2>>>>)>>}

Renderer(api, node, broken, formats) ==
  [api |-> api, node |-> node, broken |-> broken, formats |-> formats]

MCRenderers ==
  {Renderer("opengl", "n1", FALSE, <<Fmt("xrgb", {1, 2}, FALSE), Fmt("argb", {1}, FALSE)>>),
   Renderer("opengl", "n2", TRUE, <<Fmt("argb", {1}, FALSE)>>),
   Renderer("vulkan", "n1", FALSE, <<Fmt("xrgb", {2}, FALSE)>>),
   Renderer("software", "", FALSE, <<>>)}

Req(s, d, f, m) == [size |-> s, device |-> d, formats |-> f, shm |-> m]

MCRequests ==
  {Req(0, 0, <<>>, <<"argb">>),
   Req(1, 0, <<Fmt("xrgb", {}, FALSE), Fmt("argb", {}, FALSE)>>, <<"argb">>),
   Req(1, 0, <<Fmt("argb", {2}, TRUE)>>, <<>>),
   Req(1, 3, <<Fmt("xrgb", {1}, FALSE)>>, <<"xrgb">>),
   Req(2, 0, <<Fmt("xrgb", {2}, FALSE), Fmt("argb", {1}, FALSE)>>, <<"xrgb">>)}
=============================================================================
