--------------------------- MODULE MCStaticRender --------------------------
(* An instance of StaticRender for TLC: three workers as in the code, and  *)
(* two rows for each, so that a share can be torn.                          *)
EXTENDS StaticRender
=============================================================================
