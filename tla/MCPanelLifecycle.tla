--------------------------- MODULE MCPanelLifecycle ------------------------
(* Four infos, one of which is refused and one cannot be built, one user.  *)
EXTENDS PanelLifecycle, TLC
CONSTANTS i1, i2, odd, bad, u
=============================================================================
