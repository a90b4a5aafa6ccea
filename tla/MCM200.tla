-------------------------------- MODULE MCM200 ---------------------------------
(***************************************************************************)
(* Small sets of commands for TLC.                                          *)
(***************************************************************************)
EXTENDS M200, TLC

\* Thrust and rudder within their limits to one side and beyond to the other, so
\* that each motor overflows at each end; direct commands in range.
FewCommands == ("thrust" :> {-2, 3}) @@ ("rudder" :> {-3, 1}) @@ ("L" :> {0, 1}) @@ ("R" :> {1})
===============================================================================
