-------------------------------- MODULE MCBot --------------------------------
(***************************************************************************)
(* The live bot as run.py wires it: its one strategy only buys.  An order  *)
(* is one unit, and the two prices are a flash crash apart (7 is 30% below *)
(* 10), so a tick may be halted by the position, the number of orders, the *)
(* fall of the price, or not at all.  The configurations share this module *)
(* and differ in what they give room to: a series of placements in one     *)
(* process, or a crash and a restart.                                      *)
(***************************************************************************)
EXTENDS Bot

MCSides == {"buy"}
MCSizes == {1}
MCPrices == {7}
MCMids == {7, 10}
=============================================================================
