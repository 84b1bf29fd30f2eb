---------------------------- MODULE MCOrderEngine ----------------------------
(***************************************************************************)
(* LiveOrderEngine called in every order by one caller, over a venue that  *)
(* accepts two orders of two units, with one crash: enough for an order    *)
(* that is filled in part, one that fills while it is being cancelled, one *)
(* whose answer is lost, and for an order of the first process that meets  *)
(* one of the second under the same tag.                                   *)
(***************************************************************************)
EXTENDS OrderEngine

MCSides == {"buy"}
MCSizes == {2}
MCPrices == {2}
=============================================================================
