------------------------------ MODULE MCStartup ------------------------------
(***************************************************************************)
(* The two feed tasks of run.py with the topics that gate_client.py asks   *)
(* for, over a venue that would answer either of them.                     *)
(***************************************************************************)
EXTENDS Startup

MCKeys == {"book:pair_depth", "book:pair", "orders:pair", "orders:update"}
MCSubscribers == {"bookFeed", "ordersFeed"}
MCKeyOf == [bookFeed |-> "book:pair_depth", ordersFeed |-> "orders:pair"]
MCMessages == {<<"book:pair">>, <<"orders:update">>}
=============================================================================
