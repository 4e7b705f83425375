------------------------------ MODULE MCScreen ------------------------------
(* The instances of Screen the configurations check. *)
EXTENDS Screen

\* Nothing, a board of two items, the same in another order, and one of them left.
MCBoards == {<<>>, <<"hours", "prices">>, <<"prices", "works", "hours">>, <<"prices">>}
=============================================================================
