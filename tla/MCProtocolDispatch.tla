-------------------------- MODULE MCProtocolDispatch --------------------------
(* The frames of a small client: each method, a frame that is broken, one  *)
(* with bad params, repeated and fresh ids that collide in the table.      *)
EXTENDS ProtocolDispatch, TLC

Frame(method, id) == [syntax |-> "fine", version |-> TRUE, reply |-> FALSE, method |-> method, id |-> id]

MCMessages ==
  {Frame("initialize", "a"), Frame("notifications/initialized", NoId),
   Frame("tools/list", "b"), Frame("tools/call", "c"), Frame("ping", "a"),
   [Frame("tools/list", "d") EXCEPT !.syntax = "params"],
   [Frame("ping", "a") EXCEPT !.syntax = "document"]}

MCHome == [id \in Ids |-> IF id = "a" THEN 2 ELSE 0]
MCKeyBytes == [id \in Ids |-> IF id = "d" THEN 2 ELSE 1]
===============================================================================
