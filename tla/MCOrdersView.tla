---------------------------- MODULE MCOrdersView ----------------------------
(* OrdersView on small instances.                                          *)
EXTENDS OrdersView, TLC
=============================================================================
