---------------------------- MODULE MCDailyOrders ----------------------------
(* DailyOrders with two days and two requests at once.                      *)
EXTENDS DailyOrders, TLC
=============================================================================
