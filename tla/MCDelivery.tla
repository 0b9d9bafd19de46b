----------------------------- MODULE MCDelivery -----------------------------
(* Delivery with two riders and one dispatcher.                             *)
EXTENDS Delivery, TLC
=============================================================================
