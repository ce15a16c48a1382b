------------------------------ MODULE MCDelivery ------------------------------
(* Small instances of Delivery; the model values are declared here. *)
EXTENDS Delivery

CONSTANTS main, daemon, metrics, alerts, nan, odd
===============================================================================
