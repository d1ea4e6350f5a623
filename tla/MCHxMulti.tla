------------------------------ MODULE MCHxMulti ------------------------------
(* Sets of API functions for the runs of HxMulti. *)
EXTENDS HxMulti

ReadOps == {"get_values", "async_start", "async_get_values", "power_up"}

\* Everything but reads with a timeout.
UntimedOps == AllOps \ {"get_values_timeout"}

\* Everything but set_gain.
TimedOps == AllOps \ {"set_gain"}
=============================================================================
