------------------------------- MODULE MCHx711 -------------------------------
(* Sets of API functions for the runs of Hx711. *)
EXTENDS Hx711

ReadOps == {"get_value", "get_value_timeout", "get_value_noblock"}

\* Powered up once, then configured and read.
SteadyOps == ReadOps \cup {"set_gain", "init", "power_up"}

PowerOps == SteadyOps \cup {"power_down"}
=============================================================================
