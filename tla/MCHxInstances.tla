--------------------------- MODULE MCHxInstances ---------------------------
(* Three hx711_multi_t: a and its successor c on pio0, b on pio1. *)
EXTENDS HxInstances, TLC

CONSTANTS a, b, c

Three == {a, b, c}

PioOf      == a :> 0 @@ b :> 1 @@ c :> 0
PioIndexOf == a :> 1 @@ b :> 1 @@ c :> 1
DmaIndexOf == a :> 0 @@ b :> 1 @@ c :> 0

\* b is initialised and closed, and never powered up.
OnePio == {a, c}

ASSUME TurnsAssumption == AsMeant
=============================================================================
