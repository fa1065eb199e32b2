----------------------------- MODULE MCStartUp -----------------------------
(* The instance of StartUp that TLC checks: two of the four sensors. *)
EXTENDS StartUp

TwoSensors == <<"NORTH", "WEST">>
=============================================================================
