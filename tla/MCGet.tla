-------------------------------- MODULE MCGet --------------------------------
(* An instance of Get for TLC. *)
EXTENDS Get

(* A first reply of any kind, and a value behind it. *)
AnyThenValue == <<Kind, {"value"}>>
=============================================================================
