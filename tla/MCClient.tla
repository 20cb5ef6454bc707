------------------------------ MODULE MCClient ------------------------------
(* An instance of Client for TLC. *)
EXTENDS Client

(* "**", "/**", "//**" and "b", in this order. The loop over the keys may  *)
(* meet "b" before and "**" behind "/**", for which unsubscribe() looks up *)
(* "**".                                                                   *)
Spellings == 1..4
StripOne == <<1, 1, 2, 4>>
=============================================================================
