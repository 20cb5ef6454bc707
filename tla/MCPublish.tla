----------------------------- MODULE MCPublish ------------------------------
(***************************************************************************)
(* An instance of Publish for TLC: the ends and the middle of every range, *)
(* and contents that are empty, that look like other types, and that have  *)
(* a NUL at their start, in their middle and at their end.                 *)
(***************************************************************************)
EXTENDS Publish

EndsOfInt8 == {-128, -1, 0, 1, 10, 45, 48, 65, 127}

EndsOfInts ==
    {-2147483647, -65536, -32769, -32768, -10, -1, 0, 1, 9, 10, 99, 100, 123,
     32767, 32768, 65535, 65536, 2147483647}

SomeContents ==
    {<<>>, <<72, 105>>, True, <<Minus, Zero>>, <<255>>,
     <<NUL>>, <<NUL, 72>>, <<72, NUL, 105>>, <<72, NUL>>, <<72, NUL, NUL>>}

(* 0, -1, 1e+10 *)
SomeFloatText == <<<<48>>, <<45, 49>>, <<49, 101, 43, 49, 48>>>>
=============================================================================
