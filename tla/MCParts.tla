-------------------------------- MODULE MCParts ---------------------------------
(* A small instance of every part (Parts.tla). *)
EXTENDS Parts

MCIdBytes == {<<1>>, <<1, 1>>}
================================================================================
