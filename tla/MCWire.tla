------------------------------- MODULE MCWire --------------------------------
(* Sizes on both sides of every boundary of the header, payloads of a few  *)
(* 32-bit words and their leftovers, and two keys with no byte in common.  *)
EXTENDS Wire

MCSizes == {0, 1, 3, 6, 11, 125, 126, 127, 65535, 65536, 16909060}
MCOpcodes == {0, 2, 9, 15}
MCMasks == {<<1, 2, 3, 4>>, <<5, 6, 7, 8>>}
MCTracked == 11
=============================================================================
