------------------------------ MODULE MCFrames ------------------------------
(***************************************************************************)
(* Frames with payloads of up to two symbols, one of them the magic.       *)
(***************************************************************************)
EXTENDS Frames

FewSends == {<<<<2>>, <<9, 8>>, <<>>, <<0>>>>, <<<<>>, <<0>>, <<>>, <<>>>>}
Bytes == {2, 8, 9}
=============================================================================
