------------------------------ MODULE MCRunner ------------------------------
(***************************************************************************)
(* Runner on small instances.  Two images fill one byte or two; <<1>> is a *)
(* workload that keeps its tensors in staging, so that running it          *)
(* scribbles on the byte behind it.                                        *)
(***************************************************************************)
EXTENDS Runner

OneImage  == {<<1>>}
TwoImages == {<<0>>, <<1>>}
LongImages == {<<1>>, <<1, 0>>}
OneByteChunks == {<<0>>, <<1>>}
JustOne == {<<1>>}
None == {}
RunSends == {"RUN", "GET_RESULT"}
UploadSends == {"PING", "LOAD_MODEL_CHUNK"}
ShortChunks == {<<1>>, <<1, 0>>}
=============================================================================
