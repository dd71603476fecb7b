-------------------------- MODULE MCMeasureWindow --------------------------
(***************************************************************************)
(* MeasureWindow with counters of a few bits, two slots, and one event of  *)
(* each kind.                                                              *)
(***************************************************************************)
EXTENDS MeasureWindow

Config(m, c) == [mode |-> m, codes |-> c]

FewConfigs ==
  {Config("OFF", <<>>), Config("END_ONLY", <<>>), Config("EVENTS", <<"mac">>),
   Config("EVENTS", <<"clock", "mac">>)}
=============================================================================
