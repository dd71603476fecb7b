---------------------------- MODULE MCDecisions ----------------------------
(***************************************************************************)
(* Decisions over small inputs.  Images of the gate: a measured root, the  *)
(* dispatcher, a function between, the NPU's entry, a logging function, a  *)
(* test-only handler and an injection marker, with every subset of seven   *)
(* calls.                                                                  *)
(***************************************************************************)
EXTENDS Decisions

FewNames == {"root", "mid", "npu", "log", "dispatch", "hook", "inject"}
SomeCalls == {<<"root", "mid">>, <<"mid", "root">>, <<"mid", "npu">>, <<"mid", "log">>,
              <<"log", "npu">>, <<"dispatch", "hook">>, <<"dispatch", "mid">>}
FewElfs ==
  {[defined |-> d, calls |-> {c \in cs : c[1] \in d}, blx |-> b \cap d,
    symbols |-> d \cup s, noinit |-> n] :
     d \in {FewNames \ {"inject"}, {"root", "mid", "npu", "dispatch"},
            {"mid", "npu", "log"}, {"root", "mid", "log"}},
     cs \in SUBSET SomeCalls, b \in {{}, {"mid"}, {"log"}},
     s \in {{}, {"inject"}},
     n \in {[found |-> TRUE, moved |-> FALSE, objects |-> {"a.o"}],
            [found |-> TRUE, moved |-> FALSE, objects |-> {"a.o", "x.o"}]}}
Log  == {"log"}
Root == {"root"}
Dispatch == {"dispatch"}
Hook == {"hook"}
Inject == {"inject"}
Known == {"log"}
Allowed == {"a.o", "b.o"}

Tensor(off, len) == [off |-> off, len |-> len]
Info(cms, const, fast, ins, outs, stop, own) ==
  [cms_len |-> cms, const_len |-> const, arena_size |-> 64, fast_size |-> fast, ins |-> ins,
   outs |-> outs, stop |-> stop, own_golden |-> own, vela |-> "4.2"]
Infos ==
  {Info(cms, const, fast, ins, outs, TRUE, FALSE) :
     cms \in {4, 20}, const \in {0, 17}, fast \in {0, 300},
     ins \in {<<Tensor(0, 16)>>, <<Tensor(8, 17), Tensor(0, 5)>>},
     outs \in {<<Tensor(47, 17)>>, <<Tensor(0, 1), Tensor(16, 33)>>}}
  \cup {Info(4, 1, 0, <<Tensor(0, 16)>>, outs, stop, own) :
          outs \in {<<Tensor(48, 17)>>, [n \in 1 .. 6 |-> Tensor(n, 1)],
                    <<Tensor(0, 1), Tensor(1, 1)>>},
          stop \in BOOLEAN, own \in BOOLEAN}
Ports(arena, fast) ==
  {[cmd |-> "ext", const |-> "sram", arena |-> arena, fast |-> fast]}
Flags ==
  [axi : {OFF, 8}, ports : {{}} \cup {Ports(x, y) : x, y \in {"sram", "ext"}},
   axi_limit : {[sram |-> OFF, ext |-> OFF], [sram |-> 1, ext |-> OFF],
                [sram |-> OFF, ext |-> 0], [sram |-> 0, ext |-> 2]},
   power_ctrl : {OFF, 0, 2}, fast_base : {OFF, 256, 300, 1024},
   ta_profile : {OFF, 1, 3}]
Profile == [vela |-> "4.2",
            knobs |-> [ports |-> Ports("ext", "sram"), axi_limit |-> [sram |-> 1, ext |-> 1],
                       power_ctrl |-> 0, fast_base |-> 512, ta_profile |-> 1]]
FewPackings ==
  {[profs |-> {}, flags |-> f, info |-> i] : f \in Flags, i \in Infos}
  \cup {[profs |-> {p}, flags |-> f, info |-> i] :
          p \in {Profile, [Profile EXCEPT !.vela = "4.1"]},
          f \in {NoFlags, [NoFlags EXCEPT !.axi = 8]}, i \in Infos}
TaTwo == {1, 2}
AxiTwo == {0, 1}

FewRecords ==
  [seq : {0, 5}, flags : {0, 15}, rc : {0, 1}, body : {<<3>>, <<3, 1, 2>>}]
  \cup [seq : {5}, flags : {15}, rc : {0},
        body : {<<4, m, 1, 0, 9, 6, 8, 7, c>> \o t :
                  m \in 0 .. 3, c \in 0 .. 2, t \in {<<>>, <<2>>}}]

FewValues == 0 .. 2
FewMetrics ==
  [op : [counter : Stats, mac : Stats], ref : [counter : Stats, mac : Stats]]
FewOperators ==
  [counter : [Inactivity -> {Always(0), Always(2), Always(3), [min |-> 0, median |-> 2, max |-> 3]}],
   mac : {Always(1), Always(3)}, low : BOOLEAN, c : {"LOWER", "HIGHER", "OVERLAP"}]
=============================================================================
