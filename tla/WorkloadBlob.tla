---------------------------- MODULE WorkloadBlob ----------------------------
(***************************************************************************)
(* The workload blob: knob encoding, packing and header parsing on the     *)
(* host (pmwl.py), and what the runner's loader makes of the same blob     *)
(* (pmwl.c).  A blob is a record: its header words, the knob words and IO  *)
(* table it carries, and where its sections lie.  What the sections hold   *)
(* is left out.                                                            *)
(***************************************************************************)
EXTENDS Integers, SequencesExt

CONSTANTS
  IO_MAX,     \* IFMs and OFMs of a blob together
  SramEnd,    \* addresses of on-chip SRAM are 0 .. SramEnd - 1
  StackTop,   \* the runner's own image ends here
  TaProfiles, \* TA_PROFILES
  AxiLimits,  \* values of AXI_SRAM and AXI_EXT that set no reserved bit
  MacStepMax  \* POWER_CTRL_MASK

ASSUME BlobAssumption ==
  /\ IO_MAX \in Nat \ {0, 1} /\ IO_MAX % 4 = 2   \* the IO table ends 16-aligned
  /\ MacStepMax \in Nat /\ AxiLimits \subseteq Nat
  /\ SramEnd \in Nat /\ StackTop \in 0 .. SramEnd

\* What the packer is called with: a compiled workload, and arguments of knobs().
Block == [off : Nat, len : Nat]
IsWorkload(i) ==
  /\ {i.cms_len, i.const_len, i.arena_size, i.fast_size} \subseteq Nat
  /\ {i.ins, i.outs} \subseteq Seq(Block) \ {<<>>}

IsKnobArgs(a) ==
  /\ a.ports \subseteq [{"cmd", "const", "arena", "fast"} -> {"sram", "ext"}]
  /\ \A p, r \in a.ports : p = r
  /\ {a.axi, a.axi_limit.sram, a.axi_limit.ext, a.power_ctrl, a.fast_base, a.ta_profile}
       \subseteq Int

OFF == -1   \* 0xFFFFFFFF, no value of any knob
Refused == [version |-> 0]

HEADER_BYTES == 64
IO_BYTES == 4 * (2 + 3 * IO_MAX)
Regions == {"const", "arena", "fast"}

\* Mutant: version 2 is taken to carry the eighth knob, a reserved word.
V2_KNOBS_OffByOne == 8

V2_KNOBS == 7

KNOB_FIELDS == <<"axi_chan", "regioncfg", "qconfig", "mem_attr0", "mem_attr1",
                 "mem_attr2", "mem_attr3", "axi_sram", "axi_ext", "power_ctrl",
                 "fast_base", "ta_profile">>
Knob == ToSet(KNOB_FIELDS)

-----------------------------------------------------------------------------
(* Packing.  The arguments of knobs() are a record, OFF for what is not     *)
(* given; ports is a set, empty or with one function from region to port.  *)

\* Mutant: the field of the arena is that of the constants.
RegionShift_Swapped(r) == CASE r = "const" -> 4 [] r = "arena" -> 1 [] r = "fast" -> 16

RegionShift(r) == CASE r = "const" -> 1 [] r = "arena" -> 4 [] r = "fast" -> 16

Attr(port) == IF port = "ext" THEN 2 ELSE 0

\* The port a region was asked to use; "" when none was.
PortOf(a, r) == IF a.ports = {} THEN "" ELSE (CHOOSE p \in a.ports : TRUE)[r]

KnobsRefused(a) ==
  \/ \E port \in {"sram", "ext"} : a.axi_limit[port] \notin {OFF} \cup AxiLimits
  \/ a.power_ctrl # OFF /\ a.power_ctrl \notin 0 .. MacStepMax
  \/ /\ a.fast_base # OFF
     /\ \/ a.fast_base % 256 # 0
        \/ a.fast_base \notin 0 .. SramEnd - 1
        \/ PortOf(a, "fast") # "sram"
  \/ a.ta_profile # OFF /\ a.ta_profile \notin TaProfiles

PortKnobs(a) ==
  [regioncfg |-> RegionShift("const") * Attr(PortOf(a, "const"))
                   + RegionShift("arena") * Attr(PortOf(a, "arena"))
                   + RegionShift("fast") * Attr(PortOf(a, "fast")),
   qconfig |-> Attr(PortOf(a, "cmd")),
   mem_attr0 |-> 0, mem_attr1 |-> 0, mem_attr2 |-> 4, mem_attr3 |-> 4]

knobs(a) ==
  LET given == [axi_chan |-> a.axi, axi_sram |-> a.axi_limit.sram, axi_ext |-> a.axi_limit.ext,
                power_ctrl |-> a.power_ctrl, fast_base |-> a.fast_base,
                ta_profile |-> a.ta_profile]
      ports == IF a.ports = {} THEN <<>> ELSE PortKnobs(a)
  IN [k \in Knob |-> IF k \in DOMAIN given THEN given[k]
                     ELSE IF k \in DOMAIN ports THEN ports[k] ELSE OFF]

\* Mutant: sections follow each other without padding.
align_Skipped(n) == n

align(n) == ((n + 15) \div 16) * 16

\* Where data blocks of the given lengths lie, the first at off: block n at
\* at[n - 1], the end of all at at[Len(lens)].
Lay(off, lens) ==
  LET at[n \in 0 .. Len(lens)] == IF n = 0 THEN off ELSE align(at[n - 1] + lens[n])
  IN at

PackRefused(i) ==
  \/ Len(i.ins) + Len(i.outs) > IO_MAX
  \/ \E t \in ToSet(i.ins \o i.outs) : t.off + t.len > i.arena_size
  \/ ~i.stop

pack(i, kw) ==
  IF PackRefused(i) THEN Refused ELSE
  LET set(from, to) == \E n \in from .. to : kw[KNOB_FIELDS[n]] # OFF
      version == IF Len(i.ins) + Len(i.outs) > 2 THEN 4
                 ELSE IF set(V2_KNOBS + 1, Len(KNOB_FIELDS)) THEN 3
                 ELSE IF set(1, V2_KNOBS) THEN 2 ELSE 1
      knob_bytes == <<0, 32, 64, 64>>[version]
      cms_off == HEADER_BYTES + knob_bytes + IF version = 4 THEN IO_BYTES ELSE 0
      const_off == align(cms_off + i.cms_len)
      io  == i.ins \o i.outs
      lay == Lay(align(const_off + i.const_len), [n \in DOMAIN io |-> io[n].len])
      entries == [n \in DOMAIN io |->
                    [off |-> io[n].off, len |-> io[n].len, data |-> lay[n - 1]]]
  IN [version |-> version, cms_off |-> cms_off, cms_len |-> i.cms_len,
      const_off |-> const_off, const_len |-> i.const_len,
      arena_size |-> i.arena_size, fast_size |-> i.fast_size,
      first_in |-> entries[1], first_out |-> entries[Len(i.ins) + 1],
      total_len |-> lay[Len(io)],
      words |-> [n \in 1 .. knob_bytes \div 4 |->
                   IF n <= Len(KNOB_FIELDS) THEN kw[KNOB_FIELDS[n]] ELSE OFF],
      n_in |-> IF version = 4 THEN Len(i.ins) ELSE OFF,
      table |-> IF version = 4 THEN entries ELSE <<>>]

\* knob_args: the knobs of a frozen profile, which leaves PMCAXI_CHAN alone.
knob_args(prof) ==
  LET k == prof.knobs IN
    [axi |-> OFF, ports |-> k.ports, axi_limit |-> k.axi_limit, power_ctrl |-> k.power_ctrl,
     fast_base |-> k.fast_base, ta_profile |-> k.ta_profile]

NoFlags == [axi |-> OFF, ports |-> {}, axi_limit |-> [sram |-> OFF, ext |-> OFF],
            power_ctrl |-> OFF, fast_base |-> OFF, ta_profile |-> OFF]

\* pack_vela_workload.py: knobs from the flags, or from a profile and then from
\* nothing else; profs is empty or holds the profile.
PackVela(profs, flags, i) ==
  LET prof  == CHOOSE p \in profs : TRUE
      kargs == IF profs = {} THEN flags ELSE knob_args(prof)
  IN IF \/ profs # {} /\ (flags # NoFlags \/ prof.vela # i.vela)
        \/ i.own_golden /\ Len(i.outs) # 1
        \/ KnobsRefused(kargs)
       THEN Refused ELSE pack(i, knobs(kargs))

-----------------------------------------------------------------------------
(* Parsing, on the host and on the board.                                  *)

\* The knobs a blob carries; word 23 of version 2 is reserved.
KnobsOf(b) ==
  [k \in Knob |->
     LET n == CHOOSE m \in DOMAIN KNOB_FIELDS : KNOB_FIELDS[m] = k IN
       IF n > Len(b.words) \/ (b.version = 2 /\ n = 8) THEN OFF ELSE b.words[n]]

Entries(b) == IF b.version = 4 THEN b.table ELSE <<b.first_in, b.first_out>>
NumIn(b)   == IF b.version = 4 THEN b.n_in ELSE 1

TableWellFormed(b) ==
  b.version = 4 =>
    /\ b.n_in >= 1 /\ Len(b.table) - b.n_in >= 1 /\ Len(b.table) <= IO_MAX
    /\ b.table[1] = b.first_in /\ b.table[b.n_in + 1] = b.first_out

EntryInside(b, e) == e.off + e.len <= b.arena_size /\ e.data + e.len <= b.total_len

parse_header(b) ==
  IF \/ b.version \notin 1 .. 4
     \/ ~TableWellFormed(b)
     \/ \E e \in ToSet(Entries(b)) : ~EntryInside(b, e)
    THEN Refused
    ELSE LET es == Entries(b) IN
      [version |-> b.version, knobs |-> KnobsOf(b),
       inputs |-> SubSeq(es, 1, NumIn(b)),
       outputs |-> SubSeq(es, NumIn(b) + 1, Len(es))]

al256(n) == ((n + 255) \div 256) * 256

\* pmwl_region_ext: does a region's traffic go to the EXT port?
RegionExt(b, r) ==
  LET k == KnobsOf(b)
      shift == CASE r = "const" -> 1 [] r = "arena" -> 4 [] r = "fast" -> 16
      attr  == (k["regioncfg"] \div shift) % 4
      mem   == k[<<"mem_attr0", "mem_attr1", "mem_attr2", "mem_attr3">>[attr + 1]]
  IN k["regioncfg"] = OFF \/ mem = OFF \/ (mem \div 4) % 2 = 1

\* Is the blob run, when all of it was staged and every knob holds?
LoaderAccepts(b) ==
  LET k == KnobsOf(b) IN
    /\ b.version \in 1 .. 4
    /\ TableWellFormed(b)
    /\ \A e \in ToSet(Entries(b)) : EntryInside(b, e)
    /\ k["fast_base"] # OFF =>
         /\ ~RegionExt(b, "fast") /\ k["fast_base"] % 256 = 0
         /\ k["fast_base"] \in StackTop .. SramEnd
         /\ b.fast_size <= SramEnd - k["fast_base"]
    /\ k["ta_profile"] # OFF => k["ta_profile"] \in TaProfiles

\* Offsets in staging of the regions the loader puts behind the blob, as
\* [at, len] by region: those the NPU reaches through its SRAM port.
\* Mutant: the fast scratch is not moved behind the arena.
Placed_Overlap(b) ==
  [r \in {r \in {"arena", "fast"} : ~RegionExt(b, r)} |->
     [at |-> al256(b.total_len),
      len |-> IF r = "arena" THEN b.arena_size ELSE b.fast_size]]

Placed(b) ==
  LET near == al256(b.total_len) IN
    [r \in {r \in {"arena", "fast"} : ~RegionExt(b, r) /\
              (r = "fast" => KnobsOf(b)["fast_base"] = OFF)} |->
       IF r = "arena" THEN [at |-> near, len |-> b.arena_size]
       ELSE [at |-> near + IF RegionExt(b, "arena") THEN 0 ELSE al256(b.arena_size),
             len |-> b.fast_size]]

-----------------------------------------------------------------------------
(* What the format promises, of the blob packed from a question's inputs.  *)

\* Header, command stream, constants and data blocks.
Sections(b) ==
  <<[at |-> 0, len |-> HEADER_BYTES + 4 * Len(b.words) + IF b.version = 4 THEN IO_BYTES ELSE 0],
    [at |-> b.cms_off, len |-> b.cms_len], [at |-> b.const_off, len |-> b.const_len]>>
  \o [n \in DOMAIN Entries(b) |-> [at |-> Entries(b)[n].data, len |-> Entries(b)[n].len]]

Apart(x, y) == x.at + x.len <= y.at \/ y.at + y.len <= x.at

SectionsApart(b) ==
  LET s == Sections(b) IN
  \A n \in DOMAIN s :
    /\ s[n].at % 16 = 0
    /\ s[n].at + s[n].len <= b.total_len
    /\ \A m \in DOMAIN s : n = m \/ Apart(s[n], s[m])

\* The host's parser gives back the knobs and tensors that were packed.
RoundTrip(i, kargs, b) ==
  LET h == parse_header(b)
      io(es) == [n \in DOMAIN es |-> [off |-> es[n].off, len |-> es[n].len]]
  IN /\ h # Refused
     /\ h.knobs = knobs(kargs)
     /\ io(h.inputs) = i.ins /\ io(h.outputs) = i.outs

\* The loader sends each region to the port that was asked for, EXT when none
\* was, refuses a blob only for a fast scratch that does not fit the free on-chip
\* SRAM, and what it puts behind the blob lies behind it and apart.
PortsHonoured(kargs, b) ==
  /\ \A r \in Regions : RegionExt(b, r) <=> PortOf(kargs, r) # "sram"
  /\ LoaderAccepts(b) \/ /\ kargs.fast_base # OFF
                         /\ \/ kargs.fast_base < StackTop
                            \/ kargs.fast_base + b.fast_size > SramEnd
  /\ LET p == Placed(b) IN
       \A r, q \in DOMAIN p :
         /\ p[r].at >= b.total_len
         /\ r = q \/ Apart(p[r], p[q])
=============================================================================
