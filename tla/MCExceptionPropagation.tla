----------------------- MODULE MCExceptionPropagation -----------------------
(***************************************************************************)
(* A small program for ExceptionPropagation: its tables as the compiler    *)
(* lays them out in the encodings the readers know, and its instructions.  *)
(***************************************************************************)
EXTENDS ExceptionPropagation, LanguageSpecificData, SequencesExt

Site(first, last, pad, chain) == [first |-> first, last |-> last, pad |-> pad, chain |-> chain]

(***************************************************************************)
(* main has the handler of last resort; outer handles e1 (10) and others   *)
(* after a cleanup, has a region with a cleanup only and one with nothing, *)
(* and a cleanup around its handlers; inner handles e2 (11); quiet handles *)
(* whatever it raises and is what cleanups call; foreign has no tables.    *)
(***************************************************************************)
Table ==
  [main  |-> [start |-> 1000, types |-> <<UNHANDLED_OTHERS>>,
              sites |-> <<Site(1001, 1020, 1050, <<1>>)>>],
   outer |-> [start |-> 2000, types |-> <<OTHERS, 10>>,
              sites |-> <<Site(2001, 2010, 2200, <<0, 2, 1>>), Site(2011, 2020, 2210, <<0>>),
                          Site(2021, 2030, 0, <<0>>), Site(2202, 2203, 2220, <<0>>)>>],
   inner |-> [start |-> 3000, types |-> <<11, ALL_OTHERS>>,
              sites |-> <<Site(3001, 3005, 3050, <<0, 1>>), Site(3006, 3010, 3060, <<2>>)>>],
   quiet |-> [start |-> 4000, types |-> <<OTHERS>>,
              sites |-> <<Site(4001, 4005, 4020, <<1>>)>>]]

\* Layouts: the encodings, LPStart (0 for omitted) and how records are linked.
Layouts ==
  {[site |-> DW_EH_PE_uleb128, ttype |-> DW_EH_PE_udata4, lpstart |-> 0, back |-> TRUE],
   [site |-> DW_EH_PE_sdata4, ttype |-> DW_EH_PE_sdata2, lpstart |-> 10, back |-> FALSE],
   [site |-> DW_EH_PE_udata2, ttype |-> DW_EH_PE_udata8, lpstart |-> 10, back |-> TRUE]}

-----------------------------------------------------------------------------
Uleb(n) == IF n < 128 THEN <<n>> ELSE <<128 + (n % 128), n \div 128>>
Sleb(n) == <<IF n < 0 THEN n + 128 ELSE n>>
\* The numbers of this program fit in two bytes.
Bytes(size, n) == [i \in 1 .. size |-> IF i > 2 THEN 0 ELSE (n \div (256 ^ (i - 1))) % 256]
Value(encoding, n) ==
  IF encoding % 16 = DW_EH_PE_uleb128 THEN Uleb(n)
  ELSE Bytes(size_of_encoded_value(encoding), n)

\* The records of a chain, first to last or, linked backwards, last to first.
Records(l, chain) ==
  LET n == Len(chain)
      record(k) == Sleb(chain[k]) \o
                   Sleb(IF k = n THEN 0 ELSE IF l.back THEN -3 ELSE 1)
  IN  FlattenSeq([i \in 1 .. n |-> record(IF l.back THEN n + 1 - i ELSE i)])

\* A chain of one cleanup needs no record.
RecordsOf(l, site) == IF site.chain = <<0>> THEN <<>> ELSE Records(l, site.chain)
Actions(l, sites) == FlattenSeq([i \in DOMAIN sites |-> RecordsOf(l, sites[i])])
ActionOf(l, sites, i) ==
  IF sites[i].chain = <<0>> THEN 0
  ELSE 1 + Len(Actions(l, SubSeq(sites, 1, i - 1)))
         + (IF l.back THEN 2 * (Len(sites[i].chain) - 1) ELSE 0)

SiteBytes(l, t) ==
  FlattenSeq([i \in DOMAIN t.sites |->
    Value(l.site, t.sites[i].first - t.start)
      \o Value(l.site, t.sites[i].last - t.sites[i].first + 1)
      \o Value(l.site, IF t.sites[i].pad = 0 THEN 0 ELSE t.sites[i].pad - t.start - l.lpstart)
      \o Uleb(ActionOf(l, t.sites, i))])

Types(l, types) ==
  FlattenSeq([i \in DOMAIN types |-> Value(l.ttype, types[Len(types) + 1 - i])])

Emit(l, t) ==
  LET rest == <<l.site>> \o Uleb(Len(SiteBytes(l, t))) \o SiteBytes(l, t)
                \o Actions(l, t.sites) \o Types(l, t.types)
  IN  (IF l.lpstart = 0 THEN <<DW_EH_PE_omit>>
       ELSE <<DW_EH_PE_funcrel + DW_EH_PE_udata2>> \o Bytes(2, l.lpstart))
        \o <<l.ttype>> \o Uleb(Len(rest)) \o rest

-----------------------------------------------------------------------------
MCFuns == DOMAIN Table \cup {"foreign"}
MCStart == [f \in MCFuns |-> IF f = "foreign" THEN 5000 ELSE Table[f].start]
MCChain ==
  [f \in MCFuns |->
    IF f = "foreign" THEN <<>>
    ELSE LET sites == {s \in ToSet(Table[f].sites) : s.pad # 0}
         IN  [p \in {s.pad : s \in sites} |-> (CHOOSE s \in sites : s.pad = p).chain]]
MCRegions == [f \in MCFuns |-> IF f = "foreign" THEN {} ELSE ToSet(Table[f].sites)]
MCTypeTable == [f \in MCFuns |-> IF f = "foreign" THEN <<>> ELSE Table[f].types]

Op(at, pad, rec, op, arg) == [at |-> at, pad |-> pad, rec |-> rec, op |-> op, arg |-> arg]

\* 13 is an identity that others does not cover, as is that of an abort.
MCOps ==
  [main |-> {Op(1005, 0, 0, "call", "outer"), Op(1010, 0, 0, "call", "foreign"),
             Op(1051, 1050, 1, "terminate", "")},
   outer |-> {Op(2005, 0, 0, "call", "inner"), Op(2010, 0, 0, "call", "foreign"),
              Op(2011, 0, 0, "call", "inner"), Op(2025, 0, 0, "call", "inner"),
              Op(2035, 0, 0, "call", "inner"),
              Op(2201, 2200, 1, "call", "quiet"), Op(2202, 2200, 2, "reraise", ""),
              Op(2211, 2210, 1, "call", "quiet")},
   inner |-> {Op(3002, 0, 0, "raise", <<"GNAT", 10>>), Op(3004, 0, 0, "fault", "ACCESS_VIOLATION"),
              Op(3003, 0, 0, "fault", "UNKNOWN"), Op(3005, 0, 0, "raise", <<"GNAT", 13>>),
              Op(3008, 0, 0, "raise", <<"GNAT", 12>>), Op(3015, 0, 0, "raise", <<"GNAT", 13>>),
             Op(3016, 0, 0, "fault", "INT_DIVIDE_BY_ZERO"),
              Op(3051, 3050, 1, "call", "quiet")},
   quiet |-> {Op(4003, 0, 0, "raise", <<"GNAT", 12>>)},
   foreign |-> {Op(5005, 0, 0, "raise", <<"C++", 20>>), Op(5010, 0, 0, "call", "inner")}]

\* The same with a fault on the first instruction of a region.
MCOpsFaultFirst ==
  [MCOps EXCEPT !["inner"] = @ \cup {Op(3006, 0, 0, "fault", "ACCESS_VIOLATION")}]

MCImages ==
  {[f \in DOMAIN Table |->
     LET b == Emit(l, Table[f])
     IN  Decode(b, get_region_description_for(b, Table[f].start), Len(Table[f].types))] :
   l \in Layouts}

MCRoots == {"main", "outer"}

ASSUME InstanceAssumption == Ops = MCOps => FaultAssumption
=============================================================================
