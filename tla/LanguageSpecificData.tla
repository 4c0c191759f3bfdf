------------------------ MODULE LanguageSpecificData ------------------------
(***************************************************************************)
(* The exception tables of a function as the personality routine reads     *)
(* them (src/cpp/raise-gcc.c, with the value readers of unwind-pe.h): a    *)
(* sequence of bytes b holding a header, the call-site table, the action   *)
(* table and, growing downwards from its base, the table of exception      *)
(* choices. A position p in b is a C pointer; readers return the value     *)
(* and the position after it.                                              *)
(*                                                                         *)
(* Left out: DW_EH_PE_aligned and DW_EH_PE_indirect, which depend on the   *)
(* addresses of the image; values are taken to fit in a word.              *)
(***************************************************************************)
EXTENDS Integers, Sequences

\* Pointer encodings: the low digit is the format, the next one the base.
DW_EH_PE_absptr == 0
DW_EH_PE_uleb128 == 1
DW_EH_PE_udata2 == 2
DW_EH_PE_udata4 == 3
DW_EH_PE_udata8 == 4
DW_EH_PE_sleb128 == 9
DW_EH_PE_sdata2 == 10
DW_EH_PE_sdata4 == 11
DW_EH_PE_pcrel == 16
DW_EH_PE_funcrel == 64
DW_EH_PE_omit == 255

size_of_encoded_value(encoding) ==
  CASE encoding = DW_EH_PE_omit -> 0
    [] encoding % 8 \in {DW_EH_PE_absptr, DW_EH_PE_udata8} -> 8
    [] encoding % 8 = DW_EH_PE_udata2 -> 2
    [] encoding % 8 = DW_EH_PE_udata4 -> 4

\* An image at address 0 and a function that starts at start.
base_of_encoded_value(encoding, start) ==
  IF encoding # DW_EH_PE_omit /\ (encoding \div 16) % 8 = 4 THEN start ELSE 0

-----------------------------------------------------------------------------
\* The last byte of the LEB128 number at p is the first without the high bit.
LastByte(b, p) ==
  CHOOSE q \in p .. Len(b) : b[q] < 128 /\ \A r \in p .. q - 1 : b[r] >= 128

\* Seven bits a byte, the least significant first.
Digits(b, p, last) ==
  LET from[q \in p .. last + 1] ==
        IF q > last THEN 0 ELSE (b[q] % 128) + 128 * from[q + 1]
  IN  from[p]

read_uleb128(b, p) == [val |-> Digits(b, p, LastByte(b, p)), next |-> LastByte(b, p) + 1]

\* The second highest bit of the last byte is the sign.
SignExtend(result, top, digits) == IF top >= 64 THEN result - 128 ^ digits ELSE result

read_sleb128(b, p) ==
  LET last == LastByte(b, p)
  IN  [val |-> SignExtend(Digits(b, p, last), b[last], last - p + 1), next |-> last + 1]

\* size bytes, the most significant last; a signed one may be negative.
Word(b, p, size, signed) ==
  LET top == b[p + size - 1]
      down[i \in 0 .. size - 1] ==
        IF i = size - 1 THEN IF signed /\ top >= 128 THEN top - 256 ELSE top
        ELSE down[i + 1] * 256 + b[p + i]
  IN  down[0]

\* A value other than zero is relative to the base, or to its own position.
read_encoded_value_with_base(encoding, base, b, p) ==
  LET format == encoding % 16
      size == size_of_encoded_value(encoding)
      raw == CASE format = DW_EH_PE_uleb128 -> read_uleb128(b, p)
               [] format = DW_EH_PE_sleb128 -> read_sleb128(b, p)
               [] OTHER -> [val |-> Word(b, p, size, format > 8), next |-> p + size]
      origin == IF (encoding \div 16) % 8 = 1 THEN p ELSE base
  IN  [raw EXCEPT !.val = IF @ = 0 THEN 0 ELSE @ + origin]

read_encoded_value(encoding, start, b, p) ==
  read_encoded_value_with_base(encoding, base_of_encoded_value(encoding, start), b, p)

\* The values of the encodings es one after the other from p: the item after
\* the k-th is at [k + 1].next.
ReadAll(b, es, start, p) ==
  LET read[k \in 0 .. Len(es)] ==
        IF k = 0 THEN <<[val |-> 0, next |-> p]>>
        ELSE Append(read[k - 1], read_encoded_value(es[k], start, b, read[k - 1][k].next))
  IN  read[Len(es)]

-----------------------------------------------------------------------------
(***************************************************************************)
(* The region descriptor of a function that starts at start: LPStart, the  *)
(* encoding and the offset of the exception choices, the encoding and the  *)
(* length of the call-site table. lp, tt and cs are what was read there.   *)
(***************************************************************************)
RegionAfterCallSiteHeader(b, start, lp, tt, cs) ==
  [base |-> start,
   lp_base |-> lp.val,
   ttype_encoding |-> b[lp.next],
   ttype_table |-> tt.next + tt.val,
   call_site_encoding |-> b[tt.next],
   call_site_table |-> cs.next,
   action_table |-> cs.next + cs.val]

RegionAfterTypes(b, start, lp, tt) ==
  RegionAfterCallSiteHeader(b, start, lp, tt, read_uleb128(b, tt.next + 1))

\* With no choices there is no offset either.
RegionAfterLPStart(b, start, lp) ==
  RegionAfterTypes(b, start, lp,
    IF b[lp.next] = DW_EH_PE_omit THEN [val |-> 0, next |-> lp.next + 1]
    ELSE read_uleb128(b, lp.next + 1))

get_region_description_for(b, start) ==
  RegionAfterLPStart(b, start,
    IF b[1] = DW_EH_PE_omit THEN [val |-> start, next |-> 2]
    ELSE read_encoded_value(b[1], start, b, 2))

\* The choices grow down from the base.
get_ttype_entry_for(b, region, filter) ==
  read_encoded_value(region.ttype_encoding, region.base, b,
    region.ttype_table - filter * size_of_encoded_value(region.ttype_encoding)).val

\* The filters of the action records chained from p, 0 standing for cleanups:
\* the displacement of the next record counts from where it is written.
Filters(b, p) ==
  LET chain[q \in 1 .. Len(b)] ==
        LET filter == read_sleb128(b, q)
            disp == read_sleb128(b, filter.next).val
        IN  <<filter.val>> \o (IF disp = 0 THEN <<>> ELSE chain[filter.next + disp])
  IN  chain[p]

\* A call-site entry of which the four fields v were read: its region, its
\* landing pad and the filters of its action records, <<>> for none.
Entry(b, region, v) ==
  [start |-> region.base + v[2].val,
   end |-> region.base + v[2].val + v[3].val,
   landing_pad |-> IF v[4].val = 0 THEN 0 ELSE region.lp_base + v[4].val,
   filters |-> IF v[5].val = 0 THEN <<>> ELSE Filters(b, region.action_table + v[5].val - 1)]

\* The entries from the start of the call-site table up to the action table.
CallSites(b, region) ==
  LET e == region.call_site_encoding
      from[p \in region.call_site_table .. region.action_table] ==
        IF p >= region.action_table THEN <<>>
        ELSE LET v == ReadAll(b, <<e, e, e, DW_EH_PE_uleb128>>, 0, p)
             IN  <<Entry(b, region, v)>> \o from[v[5].next]
  IN  from[region.call_site_table]

\* The entries, and the exception choice of each of the n filters.
Decode(b, region, n) ==
  [sites |-> CallSites(b, region),
   choices |-> [filter \in 1 .. n |-> get_ttype_entry_for(b, region, filter)]]
=============================================================================
