------------------------------- MODULE X86Seg -------------------------------
(***************************************************************************)
(* Segment registers, descriptors and gates: x86emu_set_seg_register(),    *)
(* decode_descriptor() and idt_lookup() (decode.c).                        *)
(*                                                                         *)
(* Memory is counted in words of 16 bits, and so are limits and offsets.   *)
(* A selector is 2 * index + table indicator: the requested privilege      *)
(* level is left out, nothing looks at it.  The eight bytes of a           *)
(* descriptor are the record of their fields; memory that holds tables is  *)
(* not written while programs run.                                         *)
(***************************************************************************)
EXTENDS Integers

CONSTANTS
  Lo,      \* values of a 16 bit word
  Hi,      \* values of the upper half of a 32 bit one; Lo in the code
  Para,    \* words in a paragraph: 8
  Gran,    \* words in the unit of a limit with the G bit: 2048
  Entry,   \* words in a descriptor or gate: 4
  Descrs,  \* descriptors in memory, by base of the table and index
  Vectors  \* real mode vectors in memory, by base of the table and number

Full == Lo * Hi
Word == 0 .. (Lo - 1)
Long == 0 .. (Full - 1)
Nr   == 0 .. (Lo - 1)        \* interrupt numbers and descriptor indices

Type  == 0 .. 15
Access == [s : BOOLEAN, type : Type, big : BOOLEAN]    \* the acc of sel_t
Descr == [readable : BOOLEAN, p : BOOLEAN, acc : Access, g : BOOLEAN,
          base : Long, limit : Nat, sel : Word, ofs : Long]
Reg   == [sel : Word, base : Long, limit : Nat, acc : Access]

ASSUME SizeAssumption ==
  /\ Lo \in Nat /\ Lo >= 16 /\ Lo % 16 = 0
  /\ Hi \in Nat \ {0} /\ Hi <= Lo
  /\ Para \in Nat /\ Para * Lo <= Full
  /\ Gran \in Nat \ {0} /\ Entry \in Nat \ {0}
ASSUME TableAssumption ==
  /\ Descrs \in [Long -> [Nr -> Descr]]
  /\ Vectors \in [Long -> [Nr -> [cs : Word, eip : Word]]]

-----------------------------------------------------------------------------
NoAcc == [s |-> FALSE, type |-> 0, big |-> FALSE]
Null  == [sel |-> 0, base |-> 0, limit |-> 0, acc |-> NoAcc]

(* decode_descriptor(): the limit, and what kind of descriptor it is *)
LimitOf(d) == IF d.g THEN d.limit * Gran + Gran - 1 ELSE d.limit

IsSegment(d) == d.acc.s
IsGate(d)    == ~d.acc.s /\ d.acc.type % 8 \in {6, 7}   \* interrupt, trap

Index(sel)   == sel \div 2
InLdt(sel)   == sel % 2 = 1

(* The descriptor a table register describes at an index; a table that is  *)
(* too short has none.                                                     *)
Within(table, i) == i * Entry + Entry - 1 <= table.limit
At(table, i)     == Descrs[table.base][i]

Usable(d) == d.readable /\ d.p /\ IsSegment(d)

LoadedFrom(d, val) == [sel |-> val, base |-> d.base, limit |-> LimitOf(d), acc |-> d.acc]

(* x86emu_set_seg_register(): in real mode limit and access rights stay,   *)
(* in protected mode a refused selector leaves the register alone.         *)
Load(pe, gdt, ldt, r, val) ==
  LET table == IF InLdt(val) THEN ldt ELSE gdt
      d     == At(table, Index(val))
  IN  IF ~pe THEN [ok |-> TRUE, reg |-> [r EXCEPT !.sel = val, !.base = val * Para]]
      ELSE IF Index(val) = 0 THEN [ok |-> TRUE, reg |-> Null]
      ELSE IF Within(table, Index(val)) /\ Usable(d)
      THEN [ok |-> TRUE, reg |-> LoadedFrom(d, val)]
      ELSE [ok |-> FALSE, reg |-> r]

(* idt_lookup(): an unusable gate leaves the interrupted cs:eip.  In real  *)
(* mode the limit does not count, and neither does a failed read.          *)
GateUsable(idt, nr) ==
  LET d == At(idt, nr)
  IN  Within(idt, nr) /\ d.readable /\ d.p /\ IsGate(d)

Handler(pe, idt, nr, cs, eip) ==
  IF ~pe THEN Vectors[idt.base][nr]
  ELSE IF GateUsable(idt, nr)
  THEN [cs |-> At(idt, nr).sel, eip |-> At(idt, nr).ofs]
  ELSE [cs |-> cs, eip |-> eip]
=============================================================================
