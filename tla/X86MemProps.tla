---------------------------- MODULE X86MemProps ----------------------------
(***************************************************************************)
(* Properties of the emulated memory (mem.c).                              *)
(***************************************************************************)
EXTENDS X86Mem

-----------------------------------------------------------------------------
(* Types of the page tables and of the last answer of vm_memio(). *)
TypeOK ==
  /\ created \subseteq Page
  /\ def_attr \in [Page -> Attr]
  /\ attr \in [Addr -> Attr]
  /\ own \in [Addr -> Byte]
  /\ map \in [Page -> HostPage \cup {Own}]
  /\ host \in [HostPage -> [Offset -> Byte]]
  /\ invalid \in BOOLEAN
  /\ ret.op \in {"new", "R", "X", "W", "Rnoperm", "Wnoperm",
                 "perm", "map", "unmap", "reset"}
  /\ ret.addr \in Addr

(* The paged memory with lazily created attribute arrays and word-sized    *)
(* fast paths behaves as the flat byte array: the attribute of a byte is   *)
(* the one the page would present if it were created now.                  *)
Flat == INSTANCE X86FlatMem WITH attr <- [a \in Addr |-> AttrOf(a)]

(* mem.c implements the flat memory, for the ranges and permissions of the *)
(* run's configuration.                                                    *)
ImplementsFlat == Flat!Spec

-----------------------------------------------------------------------------
(* Where the byte at address a lives. *)
OwnCell(a)  == map[PageOf(a)] = Own

(* The address a is the target of the write that this step performs.       *)
Writes(a) ==
  \/ ret'.op = "W" /\ a \in Span(ret'.addr, ret'.n) /\ "W" \in AttrOf(a)
  \/ ret'.op = "Wnoperm" /\ a = ret'.addr

(* Stored data changes only under a writable byte of the request being     *)
(* served, in the buffer that is mapped there: a word that straddles a     *)
(* protected byte or a page never spills into it, and mapping or unmapping *)
(* a host buffer changes neither buffer.                                   *)
DataProtected ==
  /\ \A a \in Addr : own'[a] # own[a] => OwnCell(a) /\ Writes(a)
  /\ \A h \in HostPage, o \in Offset : host'[h][o] # host[h][o] =>
       \E a \in Addr : map[PageOf(a)] = h /\ OfsOf(a) = o /\ Writes(a)

ProtectedDataUnchanged == [][ DataProtected ]_vars

(* An access never takes a flag away from a byte and never changes R, W    *)
(* or X: only x86emu_set_perm() on that byte does, and the reset drops     *)
(* just the access statistics.  The lazy creation of a page, by whichever  *)
(* request comes first, is invisible.                                      *)
FlagsKept(a) ==
  LET old == AttrOf(a)
      new == (AttrOf(a))'
  IN  \/ ret'.op = "perm" /\ a \in ret'.addr .. (ret'.addr + ret'.n - 1)
      \/ ret'.op = "reset" /\ new \cup Acc = old \cup Acc
      \/ old \subseteq new /\ new \cap Rwx = old \cap Rwx

FlagsStable == [][ \A a \in Addr : FlagsKept(a) ]_vars

(* A data read that vm_memio() reports as good touched only readable,      *)
(* initialised bytes, left its mark on every one of them and returned the  *)
(* stored data; a read reported as bad has a byte that explains it.        *)
ReadAnswer ==
  ret.op = "R" =>
    LET S == Span(ret.addr, ret.n)
        good(b) == {"R", "VALID", "accR"} \subseteq AttrOf(b)
    IN  /\ invalid = (\E b \in S : ~good(b))
        /\ \A i \in 0 .. (ret.n - 1) :
             LET b == Nth(ret.addr, i)
             IN  ret.val[i] = IF "R" \in AttrOf(b) THEN Data(PageOf(b), OfsOf(b)) ELSE 255

-----------------------------------------------------------------------------
(* README.md:165 x86emu_set_perm(emu, start, end, perm) sets perm on  *)
(* the bytes from start to end.                                            *)
RangeIsSet ==
  [][ \A r \in RangeArg, perm \in PermArg : SetPerm(r[1], r[2], perm) =>
        \A a \in r[1] .. r[2] : (AttrOf(a))' = perm ]_vars
=============================================================================
