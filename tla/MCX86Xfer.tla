----------------------------- MODULE MCX86Xfer ------------------------------
(***************************************************************************)
(* Programs of a few instructions on machines with 16 bit and 32 bit code  *)
(* and stack segments, in real and in protected mode.                      *)
(***************************************************************************)
EXTENDS X86XferProps

Data(big) == [s |-> TRUE, type |-> 3, big |-> big]
CodeAcc(big) == [s |-> TRUE, type |-> 11, big |-> big]
Gate == [s |-> FALSE, type |-> 14, big |-> FALSE]

D0 == [readable |-> TRUE, p |-> TRUE, acc |-> Data(FALSE), g |-> FALSE, base |-> 0,
       limit |-> 15, sel |-> 0, ofs |-> 0]

(* The global table at 0: 1 code 16, 2 code 32, 3 stack 16 with a low      *)
(* limit, 4 stack 32, 5 absent, 6 a gate, 7 an unreadable place.           *)
Global == <<[D0 EXCEPT !.acc = CodeAcc(FALSE)],
            [D0 EXCEPT !.acc = CodeAcc(TRUE), !.g = TRUE, !.limit = 0],
            [D0 EXCEPT !.limit = 13, !.base = 3],
            [D0 EXCEPT !.acc = Data(TRUE), !.limit = 31],
            [D0 EXCEPT !.p = FALSE],
            [D0 EXCEPT !.acc = Gate],
            [D0 EXCEPT !.readable = FALSE]>>

(* Gates at 1: to usable code, to an absent segment, none. *)
Gates == [i \in Nr |-> CASE i = 0 -> [D0 EXCEPT !.acc = Gate, !.sel = 4, !.ofs = 20]
                         [] i = 3 -> [D0 EXCEPT !.acc = Gate, !.sel = 2, !.ofs = 9]
                         [] i = 4 -> [D0 EXCEPT !.acc = Gate, !.sel = 10, !.ofs = 7]
                         [] i = 1 -> [D0 EXCEPT !.acc = Gate, !.sel = 4, !.ofs = 5]
                         [] OTHER -> D0]
MCDescrs == [b \in Long |->
              IF b = 1 THEN Gates
              ELSE [i \in Nr |-> IF b = 0 /\ i \in 1 .. 7 THEN Global[i]
                                 ELSE [D0 EXCEPT !.p = FALSE]]]

MCVectors == [b \in Long |-> [i \in Nr |-> [cs |-> i % 4, eip |-> 8 + (i % 4)]]]

RealReg == [sel |-> 0, base |-> 0, limit |-> 15, acc |-> Data(FALSE)]
Regs(sp, bp) == [r \in Gpr |-> CASE r = "sp" -> sp [] r = "bp" -> bp [] r = "cx" -> 17
                                 [] r = "ax" -> 6 [] r = "di" -> 25 [] OTHER -> 3]
Protected(cs, ss, sp) ==
  [reg |-> Regs(sp, 6),
   seg |-> [s \in SegName |->
     CASE s = "cs" -> LoadedFrom(Global[cs \div 2], cs)
       [] s = "ss" -> LoadedFrom(Global[ss \div 2], ss)
       [] OTHER    -> Null],
   gdt |-> [base |-> 0, limit |-> 15], idt |-> [base |-> 1, limit |-> 15],
   pe |-> TRUE, eip |-> 2, flags |-> 14, mem |-> [a \in Long |-> 0], intr |-> None]

MCMachines ==
  { [Protected(2, 6, 2) EXCEPT !.pe = FALSE, !.seg = [s \in SegName |-> RealReg]],
    Protected(2, 6, 17), Protected(4, 8, 5), Protected(4, 6, 9),
    [Protected(2, 8, 20) EXCEPT !.eip = 18, !.flags = 27] }

MCOffset == {-2}
MCTables == {[base |-> 0, limit |-> 3]}
=============================================================================
