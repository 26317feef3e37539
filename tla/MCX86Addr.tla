----------------------------- MODULE MCX86Addr ------------------------------
(***************************************************************************)
(* Bytes of 2 bits, so words of 4 and longs of 8: every mod, rm, base and  *)
(* index, and displacements at the ends of their signed ranges.            *)
(***************************************************************************)
EXTENDS X86AddrProps

(* Bases far apart; DS ends in the middle, SS before the last byte.        *)
SegInit == [s \in Seg |->
  [sel |-> s, base |-> 40 * s, limit |-> IF s = DS THEN 200 ELSE IF s = SS THEN 254 ELSE 255]]

Fill == [a \in {0, 1, 2, 3, 80, 85, 120, 121, 126, 127, 130, 200, 255} |-> 1 + (a % 3)]

MachineOf(regs) == [reg |-> regs, mem |-> Fill, seg |-> SegInit, cf |-> FALSE, zf |-> FALSE, intr |-> None]

(* All registers different: small ones, and ones with upper halves.        *)
Small == [r \in Gpr |-> (r * 7) % 16]
Large == [r \in Gpr |-> 255 - 29 * r]
MCMachines == {MachineOf(Small), MachineOf(Large)}

MCDisp == {0, 3, 7, 130}
MCImm  == {0, 3, 9, 254}

Op(mod, rm, r, scale, index, base, disp, addr32, over) ==
  [mod |-> mod, rm |-> rm, r |-> r, scale |-> scale, index |-> index, base |-> base,
   disp |-> disp, addr32 |-> addr32, over |-> over]

(* A part that the encoding does not have is 0. *)
Direct(rs)   == {Op(3, rm, r, 0, 0, 0, 0, FALSE, None) : rm \in Gpr, r \in rs}
ModRm16(rs)  == {Op(mod, rm, r, 0, 0, 0, d, FALSE, ov) :
                   mod \in 0 .. 2, rm \in Gpr, r \in rs, d \in MCDisp, ov \in {None, ES}}
ModRm32(rs)  == {Op(mod, rm, r, 0, 0, 0, d, TRUE, ov) :
                   mod \in 0 .. 2, rm \in Gpr \ {SP}, r \in rs, d \in MCDisp, ov \in {None, ES}}
WithSib(rs)  == {Op(mod, SP, r, sc, ix, b, d, TRUE, None) :
                   mod \in 0 .. 2, r \in rs, sc \in {0, 3}, ix \in {AX, SP, BP}, b \in Gpr, d \in {0, 130}}

MCOperands  == Direct({AX, SP, BP, 7}) \cup ModRm16({AX, 5}) \cup ModRm32({5}) \cup WithSib({AX})
BitOperands == Direct({DX}) \cup ModRm16({BX})
=============================================================================
