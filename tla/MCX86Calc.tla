----------------------------- MODULE MCX86Calc ------------------------------
(***************************************************************************)
(* Byte, "word" and "long" operands of 8, 9 and 10 bits: the copies of the *)
(* code differ in whether the operand is a byte and whether it fills the C *)
(* type.  Operands around the carries of digit, sign and width.            *)
(***************************************************************************)
EXTENDS X86CalcProps

MCSize == {8, 9, 10}
MCAcc  == {0, 1, 9, 15, 90, 127, 128, 153, 255, 256, 511, 512, 1023}
MCExt  == {0, 1, 255, 512}
MCOperand == {0, 1, 7, 8, 16, 127, 128, 255, 256, 511, 512, 1023}
MCCount   == (0 .. 12) \cup {16, 255}
MCBase    == {0, 1, 10, 16, 255}
MCRealBase == MCBase \ {0}
MCFlags   == {{}, {"CF"}, {"AF", "OF"}, {"CF", "ZF", "SF", "PF"}}
MCLong == {8, 10}
MCNone == {}
MCDigits  == {0, 1, 9, 49, 90, 99}
=============================================================================
