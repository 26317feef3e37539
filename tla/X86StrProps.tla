---------------------------- MODULE X86StrProps ----------------------------
(***************************************************************************)
(* What a string instruction has done when it is over, in terms of the     *)
(* registers and the memory it found: closed forms that know no loop.      *)
(***************************************************************************)
EXTENDS X86Str

Done == phase = "done"

UsesSi == ins.op \in {"movs", "cmps", "lods", "outs"}
UsesDi == ins.op \in {"movs", "cmps", "stos", "scas", "ins"}

(* The part of the index registers that is stepped; see Outs.              *)
Stepped == IF ins.op = "outs" THEN WidthOf(ins.a32 /\ Rep) ELSE Width

(* Elements asked for, and handled as the count register tells it. *)
Asked   == IF Rep THEN Index(start.cx) ELSE 1
Handled == IF Rep /\ ins.op \in Scans THEN Asked - Index(cx) ELSE Asked

(* The offset of element j, for a register that held r. *)
Nth(r, j) == (Index(r) + j * Inc) % Width

(* Every variable keeps to its range: the registers stay 32 bits wide      *)
(* whichever part of them the address size selects.                        *)
TypeOK ==
  /\ phase \in {"idle", "loop", "done"}
  /\ ins \in Instrs \cup {NoInstr}
  /\ left \in Reg
  /\ si \in Reg /\ di \in Reg /\ cx \in Reg
  /\ df \in BOOLEAN /\ zf \in BOOLEAN
  /\ acc \in Acc /\ mem \in [Reg -> Value]
  /\ fault \in Seg \cup {"none"}
  /\ start \in Starts \cup {Zeroed}

(* The index registers have moved by as many elements as the count         *)
(* register lost, in the width of the address size and in the direction of *)
(* DF; the halves out of reach of a 16 bit instruction are untouched.      *)
RegistersTell ==
  Done =>
    /\ si = IF UsesSi THEN Written(start.si, Index(start.si) + Handled * Inc, Stepped)
            ELSE start.si
    /\ di = IF UsesDi THEN Written(start.di, Index(start.di) + Handled * Inc, Stepped)
            ELSE start.di
    /\ cx = IF Rep THEN Written(start.cx, Index(cx), Width) ELSE start.cx
    /\ Rep /\ ins.op \in Counts => Index(cx) = 0

(* Element j of a scan compares equal. *)
Hit(j) ==
  LET Byte(seg, r, k) == start.mem[Linear(seg, Nth(r, j) + k)]
  IN  \A k \in Bytes :
        Byte("es", start.di, k) =
          IF ins.op = "cmps" THEN Byte(ins.seg, start.si, k) ELSE acc[k]

GoesOn == "repe" \in ins.rep

(* A repeated CMPS or SCAS stops just behind the first element that ends   *)
(* it, or at the count: CX tells which, ZF how the last comparison ended,  *)
(* and with a count of 0 ZF is the one from before.                        *)
ScanTells ==
  Done /\ Rep /\ ins.op \in Scans =>
    /\ Handled \in 0 .. Asked
    /\ \A j \in 0 .. (Handled - 2) : Hit(j) <=> GoesOn
    /\ Index(cx) # 0 => Handled > 0 /\ (Hit(Handled - 1) <=> ~GoesOn)
    /\ zf <=> IF Handled = 0 THEN start.zf ELSE Hit(Handled - 1)

(* The destination of the elements handled so far. *)
Destination ==
  IF ins.op \in {"movs", "stos", "ins"}
  THEN {Linear("es", Nth(start.di, j) + k) :
          j \in 0 .. (Asked - left - 1), k \in Bytes}
  ELSE {}

(* Nothing but the destination changes, however indices wrap around the    *)
(* segment or the address space.                                           *)
OnlyDestinationWritten ==
  phase # "idle" => \A a \in Reg \ Destination : mem[a] = start.mem[a]

(* The window of a register that held r: its lowest offset, and whether it *)
(* wraps.                                                                  *)
Lowest(r) == IF df THEN Index(r) - (Handled - 1) * ins.size ELSE Index(r)
Total     == Handled * ins.size
Whole(seg, r) ==
  /\ Lowest(r) >= 0
  /\ Lowest(r) + Total <= Width
  /\ Base[seg] + Lowest(r) + Total <= Full

(* A MOVS whose destination runs ahead of its source into bytes still to   *)
(* be read repeats the bytes between the two, which programs use to fill   *)
(* memory; any other MOVS moves, overlap or not.  STOS fills.              *)
CopyTells ==
  Done /\ Handled > 0 /\ Whole("es", start.di) =>
    LET b == Base["es"] + Lowest(start.di)
        a == Base[ins.seg] + Lowest(start.si)
        gap == IF df THEN a - b ELSE b - a
        From(i) == IF gap \in 1 .. Total THEN i % gap ELSE i
        Source(i) == IF df THEN a + Total - 1 - From(Total - 1 - i) ELSE a + From(i)
    IN  /\ ins.op = "movs" /\ Whole(ins.seg, start.si)
             /\ (gap >= ins.size \/ gap <= 0)
           => \A i \in 0 .. (Total - 1) : mem[b + i] = start.mem[Source(i)]
        /\ ins.op = "stos"
           => \A i \in 0 .. (Total - 1) : mem[b + i] = acc[i % ins.size]

(* Some byte of the element lies beyond the limit; of an element that wraps *)
(* around the top of the offsets the check sees the last byte alone.       *)
Over(seg, ofs) ==
  IF ofs + ins.size <= Full THEN \E k \in Bytes : ofs + k > Limit[seg]
  ELSE ofs + ins.size - 1 - Full > Limit[seg]

(* All elements are accessed, in bounds or not; the #GP that is delivered  *)
(* is that of the first access out of bounds, source before destination.   *)
FaultTells ==
  Done =>
    LET Reads(j)  == UsesSi /\ Over(IF ins.op = "outs" THEN "es" ELSE ins.seg,
                                    Nth(start.si, j))
        Writes(j) == UsesDi /\ Over("es", Nth(start.di, j))
        First(j)  == \A i \in 0 .. (j - 1) : ~Reads(i) /\ ~Writes(i)
    IN  /\ fault = "none" <=> First(Handled)
        /\ \A j \in 0 .. (Handled - 1) : First(j) =>
             /\ Reads(j) => fault = IF ins.op = "outs" THEN "es" ELSE ins.seg
             /\ ~Reads(j) /\ Writes(j) => fault = "es"

(* Every string instruction comes to its end: x86emu_run() looks at no     *)
(* limit inside one.                                                       *)
Finishes == phase = "loop" ~> phase = "done"
=============================================================================
