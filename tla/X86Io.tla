------------------------------- MODULE X86Io --------------------------------
(***************************************************************************)
(* The ports of a machine: x86emu_set_io_perm(), vm_i_byte() .. vm_o_dword *)
(* (mem.c).  A machine's io is a record: the permissions and accesses of   *)
(* every port, whether the process may use ports at all, and how often     *)
(* each port was read and written.  A value is the tuple of its bytes,     *)
(* lowest first.                                                           *)
(***************************************************************************)
EXTENDS Integers, Sequences

CONSTANTS
  Ports,     \* X86EMU_IO_PORTS
  Device,    \* the byte a port of the host answers
  Ff,        \* what a port that may not be read answers
  WithIopl   \* the library is built with port access

Port   == 0 .. (Ports - 1)
IoPerm == {"R", "W"}
IoFlag == IoPerm \cup {"accR", "accW", "accINVALID"}
Width  == {1, 2, 4}

ASSUME PortAssumption ==
  /\ Ports \in Nat /\ Ports >= 4
  /\ WithIopl \in BOOLEAN

Io == [map : [Port -> SUBSET IoFlag], iopl_ok : BOOLEAN,
       stats_i : [Port -> Nat], stats_o : [Port -> Nat]]

(* calloc() in x86emu_new() *)
NoPorts == [map |-> [p \in Port |-> {}], iopl_ok |-> FALSE,
            stats_i |-> [p \in Port |-> 0], stats_o |-> [p \in Port |-> 0]]

(* x86emu_set_io_perm(); iopl: the level of the process is 3 *)
SetIoPerm(io, start, end, perm, iopl) ==
  LET map == [p \in Port |-> IF p \in start .. end THEN perm ELSE io.map[p]]
      needed == \E p \in Port : map[p] \cap IoPerm # {}
  IN  [io EXCEPT !.map = map, !.iopl_ok = ~(WithIopl /\ needed) \/ iopl]

-----------------------------------------------------------------------------
NthPort(a, i) == (a + i) % Ports
Ith(a, p)     == (p - a) % Ports
SpanOf(a, n)  == {NthPort(a, i) : i \in 0 .. (n - 1)}

Open(io, p, dir) == io.iopl_ok /\ dir \in io.map[p]

(* Mutant: the permission of the first port counts for all. *)
TogetherFirst(io, a, n, dir) == a + n <= Ports /\ Open(io, a, dir)

(* The access is made in one piece; otherwise byte by byte, and then it    *)
(* may wrap around the last port.                                          *)
Together(io, a, n, dir) ==
  a + n <= Ports /\ \A p \in SpanOf(a, n) : Open(io, p, dir)

(* The ports that are reached *)
Reached(io, a, n, dir) ==
  IF Together(io, a, n, dir) THEN SpanOf(a, n)
  ELSE {p \in SpanOf(a, n) : Open(io, p, dir)}

Counted(stats, S, a) == [p \in Port |-> stats[p] + (IF p \in S THEN 1 ELSE 0)]

Marked(io, a, n, hit, flag) ==
  [p \in Port |-> io.map[p] \cup (IF p \in hit THEN {flag}
                                  ELSE IF p \in SpanOf(a, n) THEN {"accINVALID"} ELSE {})]

(* vm_i_byte, vm_i_word, vm_i_dword: the value, and the io behind it *)
InValue(io, a, n) ==
  [i \in 1 .. n |-> LET p == NthPort(a, i - 1)
                    IN  IF p \in Reached(io, a, n, "R") THEN Device[p] ELSE Ff]

In(io, a, n) ==
  LET hit == Reached(io, a, n, "R")
  IN  [io EXCEPT !.map = Marked(io, a, n, hit, "accR"),
                 !.stats_i = Counted(io.stats_i, hit, a)]

(* vm_o_byte, vm_o_word, vm_o_dword: what arrives at the ports.  In pieces *)
(* every port gets the lowest byte.                                        *)
OutBytes(io, a, n, val) ==
  [p \in Reached(io, a, n, "W") |->
     IF Together(io, a, n, "W") THEN val[Ith(a, p) + 1] ELSE val[1]]

Out(io, a, n) ==
  LET hit == Reached(io, a, n, "W")
  IN  [io EXCEPT !.map = Marked(io, a, n, hit, "accW"),
                 !.stats_o = Counted(io.stats_o, hit, a)]
=============================================================================
