------------------------------ MODULE MCX86Mem ------------------------------
(***************************************************************************)
(* Instances of the emulated memory for TLC: two pages of four bytes, one  *)
(* host buffer, and at most MaxOps requests after x86emu_new().            *)
(***************************************************************************)
EXTENDS X86MemProps

CONSTANT MaxOps
VARIABLE ops

MCInit == Init /\ ops = 0
MCNext == ops < MaxOps /\ ops' = ops + 1 /\ Next
MCSpec == MCInit /\ [][MCNext]_<<vars, ops>>

(* Default permissions of x86emu_new() *)
RW   == {"R", "W"}
All  == {"R", "W", "X", "VALID"}

(* Denied, read-only, write-only but initialised, everything allowed.      *)
Perms     == { {}, {"R"}, {"W", "VALID"}, All }
FewPerms  == { {"R"}, {"X", "VALID"} }

(* Inside a page, head and page, head and tail, one page, a single byte.   *)
Ranges    == { <<1, 2>>, <<2, 7>>, <<3, 5>>, <<4, 7>>, <<0, 3>>, <<4, 4>> }
FewRanges == { <<2, 5>>, <<4, 7>> }
AllRanges == {r \in Addr \X Addr : r[1] <= r[2]}

(* One value of four different bytes, two host bytes for every offset.     *)
Values   == { [i \in 0 .. 3 |-> 17 * (i + 1)] }
HostFill == [h \in HostPage |-> [o \in Offset |-> 160 + o]]
=============================================================================
