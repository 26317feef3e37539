------------------------------ MODULE MCX86Life -----------------------------
(***************************************************************************)
(* A host with two machines, two pages, a page of its own and six ports.   *)
(***************************************************************************)
EXTENDS X86LifeProps, TLC

CONSTANTS m1, m2

Machines == {m1, m2}
Either   == Permutations(Machines)

MCHostPage == {100}
MCHostInit == [h \in MCHostPage |-> 7]
MCDevice   == [p \in 0 .. 5 |-> 10 + p]

RW == {"R", "W"}
MCPermArg   == {RW, {"R"}}
MCRangeArg  == {<<0, 9>>, <<1, 1>>}
MCIoPermArg == {RW, {}}
MCOutArg == (1 :> <<21>>) @@ (2 :> <<21, 22>>) @@ (4 :> <<21, 22, 23, 24>>)

L(size, flush) == [size |-> size, flush |-> flush]
MCLogArg == {L(1100, TRUE), L(1100, FALSE), L(0, TRUE)}

(* The writers, by the room they ask for and what they write at most:      *)
(* interrupts, code, registers with those of SSE, accesses, and the        *)
(* reasons of x86emu_run()'s end, which ask for none.                      *)
N(guard, n) == [guard |-> guard, n |-> n]
MCNoteArg == {N(128, 11), N(512, 354), N(512, 523), N(1024, 24), N(0, 24)}
=============================================================================
