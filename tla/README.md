# A verification project for libx86emu

libx86emu emulates an x86 processor, its memory and its I/O ports for a host
program, which usually runs BIOS code in it. This directory holds TLA+ models
of its parts, TLC configurations that check them on small instances, and
theorems about them that TLAPS checks for all values of the constants.
`PROJECT.json` has, for every definition, the source lines it models (`map`),
the runs, a mutant of the code for every property, the findings, the hazards
and the theorems.

Each section says what is modelled, how it corresponds to the code, and what
is left out.

1. [The system](#1-the-system)
2. [The modules](#2-the-modules)
3. [Memory](#3-memory)
4. [The run loop](#4-the-run-loop)
5. [Arithmetic](#5-arithmetic)
6. [String instructions](#6-string-instructions)
7. [Stack, transfers and segments](#7-stack-transfers-and-segments)
8. [Operands and addresses](#8-operands-and-addresses)
9. [Machines, ports and the log](#9-machines-ports-and-the-log)
10. [Findings and other divergences](#10-findings-and-other-divergences)
11. [What is proved, and what is only checked](#11-what-is-proved-and-what-is-only-checked)
12. [Not modelled](#12-not-modelled)

## 1. The system

One `x86emu_t` is one machine. It has no threads; what makes it hard is that
it calls the host at many points of every instruction (code handler, memory
and port handler, interrupt handler, MSR handlers, log flush), that the host may
stop it, raise interrupts and change anything there, that a faulting
instruction goes on to its end, that everything exists in a byte, a word
and a long copy, and that a host may copy and delete machines.

| component | state | operations | hard behaviour | what makes it correct | model |
|---|---|---|---|---|---|
| **memory** (`mem.c`) | two-level page table; per page an attribute array, a data pointer, a default attribute; `mem->invalid` | `vm_memio()` (read, write, execute; byte, word, dword), `x86emu_set_perm()`, `x86emu_set_page()`, `x86emu_reset_access_stats()` | pages made on demand, fast paths, accesses across pages and denied bytes, address wrap, range walks | it is a flat array of bytes with attributes; denied bytes keep their data | `X86Mem` |
| **run loop** (`decode.c`) | `R_EIP`, `saved_eip`, `mode`, `R_TSC`, the pending interrupt, the result | `x86emu_run()`, `x86emu_stop()`, `x86emu_intr_raise()`, `handle_interrupt()`, `generate_int()` | stops and interrupts from callbacks at any point, limits on a counter the program writes, fetches that fail | whole instructions, each followed by its interrupt; stops and limits hold; runs end | `X86Run` |
| **primitive operations** (`prim_ops.c`) | flags | add … div, shifts, rotations, decimal adjustment, conditions | carry chains as closed formulas, counts of the width and more, quotients that do not fit | agreement with integers, with single steps and with decimal numbers | `X86Alu`, `X86Calc` |
| **string instructions** (`ops.c`, `prim_ops.c`) | SI, DI, CX, DF, ZF, memory | MOVS, CMPS, STOS, LODS, SCAS, INS, OUTS with REPE/REPNE | 24 copies of a loop; wrapping halves of registers, overlapping windows, early ends, faults in the middle | closed forms of the result | `X86Str` |
| **segments and descriptors** (`decode.c`, `ops2.c`) | selector, base, limit, attributes of each segment; GDT, IDT, PE | `decode_descriptor()`, `x86emu_set_seg_register()`, `idt_lookup()`, `check_data_access()`, LGDT, LIDT, LMSW | faults inside delivery, limits that stay over a change of mode, null selectors | a segment register is whole: all of it is loaded or none | `X86Seg`, `X86Xfer` |
| **opcode handlers** (`ops.c`, `ops2.c`) | all registers | two tables of 256 | fault and effect in one handler, stack size against operand size | counterparts undo each other; a fault leaves what it should; an instruction changes its target only | `X86Xfer`, `X86Addr`, `X86Calc`, `X86Str` |
| **address decoding** (`decode.c`) | instruction bytes, mode bits | ModRM, SIB, register selection, segment defaults | 16/32 bit forms, ESP and EBP exceptions, `SEG_DS_SS` as state | the address an assembler means, for every encoding | `X86Addr` |
| **I/O ports** (`mem.c`) | permission map, counters, `iopl_ok` | `x86emu_set_io_perm()`, `vm_i_*`, `vm_o_*` | word and dword split at a denied port or behind the last one | a multi-byte access is byte accesses of the right bytes | `X86Io`, `X86Life` |
| **log** (`api.c`, `decode.c`) | buffer, write pointer | `x86emu_log()`, `x86emu_clear_log()`, `x86emu_set_log()`, the tracers | space guards, flush, a buffer replaced | nothing is lost without a flush; who writes behind the end, and how far | `X86Log`, `X86Life` |
| **life cycle** (`api.c`, `mem.c`) | everything above, as blocks of memory that point to each other | new, clone, reset, done, the handlers, MSRs | pointers copied with a machine, blocks used again | a clone is independent of its original; no block lost, shared or used after it was freed | `X86Life` |
| dump, test driver, demo, build | none of their own | | | | section 12 |

Interactions: the run loop calls opcode handlers through a table; a handler
fetches operands and data through `decode.c`, which calls `emu->memio`, by
default `vm_memio()`. Faults are raised by setting the pending interrupt; the
loop delivers it behind the handler. The log is written on every path, and the
host's handlers are called from all of them. The models meet in the same places:
`X86Run` has the loop with classes of instructions for handlers, `X86Xfer` has
the handlers with the head and the tail of the loop (`Fetch`, `Deliver`) around
them, `X86Life` has memory, ports, registers and the log of several machines at
once.

## 2. The modules

| module | models | of the code |
|---|---|---|
| `X86Mem` | memory, as `mem.c` has it | `mem.c` 86–94, 159–180, 205–571, 760–848 |
| `X86FlatMem` | what memory promises: a flat array | abstract |
| `X86MemProps`; `X86MemProofs` | its properties; theorems | |
| `X86Run` | the run loop, over classes of instructions | `decode.c` 59–335, 366–387, 2100–2143; the handlers of the classes |
| `X86Cpu` | what the run loop promises: a processor | abstract |
| `X86RunProps`; `X86RunProofs` | its properties; theorems | |
| `X86Alu` | the primitives, as operators | `prim_ops.c` |
| `X86Calc` | programs of them, on two registers and the flags | the arithmetic handlers of `ops.c`, `ops2.c` |
| `X86CalcProps`; `X86CalcProofs` | its properties; theorems | |
| `X86Str` | string instructions, one element per step | `ops.c` 1447–1513, 2583–3240; `prim_ops.c` 2300–2484; data access in `decode.c` |
| `X86StrProps`; `X86StrProofs` | its properties; theorems | |
| `X86Seg` | descriptors, segment loads, gates, as operators | `decode.c` 1986–2098 |
| `X86Xfer` | stack, calls, returns, interrupts, segment loads | handlers of `ops.c` and `ops2.c`, `decode.c` 2100–2143, push and pop of `prim_ops.c` |
| `X86XferProps`; `X86XferProofs` | its properties; theorems | |
| `X86Addr` | operands, moves, exchanges, arithmetic and bits on operands | ModRM to data access in `decode.c`; the handlers of `ops.c` and `ops2.c` |
| `X86AddrProps`; `X86AddrProofs` | its properties; theorems | |
| `X86Numbers` | lemmas: induction, powers of two, bits of numbers, remainders | none |
| `X86Io`, `X86Log` | ports and the log, as operators on records | `mem.c` 573–758; `api.c`, the guards of `decode.c` |
| `X86Life` | machines, with memory, ports, registers, log as blocks | `api.c` 49–360, `mem.c` 100–200 |
| `X86LifeProps`; `X86LifeProofs` | its properties; theorems | |
| `MCX86…` | values of the constants for TLC | |

Properties stand beside their component in a `Props` module, theorems about them in
modules of their own. No module that theorems are about has a `RECURSIVE` operator. Definitions whose
comment begins with "Mutant:" are faults put into the code one at a time to see
that a property notices; nothing else uses them.

## 3. Memory

**State.** `created` (pages whose `page->attr` is allocated), `def_attr`
(`page->def_attr`), `attr` (the attribute arrays), `own` and `host` (the data of
own pages and of host buffers), `map` (`page->data`), `invalid`
(`mem->invalid`), and `ret`, the request served last with the bytes it answered.

**Actions.** One per request: `Read`, `Execute`, `Write` for `vm_r_*`, `vm_x_*`,
`vm_w_*`, the size a parameter; `ReadNoPerm`, `WriteNoPerm`; `SetPerm`, with the
three stretches of the code's walk (`Head`, `WholePages`, `Tail`), its early
returns and its 32 bit wrap; `SetPage`, `ClearPage`; `ResetAccessStats`. `Fast`
is the test of the word and dword functions for their fast path: a read wants
R and VALID on every byte, a write W. `Store` is `vm_get_page(.., create)`
followed by the change of attributes, because a page takes its array from
`def_attr` at the moment it is made.

**Abstraction.** The two levels of tables are one: an entry that is not allocated
and a fresh one both stand for `mem->def_attr`. Ports go another way (section 9).

**Runs.** Two pages of four bytes, one host buffer, accesses at 0, 3 and 6 (at
the start, across the page boundary, and wrapping at the top), three requests.
Four bytes are the smallest page a dword fits in; two pages have a boundary and
a wrap. Three requests are enough for "set permissions, map, access", which is
what it takes to make each of the mechanisms matter in an answer.

* `mem_safety`: `TypeOK`, `ReadAnswer` (what a reported-good read means),
  `ProtectedDataUnchanged`, `FlagsStable`, and `ImplementsFlat`: with the attribute
  of a byte read as `AttrOf`, `mem.c` implements `X86FlatMem`.
* `mem_range`: a statement of `README.md` that the code does not keep (section 10).

**Why `ImplementsFlat` needs two conditions.** `mem_safety` passes ranges that do
not run from page 0 over several pages, and permissions without statistics
bits. `X86MemProofs` has them as hypotheses (`RangesSupported`, `StatsFree`).
`mem_range` shows that the first cannot be dropped; the second cannot because
`x86emu_reset_access_stats()` does not look at `page->def_attr`, so that a page
created behind it has the statistics of its default.

## 4. The run loop

**State.** `phase` is where `x86emu_run()` is: `top` (limits, code handler), `fetch`
(prefixes and opcode, one byte a step), `decode` (checks before the table
call), `exec`, `intr`, `tail`. `mode` is the mode word, of which `HALTED` and
`DATA32` are kept, `intr` the pending interrupt, `tsc` `R_TSC`. `events`, `asked` and
`counted` are history.

**Instructions are classes.** `Code` gives for every byte its class as an opcode,
its value as an operand and whether it can be fetched. The classes are those
the loop can tell apart: one that does nothing ("flag"), 00 /r ("zero", which the
NO_CODE check looks for), a short and a near jump (which the LOOP check looks for), INT,
one that raises #GP, one that raises #UD, HLT, IRET, WRMSR to `R_TSC`, and the
two kinds of prefix. Two assumptions bound the programs: behind prefix 66 only
classes whose effect on the loop it does not change (`OperandSizeAssumption`: the near
jump of 32 bits is not among them), and a near jump does not lie across the end of
the segment, where one access would fetch its displacement (`NearAssumption`).

**The host.** At each callback the host does any subset of "stop" and "raise",
given per handler by `CodeHook`, `MemioHook`, `IntrHook` and, between runs,
`IdleHook`. `Tick` lets time pass. A code handler that answers false does as much as
no handler.

**Runs.**

* `run_loop`: a program of 32 bytes with every class, bytes that are not
  executable as opcode, as displacement of a short jump and as half of that of a near
  one, and handlers that return, halt, jump to themselves and set the counter back in a loop; every
  callback may do everything; limit 3 with the LOOP and NO_CODE
  checks, or the time limit; the counter has 4 values and time is
  looked at once in 4 of them. `StopHonoured`, `LoopIsLoop`, `LimitRespected`;
  `ImplementsCpu`: the loop is a processor of whole instructions followed by
  delivery (`X86Cpu`), whatever stops, limits and abandoned fetches do; and
  `Returns`: under a limit a run comes back, or sets `R_TSC` again and again.
* `run_intr`: a statement of `README.md` that does not hold (section 10).

The counter is small because both limits look at it only by comparing it with
the limit and by its low bits: `TscMod` must be a multiple of `CheckEvery` and
larger than `MaxInstr`, which `LimitAssumption` says and which holds for 2^64,
65536 and a 64 bit limit below that. 3 instructions are enough to see a limit in the middle of the
program, behind an interrupt, and behind a write of the counter.

**What `Returns` does not say.** "A run with a limit returns" (`README.md:98-99`) is not true of
every program, and the two exceptions are in the statement. Both limits look at `R_TSC`
(`decode.c:110`, `decode.c:119`), which WRMSR sets back: a program that does so in a loop meets neither
(`[]<>JustWritten`; the #GP handler of the run's program is one, and without that
disjunct TLC finds it). And the loop over prefixes (`decode.c:137`) has no exit but a byte that is
no prefix (`HasOpcode`): in a segment of prefixes `Fetch` goes round for ever. Nor does it say anything of runs
without limits, which end only by the program or the host.

**Fairness.** `WF(Step)`: the thread that called `x86emu_run()` is scheduled.
`WF(Tick)`: time passes. Nothing is assumed of the host's callbacks but that they
return.

**Left out.** 32 bit code and delivery in protected mode, which are in `X86Xfer`; the debug
instruction; logging (`X86Log`); the host's time stamp counter.

## 5. Arithmetic

**Words are sets of bit positions.** `X86Alu` has each primitive once with the
operand size `w` as a parameter; where the copies in `prim_ops.c` differ, so does
the operator (byte SHR against word and long SHR, MUL's flags, NEG's shorter
carry chain). Carry chains are set operations, as they are bit operations in C.
`Value` and `Bin` go to integers and back.

A C shift by the width of its type or more is undefined; on x86 hosts the
count is taken modulo the width, another build may give something else. The
parameter `x86` of those primitives is the choice. A division that C does not
define traps, or not: outcome "trap".

**Programs.** `X86Calc` is a machine with an accumulator, its extension (AH, DX,
EDX) and flags. A behaviour is one instruction on prepared registers, or a
program of any length on packed decimal numbers, whose decimal value `calc`
remembers.

**Runs.** Sizes 8, 9 and 10 with `Wide` = 10: the copies differ by "is a byte" and by
"fills the C type", so 9 stands for words and 10 for longs, and the integers
stay small. Operands are the neighbours of every digit, sign and width
boundary; counts are 0 to 12, 16 and 255.

* `calc_exact`: `ArithmeticExact` and `ConditionsDecide` (carry chains and conditions
  against integers), `ShiftsStepwise` (a shift by n is n single shifts, for
  counts where the copies agree), `RotationUndone`, `DivisionExact` (quotient and
  remainder, or interrupt 0 and nothing changed; a product divided by a factor is
  the other one), `DecimalExact` (packed decimal programs of any length; AAA and AAS
  on digits; AAM undone by AAD).
* `calc_div`: `DivisionFaults`, violated (section 10).

`CHECK_DEADLOCK FALSE`: a trapped host does nothing more.

## 6. String instructions

**State.** The registers a string instruction uses, as whole 32 bit registers;
`left`, the C variable that counts; `mem`, a ring of bytes; `fault`, the segment of
the pending #GP; `start`, what the instruction found. `Full` is 2^32 and `Lo` 2^16:
`Seen` and `Written` are `R_SI` and `R_ESI`.

**Actions.** `Begin` decodes: MOVS, STOS, LODS, INS and OUTS under a repeat prefix
take their count and clear CX *before* the first element; CMPS and SCAS count
CX down. Each other action is one round of the C loop. `Checked` is
`check_data_access()`: an access out of bounds raises #GP and is performed.

The code's oddities are in the model: INS and OUTS step the index by one
whatever the size; OUTS reads from ES and without a prefix steps SI even with
32 bit addresses; with both repeat prefixes REPE counts; a segment override applies
to the source only.

**Run.** `str_exact`, `Lo` = 4 and `Full` = 16: elements of 1, 2 and 4 bytes, counts
up to 5, so that SI and DI wrap at both widths, elements straddle the end of a
segment and of the address space, and windows overlap in every way; DS has a
64k-like limit and ES a larger one; both directions. The closed forms know no
loop: `RegistersTell`, `ScanTells` (where REPE and REPNE scans stop, and that ZF
tells which end), `CopyTells` (overlapping MOVS moves or fills),
`OnlyDestinationWritten`, `FaultTells` (the first fault survives) and, under
`WF(Loop)`, `Finishes`. `WF(Loop)` is that the emulator's thread is scheduled;
`x86emu_run()` does nothing else inside an instruction.

## 7. Stack, transfers and segments

**State.** `cpu` is `x86emu_regs_t` and the memory: general registers, `seg` (CS, SS,
DS, which stands for ES, FS and GS too, and the LDT register, each with selector,
base, limit and access rights), `gdt`, `idt`, `pe` (CR0.PE), `eip`, `flags`, `mem` and the
pending interrupt. `mode` has DATA32, STACK32 and CODE32 of the mode word, `saved` is
`saved_cs:saved_eip`. `was`, `open` and `closed` are history: the machine the
instruction found, what has been pushed and not popped, and what the instruction has
popped.

**Actions.** `Fetch` is the head of the loop: widths come from CS and SS, prefix 66
toggles the operand size, EIP steps. Then one action per handler, and
`NoIntr`, `Handled` or `Deliver` for its end. ENTER is three actions because its
loop is. `LoadSeg` is `x86emu_set_seg_register()` with `decode_descriptor()`, `Goto` what
far transfers do with it: a refused CS leaves the old one, with the *new* EIP, and the pending #GP
takes both back. `Push`, `Pop`, `Check` are `push_*`, `pop_*` and `check_data_access()`: an
access behind the limit raises #GP and is performed.

**What is particular in the code, and in the model:** SP steps in the size of the stack, but
`RET n` and POPA add in the operand size; `CALL r/m` with SP reads it behind the
push; 16 bit POPF and IRET clear the upper half of EFLAGS; ENTER pushes BP in the size of
the stack and LEAVE pops it in that of the operand; the mode word is not computed
again before delivery, so that an interrupt behind `POP SS` or a far transfer uses the
old sizes; in real mode loads leave limit and rights (unreal mode); null CS and SS
load without a fault; `generate_int()` ends with clearing the pending interrupt, so that
a #GP raised *by* a delivery is lost.

**Abstraction.** Memory is counted in words of 16 bits and an instruction is one
word long; a descriptor is the record of its fields; tables are not written by
programs; the RPL and all privilege checks are left out, because the code has none.
Of EFLAGS four low bits and the upper half are kept.

**Run.** `xfer_whole`: `Lo` = 16 (so words have 4 bits) and two upper halves; five machines: real mode,
and protected mode with 16 and 32 bit code on 16 and 32 bit stacks, among them
stack pointers where 16 bits wrap, limits that
the stack crosses, and a code segment that ends; descriptors that are usable, absent, gates and unreadable;
gates to usable code, to an absent segment, and none. Two instructions of any kind, each with or
without prefix, then what undoes what is open: that reaches "push, interrupt, pop,
IRET" and all mixtures of sizes, with every fault in every place.

* `Undone`: whatever pops a frame gets back what was there when it was pushed, CS:EIP,
  flags, registers and SP, as wide as they were pushed.
  Frames are history: one is forgotten when SP or SS is loaded under it, when the
  open ones would take a whole turn of SP, and when an interrupt behind a load of SS
  pushes in the width of the old one.
* `SegmentsWhole`: limit and rights of a segment register are always those of one
  descriptor that may be there (or of the host); no refused load and no change
  of mode leaves a mixture.
* `UpperHalfKept`: on a 16 bit stack the upper half of ESP stays, but for loads of
  it and the two instructions above.
* `FaultLeaves`: all a faulting instruction leaves behind is listed in `Spoils`.
* `ArrivesWhole`: a far transfer has the EIP it was asked for, and in CS what loading the selector it
  was asked for gives. What was asked for is the operand, or what a return found on the stack
  (`OnStack`). A refused selector leaves the old CS with the new EIP, but then a fault that restarts
  is pending, with the CS:EIP of the transfer to go back to, before anything executes there. This
  needs that the host has no interrupt pending when the program starts, as in the run: one would keep the #GP out.

`CHECK_DEADLOCK FALSE`: programs are bounded.

## 8. Operands and addresses

**State.** `cpu` with registers, bytes of memory, segments, CF, ZF and the pending
fault; `seg_ss` is the bit `SEG_DS_SS` of the mode word, which address decoding sets
and the next data access uses; `ins`, `prev`, `was` and `first` are history.

**Actions.** One per family of handlers, with the operand, its size and the operation as
parameters: moves and exchanges (`MovToRm` … `Xlat`), arithmetic on operands, rotations,
NOT, NEG, INC, DEC, SETcc and CMOVcc, MOVZX and MOVSX, and the bit instructions.
`Place` is `decode_rm_address()`: `Rm00`, `Rm01`, `Rm10` and `Sib` are the functions of
these names; `MovAcc` has the offset in the code and takes the segment override, as all data accesses do. `Part` is the choice of AL … BH, AX … DI, EAX … EDI. `Load` and `Store` are
`fetch_data_*` and `store_data_*` with `check_data_access()`. Flags other than CF
and ZF are the business of `X86Calc`.

**Runs.** `ByteBits` = 2, so that words have 4 bits and longs 8: every ModRM byte and
the SIB bytes of three index registers and two scales, displacements at the ends of their signed ranges, an
override, DS with a limit in the middle and SS with one in front of the last byte. An instruction,
and a second one on the same operand.

* `addr_exact`: `DecodesOperand` compares with what an assembler writes,
  `[base + index * 2 ^ scale + disp]`: some such operand is encoded by the bytes, and the
  access goes to its offset, in the segment its base implies, with the right length
  of code; and `SEG_DS_SS` of one instruction never reaches the next. `Undone`: XCHG, NOT, NEG, BTC, BSWAP undo themselves, ADD/SUB,
  INC/DEC, rotations left/right each other; what is stored is loaded; BT finds the bit that
  BTS, BTR and BTC left. `OnlyTarget`: an instruction changes the named part of its target and
  nothing else.
* `addr_bits`: `BitFound`, violated (section 10); `Undone` has the claim for offsets where it holds.

## 9. Machines, ports and the log

**State.** `heap` maps blocks to what is in them: a page directory, a page, ports with their counters, MSRs,
a log buffer, or nothing. `emu` has for each machine its pointers. What `calloc()` and `malloc()` return
is the lowest free block, so that a block is used again as soon as it is
freed, which is the worst case for a pointer that is kept. `iopl` is whether the
process may use all ports. `req` and `told` are history: the last request with its answer,
and per machine what was granted, reached, logged and flushed.

**Actions.** `Create`, `Clone`, `Reset`, `Done`; memory (`WriteCell`, `SetPerm`, `SetPage`, `ClearPage`), ports
(`SetPorts`, `InPort`, `OutPort`), MSRs, handlers and the log (`SetLog`, `Say` for
`x86emu_log()`, `Note` for the writers of `decode.c` that check for room once or, `x86emu_run()` at its end, not at all, `ClearLog`).
A write beyond the end of a buffer is undefined; behind one (`Overrun`) nothing more is asked.
A page here is one cell with one set of attributes; the two levels of the directory are one
block; `X86Mem` has the bytes. Ports (`X86Io`) and the log (`X86Log`) are operators on records.

**Runs.** Two machines, two pages, one host page, six ports (a dword, and its wrap
behind the last port), buffers of 1100 bytes (`README.md:122` of the library wants more than 1024) with messages of 580, 1099 and 1100 bytes and
the writers of `decode.c` with their guards: interrupts (11 bytes behind a check for 128), code (354 behind 512), registers with
those of SSE (523 behind 512), accesses (24 behind 1024), and the reasons at the end of `x86emu_run()` (24 behind none); five requests in any order:

* `life_apart`: `HeapSound` (every block is reached by one pointer of one machine, of the right kind:
  none lost, none shared, none used after it was freed); `Apart` (a request to a machine
  changes nothing another one answers but through a host page, and a clone answers like its original); `PortsKept` (a port is reached
  if and only if it was granted and the process may, each access is counted once, denied ports are marked);
  `LogTells` (what was logged is what was flushed and what is in the buffer, in order; text and NUL stay in the
  buffer, or go beyond it by no more than what the writer of the last message failed to ask for).
* `life_split`: `OutExact`, violated (section 10).

The theorems about `X86Life` need two assumptions the code makes as well. `RoomAssumption`: `calloc()` and
`malloc()` succeed; no result is looked at. There are as many blocks as all machines may have at once. `ArgAssumption`: what a
host passes is of the type the prototype asks for; a message has a byte at least (an empty one leaves `ptr` where it
is, so that the history has an entry the buffer has not).

Five requests are "create, two of its parts changed, clone, one more"; it takes four to
see each of the faults the mutants put in. `CHECK_DEADLOCK FALSE`: requests are bounded.

## 10. Findings and other divergences

Five are runs whose expected result is a violation (`PROJECT.json`, `findings`):

| run | the code | the document |
|---|---|---|
| `mem_range` | a range over several pages that starts at 0 sets page 0 only (`mem.c:275`) | `README.md:165` |
| `run_intr` | an interrupt raised by the code handler is delivered behind the next instruction (`decode.c:241`) | `README.md:324` |
| `calc_div` | the least dividend by -1 traps the host (`prim_ops.c:2214`) | `test/0035_idiv.tst:31` |
| `addr_bits` | 16 bit memory forms of BTS, BTR, BTC step the address by 32 bits where BT steps it by 16 (`ops2.c:1311`) | `README.md:5` |
| `life_split` | a word written to a denied and a permitted port puts its low byte on the permitted one, whichever it is (`mem.c:708`) | `README.md:202`, with 178 |

Met while reading, in the models where they are modelled, without a run:

* *Run loop.* `max_instr` is compared with `R_TSC`, which survives runs and which
  the program writes (`decode.c:110`, `ops2.c:694`; `README.md:99`); time is looked at
  once in 65536 counts of it (`decode.c:119`). `x86emu_stop()` during an opcode
  fetch abandons the instruction (`decode.c:186`; `README.md:109`), and between runs
  it is dropped (`decode.c:90`). Of two interrupts raised in one instruction the
  later is dropped (`decode.c:330`); a #GP raised while an interrupt is delivered is lost, and so is that of a far jump
  that is refused while the host has an interrupt pending. A run ended by an operand that cannot be
  fetched returns 0 (`README.md:101`); a program that sets `R_TSC` back in a loop escapes both limits, and a code segment full of prefixes is
  never left (`README.md:98-99`; section 4). `README.md:14` has a hook *after* each
  instruction; it is called before.
* *Memory.* A read of an unreadable byte does not mark it (`README.md:181`); statistics in the default of a page survive the reset
  (`README.md:210`); `x86emu_set_page()` with NULL leaves the page "initialised"
  (`mem.c:309`).
* *Segments.* LLDT goes
  through `x86emu_set_seg_register()`, which wants a code or data segment, and
  so refuses every LDT (`ops2.c:117`, `decode.c:2050`); VERR and VERW never clear ZF; a gate that is absent continues at
  the interrupted place (`decode.c:2090`); a handler whose CS is refused leaves
  the old CS with the new EIP (`decode.c:2140`); MOV to segment register 6 or 7
  raises #UD and loads `seg[6]`; `POP r/m` computes its address before the pop.
* *Arithmetic.* SHL and SHR by 0 clear OF; word and long SHR by the width and
  more clear CF and PF; SAR takes its count modulo the width, so that its branch for larger
  counts is dead (`prim_ops.c:1497`); AAM 0 raises interrupt 0 and divides all
  the same (`ops.c:4230`).
* *Operands.* MOV c7 with a register field other than 0 raises #UD and
  stores (`ops.c:3797`), c6 returns; MOV from segment register 6 or 7 raises #UD and stores `seg[6]`;
  LOOPcc, JCXZ and XLAT choose CX or ECX, BX or EBX by operand size
  (`ops.c:4267–4390`); the memory forms of BT, BTS, BTR, BTC add the word index to the
  address instead of a byte offset (`ops2.c:1078–1320`); the register forms of ba mask the
  number of a word's bit with 1f.
* *Strings.* A fault in a repeated MOVS, STOS, LODS, INS or OUTS restarts with
  CX = 0; a scan restarts behind the element that faulted; OUTS and INS
  see section 6. Only MOVSB has tests (0028, 0029).
* *Log.* A buffer smaller than a writer's guard is cleared by each trace and gets nothing; two writers go beyond the end of the buffer.
  `x86emu_run()` writes the reason of its end without a check (`decode.c:260`): with 1099 of 1100 bytes used "* too many instructions" and its
  NUL need 24 bytes that are not there. `log_regs()` checks for 512 bytes and with CR4.OSFXSR and five flags set writes 514 and more
  (`decode.c:1771`). `LogTells` names them as the only two; no document speaks of either.
* *Machines.* A clone's log has no NUL behind its text; `iopl_ok` is what `iopl()` said when permissions were last set.
* *SSE* (not modelled). `store_data_qlong()` writes each byte as a word (`decode.c:657`); MOVUPS swaps the halves of a register.

## 11. What is proved, and what is only checked

The theorems are `Spec => []Inv` or `Spec => [][A]_vars` for all constants that meet the
`ASSUME`s of the module. Those of `X86Addr` and `X86Calc` have words as integers or as sets of bits; what they need
of numbers is in `X86Numbers`, where induction is the well-foundedness of the naturals applied to a set (`ByInduction`)
and a power of two is a number of subsets. `OperandAssumption` says that `Operands` takes its
displacements from `DispArg`, the set from which an assembler's operand takes them, too.

| theorem | says | argument |
|---|---|---|
| `X86MemProofs!TypeCorrect` | `TypeOK` | inductive; addresses split into page and offset |
| `X86MemProofs!PermissionsStable` | `FlagsStable` | `Store` changes the view `AttrOf` only at the bytes it is given, so creation is invisible; the stretches of the range walk stay in the range |
| `X86MemProofs!OnlyWritableDataChanges` | `ProtectedDataUnchanged` | the fast path stays in one page and has W everywhere |
| `X86MemProofs!MemImplementsFlat` | `ImplementsFlat`, under `RangesSupported` and `StatsFree` | step by step; `RangeSplit` for the three stretches of a range; invariant: defaults carry no statistics |
| `X86RunProofs!StopIsFinal` | `StopHonoured` | inductive as it stands |
| `X86RunProofs!RunTypeCorrect` | `TypeOK` | inductive |
| `X86RunProofs!LimitHolds` | `LimitRespected` | `CountInv`: the history counter is at most `R_TSC`, give or take where the loop is, and the counter does not wrap below the limit |
| `X86CalcProofs!CalcTypeCorrect` | `TypeOK` | inductive with "a decimal program has byte size"; every primitive fits its width |
| `X86CalcProofs!CarryChain` | the closed carry formulas are those of a ripple carry adder and subtractor | bit by bit, for every width |
| `X86CalcProofs!RotationsAreUndone` | `RotationUndone` | ROL and RCL as maps of bit positions modulo the width, or the width plus 1 |
| `X86CalcProofs!ShiftsAreStepwise` | `ShiftsStepwise` | ROL and ROR turn w bits, RCL and RCR the w + 1 bits with the carry; two turns add up modulo that number; `Moved` says what the flags of a shift are made of |
| `X86StrProofs!StrTypeCorrect` | `TypeOK` | inductive with `Tracked`, below |
| `X86StrProofs!RegistersAreExact` | `RegistersTell` | `Tracked`: behind every element the registers are those of `Rounds` elements, and `left` or CX says how many; needs that stepping a half of a register, then again, is stepping by the sum, for any widths one of which divides the other |
| `X86StrProofs!OnlyDestinationChanges` | `OnlyDestinationWritten` | the element at hand is the next of the closed form, so the destination grows by just what is stored |
| `X86StrProofs!ScansAreExact` | `ScanTells` | `ScanInv`: all elements so far but the last let the scan go on, and `left` tells what the last one did; the element compared in a round is number `Rounds` |
| `X86XferProofs!XferTypeCorrect` | `TypeOK` | with `SegmentsStayWhole`: one invariant, `GoodState`; each helper (`Push`, `Pop`, `LoadSeg`, `Goto`) keeps a good machine good, each handler is a composition of them |
| `X86XferProofs!SegmentsStayWhole` | `SegmentsWhole` | a load takes all of a descriptor or nothing; a load in real mode keeps limit and rights together |
| `X86XferProofs!UpperHalfIsKept` | `UpperHalfKept` | `Keeps`: a machine with the same upper half of ESP; `Push` and `Pop` on a 16 bit stack keep it, POPAD and `RET n` are the exceptions of the statement |
| `X86MemProofs!ReadsAnswer` | `ReadAnswer` | the marks a read leaves do not change what it says of a byte; the bytes of the fast path follow one another in the page |
| `X86StrProofs!FirstFaultSurvives` | `FaultTells` | `FaultInv`: what is pending is the fault of the first of `Rounds` elements out of bounds; the limit check of an element sees exactly the bytes of `Over` |
| `X86StrProofs!CopiesAreExact` | `CopyTells` | `CopyInv`: the byte handled j-th holds the source byte `Origin(j)`; source place j is destination place j less a constant distance; needs `OnlyDestinationWritten` |
| `X86RunProofs!FoundLoopsLoop` | `LoopIsLoop` | `LoopInv`: `LOOP` is set at decoding with `EIP` at the displacement and stops the run, and what was found holds until the jump executes |
| `X86RunProofs!LoopImplementsCpu` | `ImplementsCpu` | `FetchInv`: `EIP` is the first byte behind the prefixes, and the opcode behind them is what an instruction of `X86Cpu` begins with; every step is then one of `X86Cpu` or a stutter |
| `X86XferProofs!TransfersArrive` | `ArrivesWhole` | `Placed`: EIP and CS are those of a `Goto` to the place asked for, and a refused load raises a fault where none was pending (`GotoPlaces`); the words a return pops are still on the stack behind it (`StackedWords`); `SavedInv`: the place to go back to is that of the instruction. Assumes that no machine of `Machines` starts with an interrupt pending |
| `X86XferProofs!FaultsLeaveTheRest` | `FaultLeaves` | `Chain` names the parts each helper may change and says that a fault so far is the stack's; a refused load changes no segment. Assumes that no machine of `Machines` starts with an interrupt pending |
| `X86XferProofs!FramesComeBack` | `Undone` | `FrameInv`: each open frame lies in memory as it was pushed, one on top of the other from SP up (`Stacked`), all within one turn of SP, so that a push below never reaches one above (`PlacesApart`); while ENTER copies, its own words lie on top of them (`EnterHolds`). A pop then walks through the items of the top frame (`Shrinks`), and the next one is where SP ends |
| `X86LifeProofs!LifeTypes` | `TypeOK` | from `Sound`, below |
| `X86LifeProofs!BlocksAreOwned` | `HeapSound` | `Sound`: each pointer leads to a block of its kind, no block is reached from two machines, none is unreached. `LocalStep` says once what a request must do to its own machine for this; `FreeRoom` counts pointers, so that a free block exists whenever one is taken; a clone's blocks are distinct and free, because ranks are |
| `X86LifeProofs!MachinesAreApart` | `Apart` | what a machine answers (`ViewIn`) depends on its own blocks only, and is carried over pointer by pointer to those of a copy |
| `X86LifeProofs!PortsAreKept` | `PortsKept` | `PortsInv`: the map has the permissions that were granted, and `iopl_ok` is the level of the process as soon as any was; a split access reaches the same ports as a whole one |
| `X86LifeProofs!LogIsTold` | `LogTells` | `TextInv` (told = flushed + buffer, and the text ends what was told) and `FitNear`: every text fits but that of a last message that was not asked for in full. A request is made only when all fit (`NothingOverrun`), so what a writer checked for bounds what it writes too far (`WritersFit`) |
| `X86CalcProofs!ArithmeticIsExact` | `ArithmeticExact` | the number of a word is the sum of its bits, and the bits of a number are unique (`NumBits`, `BitsOfNum`); a carry is a sum of low parts that reaches the next power of two (`SumRipples`), which the closed chains mark (`CarryChain`); signed overflow is carry into and out of the top bit |
| `X86CalcProofs!ConditionsDecideOrder` | `ConditionsDecide` | from `ArithmeticExact`'s flags: a difference below 0 borrows, and SF with OF is the sign of the exact difference |
| `X86CalcProofs!DivisionIsExact` | `DivisionExact` | `Div` and `Idiv` against the one quotient there is (`DivModUnique`, `QuotIs`: towards zero, the remainder with the sign of the dividend); a quotient that misses its range makes the dividend large (`AroundZero`); a product of two words fits in two (`ProductSplits`), so that dividing it never faults or traps |
| `X86AddrProofs!TypeCorrect` | `TypeOK` | inductive with "the last instruction named a place and an operand" |
| `X86AddrProofs!TargetOnly` | `OnlyTarget` | `Only`: which parts of registers and which cells a helper may change; a part is the middle digit of a register in mixed base (`PieceSet`), so setting it keeps every bit above and below |
| `X86AddrProofs!OperandsDecode` | `DecodesOperand` | for every encoding the operand an assembler would have written is named (`Decoded32`, `Decoded16`); sign extension is the integer the bytes mean (`MeaningIs`), and adding it is adding the bytes modulo the word |
| `X86AddrProofs!PairsUndo` | `Undone` | `HInv`: the machines between the last two instructions, each related to the next by `Effect`, what the instruction makes of its place, of a register and of CF. Two accesses to one place reach the same distinct cells, or one that was refused is refused again (`SameCells`, `StoreLoads`, `StoredBack`); the rest is arithmetic modulo the word: a turn and its opposite, a sum and its difference, a bit set and read |

Invariants had to be strengthened where a property speaks of the end of an
instruction only (`RegistersTell` of "done", so `Tracked` of every step), of a
counter that is compared (`LimitRespected`), where a type rests on what the tables hold (`GoodState`),
or where what is popped now was pushed many instructions ago (`Undone`, so `FrameInv` of memory at all times). `Undone` of `X86Addr` speaks of three machines in a row, so
`HInv` remembers what led from each to the next.

Only checked by TLC, and why:

* `Returns` and `Finishes`: liveness under fairness.
* `DecimalExact` of `X86Calc`: a case for each pair of digits, on constants; what it rests on (the
  number that a word's bits make) is there since `ArithmeticIsExact`.

## 12. Not modelled

* `x86emu_dump()` and the disassembly (`decode_*` text, `log_code()`): formatting without state of its own;
  what they take of the log is in `X86Log`.
* The SSE moves, CRx and DRx but PE, CPUID, SMSW, SYSENTER, prefetches: each moves a
  value between registers that nothing else in the emulator reads.
* The debug instruction (`emu_process_debug`), the host's time stamp counter, and time in
  seconds.
* LTR, STR, SLDT, VERR and VERW change no segment register a program can use.
* The test driver, the demo and the build: clients.
* Two levels of page tables (one in the models), privilege levels (none in the code).
