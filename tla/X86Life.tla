------------------------------ MODULE X86Life -------------------------------
(***************************************************************************)
(* Machines and what they own: x86emu_new(), x86emu_clone(),               *)
(* x86emu_reset(), x86emu_done() (api.c) and emu_mem_clone(),              *)
(* emu_mem_free(), vm_get_page() (mem.c), with the requests that change    *)
(* what is owned: memory, ports, model specific registers and the log.     *)
(*                                                                         *)
(* What calloc() and malloc() return are blocks, the lowest free ones, so  *)
(* that memory is used again as soon as it is freed.  The two levels of    *)
(* the page directory are one block; a page is one cell with one set of    *)
(* attributes (X86Mem has the bytes).  map, stats_i and stats_o are one    *)
(* block, and so are msr and msr_perm.                                     *)
(***************************************************************************)
EXTENDS X86Io, X86Log, FiniteSets

CONSTANTS
  Id,         \* the machines a host keeps
  Block,      \* blocks of memory: 1 .. n
  Page, HostPage, HostInit,
  MemPerm, IoPermOf,           \* arguments of x86emu_new()
  PermArg,                     \* permissions of memory
  RangeArg, IoPermArg,         \* <<start, end>> and permissions of ports
  PortArg, OutArg,             \* ports, and values by width
  Msr, Tsc, ValueArg,
  LogArg, SayArg, NoteArg,     \* [size, flush], lengths, [guard, n]
  Iopl,                        \* what the level of the process may be
  MaxCalls                     \* bound: requests

MemFlag == {"R", "W", "X", "VALID", "accW", "accINVALID"}
Nil == 0

ASSUME LifeAssumption ==
  /\ Block \subseteq Nat \ {Nil} /\ IsFiniteSet(Block)
  /\ Block \cap HostPage = {} /\ Nil \notin HostPage
  /\ MemPerm \in SUBSET MemFlag /\ PermArg \subseteq SUBSET MemFlag
  /\ Tsc \in Msr

(* What a host passes is of the type the prototype asks for; a message has *)
(* at least one byte.                                                      *)
ASSUME ArgAssumption ==
  /\ DOMAIN HostInit = HostPage
  /\ IoPermOf \subseteq IoPerm /\ IoPermArg \subseteq SUBSET IoPerm
  /\ PortArg \subseteq Port /\ \A r \in RangeArg : r[1] \in Int /\ r[2] \in Int
  /\ \A n \in Width : OutArg[n] \in Seq(Nat) /\ Len(OutArg[n]) = n
  /\ LogArg \subseteq [size : Nat, flush : BOOLEAN]
  /\ SayArg \subseteq Nat \ {0} /\ NoteArg \subseteq [guard : Nat, n : Nat \ {0}]
  /\ Iopl \subseteq BOOLEAN /\ MaxCalls \in Nat

(* calloc() and malloc() find a block: no result is looked at.  A machine  *)
(* has ports, registers, a log, a directory and its pages.                 *)
ASSUME RoomAssumption ==
  /\ IsFiniteSet(Id) /\ IsFiniteSet(Page)
  /\ Cardinality(Id) * (4 + Cardinality(Page)) <= Cardinality(Block)

VARIABLES
  emu,    \* machine -> its pointers and plain fields, or Gone
  heap,   \* block -> what is in it, or Free
  host,   \* host page -> the cell in it
  iopl,   \* the process may use all ports
  calls,
  \* History, not in the code:
  req,    \* the last request: what, of which machine, and what it answered
  told    \* machine -> what was granted, what was logged, what was flushed

vars == <<emu, heap, host, iopl, calls, req, told>>

Gone == [is |-> "gone"]
Free == [is |-> "free"]

Live == {m \in Id : emu[m] # Gone}

-----------------------------------------------------------------------------
(* The n-th lowest of a set of blocks *)
Rank(S, b)  == Cardinality({c \in S : c < b})
Nth(S, n)   == CHOOSE b \in S : Rank(S, b) = n
FreeIn(h)   == {b \in Block : h[b] = Free}
New(h)      == Nth(FreeIn(h), 0)

(* calloc() of one block, with its contents; free(NULL) does nothing *)
With(h, b, contents) == [h EXCEPT ![b] = contents]
Freed(h, S)          == [b \in Block |-> IF b \in S THEN Free ELSE h[b]]

NoPage(def) == [attr |-> Nil, data |-> Nil, def |-> def]
DirBlock(def) == [is |-> "dir", page |-> [p \in Page |-> NoPage(def)]]
PageBlock(attr) == [is |-> "page", attr |-> attr, data |-> 0]
IoBlock(io)     == [is |-> "io", io |-> io]
MsrBlock == [is |-> "msr", msr |-> [u \in Msr |-> 0],
             perm |-> [u \in Msr |-> IF u = Tsc THEN {"X"} ELSE {}]]
LogBlock(text) == [is |-> "log", text |-> text]

-----------------------------------------------------------------------------
(* vm_get_page(.., 1): heap and directory with the page created *)
GetDir(m, h) == IF emu[m].dir # Nil THEN emu[m].dir ELSE New(h)
DirMade(m, h) ==
  IF emu[m].dir # Nil THEN h ELSE With(h, New(h), DirBlock(emu[m].def_attr))

PageMade(m, p, h) ==
  LET d  == GetDir(m, h)
      h1 == DirMade(m, h)
      e  == h1[d].page[p]
      b  == New(h1)
  IN  IF e.attr # Nil THEN h1
      ELSE With(With(h1, b, PageBlock(e.def)), d,
                [h1[d] EXCEPT !.page[p].attr = b, !.page[p].data = b])

(* Something was asked of machine m, and what came back. *)
Asked(what, m, answer) ==
  /\ calls < MaxCalls /\ calls' = calls + 1
  /\ req' = [what |-> what, of |-> m, answer |-> answer]
  /\ UNCHANGED iopl

(* vm_w_byte() *)
WriteCell(m, p, v) ==
  LET h == PageMade(m, p, heap)
      d == GetDir(m, heap)
      e == h[d].page[p]
      ok == "W" \in h[e.attr].attr
      h1 == [h EXCEPT ![e.attr].attr =
               @ \cup (IF ok THEN {"VALID", "accW"} ELSE {"accINVALID"})]
  IN  /\ m \in Live
      /\ Asked("write", m, ok)
      /\ heap' = IF ok /\ e.data \in Block THEN [h1 EXCEPT ![e.data].data = v] ELSE h1
      /\ host' = IF ok /\ e.data \in HostPage THEN [host EXCEPT ![e.data] = v] ELSE host
      /\ emu' = [emu EXCEPT ![m].dir = d]
      /\ UNCHANGED told

(* x86emu_set_perm() of a whole page; the page is not created *)
SetPerm(m, p, perm) ==
  LET h == DirMade(m, heap)
      d == GetDir(m, heap)
      a == h[d].page[p].attr
      h1 == [h EXCEPT ![d].page[p].def = perm]
  IN  /\ m \in Live
      /\ Asked("perm", m, TRUE)
      /\ heap' = IF a # Nil THEN [h1 EXCEPT ![a].attr = perm] ELSE h1
      /\ emu' = [emu EXCEPT ![m].dir = d]
      /\ UNCHANGED <<host, told>>

(* x86emu_set_page() with an address, and with NULL *)
SetPage(m, p, hp) ==
  LET h == PageMade(m, p, heap)
      d == GetDir(m, heap)
  IN  /\ m \in Live
      /\ Asked("map", m, TRUE)
      /\ heap' = [h EXCEPT ![d].page[p].data = hp,
                           ![h[d].page[p].attr].attr = @ \cup {"VALID"}]
      /\ emu' = [emu EXCEPT ![m].dir = d]
      /\ UNCHANGED <<host, told>>

ClearPage(m, p) ==
  LET h == PageMade(m, p, heap)
      d == GetDir(m, heap)
  IN  /\ m \in Live
      /\ Asked("unmap", m, TRUE)
      /\ heap' = [h EXCEPT ![d].page[p].data = h[d].page[p].attr]
      /\ emu' = [emu EXCEPT ![m].dir = d]
      /\ UNCHANGED <<host, told>>

-----------------------------------------------------------------------------
IoOf(m) == heap[emu[m].io].io
IoNow(m, io) == heap' = With(heap, emu[m].io, IoBlock(io))

SetPorts(m, r, perm) ==
  /\ m \in Live
  /\ Asked("ports", m, {})
  /\ IoNow(m, SetIoPerm(IoOf(m), r[1], r[2], perm, iopl))
  /\ told' = [told EXCEPT ![m].granted =
                [p \in Port |-> IF p \in r[1] .. r[2] THEN perm \cap IoPerm ELSE @[p]]]
  /\ UNCHANGED <<emu, host>>

(* The ports an access has reached are counted, for the statistics. *)
InPort(m, a, n) ==
  LET hit == Reached(IoOf(m), a, n, "R")
  IN  /\ m \in Live
      /\ Asked("in", m, [at |-> a, val |-> InValue(IoOf(m), a, n), hit |-> hit])
      /\ IoNow(m, In(IoOf(m), a, n))
      /\ told' = [told EXCEPT ![m].in = [p \in Port |-> @[p] + Cardinality(hit \cap {p})]]
      /\ UNCHANGED <<emu, host>>

OutPort(m, a, n, val) ==
  LET hit == Reached(IoOf(m), a, n, "W")
  IN  /\ m \in Live
      /\ Asked("out", m, [at |-> a, val |-> val, hit |-> hit,
                          bytes |-> OutBytes(IoOf(m), a, n, val)])
      /\ IoNow(m, Out(IoOf(m), a, n))
      /\ told' = [told EXCEPT ![m].out = [p \in Port |-> @[p] + Cardinality(hit \cap {p})]]
      /\ UNCHANGED <<emu, host>>

-----------------------------------------------------------------------------
(* x86emu_wrmsr(), x86emu_rdmsr(), and rdtsc for the counter *)
WriteMsr(m, u, v) ==
  /\ m \in Live
  /\ Asked("wrmsr", m, {})
  /\ heap' = [heap EXCEPT ![emu[m].msr].msr[u] = v, ![emu[m].msr].perm[u] = @ \cup {"accW"}]
  /\ UNCHANGED <<emu, host, told>>

ReadMsr(m, u) ==
  /\ m \in Live
  /\ Asked("rdmsr", m, heap[emu[m].msr].msr[u])
  /\ heap' = [heap EXCEPT ![emu[m].msr].perm[u] = @ \cup {"accR"}]
  /\ UNCHANGED <<emu, host, told>>

-----------------------------------------------------------------------------
(* buf and ptr; the bytes used are ptr - buf.  No log without a buffer.    *)
LogOf(m) ==
  IF emu[m].ptr.in = Nil THEN NoLog
  ELSE [size |-> emu[m].size, used |-> emu[m].ptr.used, flush |-> emu[m].flush,
        text |-> heap[emu[m].ptr.in].text]

LogNow(m, log) ==
  /\ emu' = [emu EXCEPT ![m].ptr.used = log.used]
  /\ heap' = [heap EXCEPT ![emu[m].ptr.in] = LogBlock(log.text)]

(* x86emu_set_log(): what the old buffer holds is gone. *)
SetLog(m, size, flush) ==
  LET h == Freed(heap, {emu[m].buf})
      b == IF size = 0 THEN Nil ELSE New(h)
  IN  /\ m \in Live
      /\ Asked("set_log", m, {})
      /\ heap' = IF b = Nil THEN h ELSE With(h, b, LogBlock(<<>>))
      /\ emu' = [emu EXCEPT ![m].buf = b, ![m].ptr = [in |-> b, used |-> 0],
                            ![m].size = size, ![m].flush = flush]
      /\ told' = [told EXCEPT ![m].said = <<>>, ![m].sent = <<>>]
      /\ UNCHANGED host

Wrote(m, r, n) ==
  /\ LogNow(m, r.log)
  /\ told' = [told EXCEPT ![m].said = IF r.lost THEN @ ELSE Append(@, n),
                          ![m].sent = @ \o r.sent]
  /\ UNCHANGED host

Say(m, n) ==
  /\ m \in Live /\ emu[m].ptr.in # Nil
  /\ Asked("log", m, {})
  /\ Wrote(m, Said(LogOf(m), n), n)

Note(m, guard, n) ==
  /\ m \in Live /\ emu[m].ptr.in # Nil
  /\ Asked("note", m, [guard |-> guard, n |-> n])
  /\ Wrote(m, Noted(LogOf(m), guard, n), n)

(* x86emu_clear_log(); without flush the host drops the text. *)
ClearLog(m, flush) ==
  LET sent == IF flush THEN Flushed(LogOf(m)) ELSE <<>>
  IN  /\ m \in Live /\ emu[m].ptr.in # Nil
      /\ Asked("clear_log", m, {})
      /\ LogNow(m, Cleared(LogOf(m)))
      /\ told' = [told EXCEPT ![m].sent = @ \o sent, ![m].said = told[m].sent \o sent]
      /\ UNCHANGED host

-----------------------------------------------------------------------------
(* x86emu_set_memio_handler() and its five siblings return the old one. *)
SetHandler(m, new) ==
  /\ m \in Live
  /\ Asked("handler", m, emu[m].handler)
  /\ emu' = [emu EXCEPT ![m].handler = new]
  /\ UNCHANGED <<heap, host, told>>

Silence == [p \in Port |-> 0]

(* x86emu_new() *)
Create(m) ==
  LET b1 == New(heap)
      io == IF IoPermOf = {} THEN NoPorts
            ELSE SetIoPerm(NoPorts, 0, Ports - 1, IoPermOf, iopl)
      h1 == With(heap, b1, IoBlock(io))
      b2 == New(h1)
  IN  /\ m \notin Live
      /\ Asked("new", m, {})
      /\ heap' = With(h1, b2, MsrBlock)
      /\ emu' = [emu EXCEPT ![m] =
           [is |-> "emu", dir |-> Nil, def_attr |-> MemPerm, io |-> b1, msr |-> b2,
            buf |-> Nil, ptr |-> [in |-> Nil, used |-> 0], size |-> 0, flush |-> FALSE,
            handler |-> "vm"]]
      /\ told' = [told EXCEPT ![m] =
           [granted |-> [p \in Port |-> IoPermOf], in |-> Silence, out |-> Silence,
            said |-> <<>>, sent |-> <<>>]]
      /\ UNCHANGED host

(* Mutant: the pointers are cleared and stay so. *)
ResetHalf(m) ==
  /\ m \in Live
  /\ Asked("reset", m, {})
  /\ heap' = Freed(heap, {emu[m].msr})
  /\ emu' = [emu EXCEPT ![m].msr = Nil]
  /\ UNCHANGED <<host, told>>

(* x86emu_reset(): the registers msr and msr_perm point at are new *)
Reset(m) ==
  LET h == Freed(heap, {emu[m].msr})
      b == New(h)
  IN  /\ m \in Live
      /\ Asked("reset", m, {})
      /\ heap' = With(h, b, MsrBlock)
      /\ emu' = [emu EXCEPT ![m].msr = b]
      /\ UNCHANGED <<host, told>>

(* Everything a machine points at; a page is freed through attr. *)
PagesOf(e) == IF e.dir = Nil THEN {} ELSE {heap[e.dir].page[p].attr : p \in Page}
Owned(e)   == ({e.dir, e.io, e.msr, e.buf} \cup PagesOf(e)) \ {Nil}

(* Mutant: the log is forgotten. *)
DoneLeaky(m) ==
  /\ m \in Live
  /\ Asked("done", m, {})
  /\ heap' = Freed(heap, Owned(emu[m]) \ {emu[m].buf})
  /\ emu' = [emu EXCEPT ![m] = Gone] /\ told' = [told EXCEPT ![m] = Gone]
  /\ UNCHANGED host

(* x86emu_done() *)
Done(m) ==
  /\ m \in Live
  /\ Asked("done", m, {})
  /\ heap' = Freed(heap, Owned(emu[m]))
  /\ emu' = [emu EXCEPT ![m] = Gone] /\ told' = [told EXCEPT ![m] = Gone]
  /\ UNCHANGED host

(* x86emu_clone(): every block is copied to a new one.  Pointers follow,   *)
(* with those from a directory to its pages; one to a host page stays.     *)
Copied(e) == [b \in Owned(e) |-> Nth(FreeIn(heap), Rank(Owned(e), b))]

Moved(copy, x) == IF x \in DOMAIN copy THEN copy[x] ELSE x

(* Mutant: page.data is copied as it is. *)
EntryShared(copy, entry) == [entry EXCEPT !.attr = Moved(copy, entry.attr)]

EntryMoved(copy, entry) ==
  [entry EXCEPT !.attr = Moved(copy, entry.attr),
                !.data = IF entry.data = entry.attr THEN Moved(copy, entry.attr)
                         ELSE entry.data]

BlockMoved(copy, c) ==
  IF c.is = "dir" THEN [c EXCEPT !.page = [p \in Page |-> EntryMoved(copy, c.page[p])]] ELSE c

Clone(m, k) ==
  LET e    == emu[m]
      copy == Copied(e)
      from(b) == CHOOSE c \in DOMAIN copy : copy[c] = b
      M(x) == Moved(copy, x)
  IN  /\ m \in Live /\ k \notin Live
      /\ Asked("clone", m, k)
      /\ heap' = [b \in Block |-> IF \E c \in DOMAIN copy : copy[c] = b
                                  THEN BlockMoved(copy, heap[from(b)]) ELSE heap[b]]
      /\ emu' = [emu EXCEPT ![k] = [e EXCEPT !.dir = M(e.dir), !.io = M(e.io),
                                    !.msr = M(e.msr), !.buf = M(e.buf), !.ptr.in = M(e.ptr.in)]]
      /\ told' = [told EXCEPT ![k] = told[m]]
      /\ UNCHANGED host

-----------------------------------------------------------------------------
Init ==
  /\ emu = [m \in Id |-> Gone] /\ heap = [b \in Block |-> Free]
  /\ host = HostInit /\ iopl \in Iopl /\ calls = 0
  /\ req = [what |-> "none", of |-> "none", answer |-> {}]
  /\ told = [m \in Id |-> Gone]

Memory(m) ==
  \/ \E p \in Page, v \in ValueArg : WriteCell(m, p, v)
  \/ \E p \in Page, perm \in PermArg : SetPerm(m, p, perm)
  \/ \E p \in Page, hp \in HostPage : SetPage(m, p, hp)
  \/ \E p \in Page : ClearPage(m, p)

InOut(m) ==
  \/ \E r \in RangeArg, perm \in IoPermArg : SetPorts(m, r, perm)
  \/ \E a \in PortArg, n \in Width : InPort(m, a, n) \/ OutPort(m, a, n, OutArg[n])

Logging(m) ==
  \/ \E l \in LogArg : SetLog(m, l.size, l.flush)
  \/ \E n \in SayArg : Say(m, n)
  \/ \E w \in NoteArg : Note(m, w.guard, w.n)
  \/ \E flush \in BOOLEAN : ClearLog(m, flush)

Life(m) ==
  \/ Create(m) \/ Reset(m) \/ Done(m)
  \/ \E k \in Id : Clone(m, k)
  \/ \E u \in Msr, v \in ValueArg : WriteMsr(m, u, v)
  \/ \E u \in Msr : ReadMsr(m, u)
  \/ \E new \in {"vm", "own"} : SetHandler(m, new)

(* A message went beyond the end of a buffer, or its NUL did.  What that   *)
(* writes over is undefined: nothing is asked any more.                    *)
Overrun == \E m \in Live : emu[m].ptr.in # Nil /\ emu[m].ptr.used >= emu[m].size

Next ==
  /\ ~Overrun
  /\ \E m \in Id : Memory(m) \/ InOut(m) \/ Logging(m) \/ Life(m)

Spec == Init /\ [][Next]_vars
=============================================================================
