---------------------------- MODULE X86LifeProps ----------------------------
(***************************************************************************)
(* What a host may rely on when it keeps machines, copies them, asks them  *)
(* things in any order and deletes them.                                   *)
(***************************************************************************)
EXTENDS X86Life

Flags == MemFlag \cup IoFlag \cup {"accX"}
Entry == [attr : Block \cup {Nil}, data : Block \cup HostPage \cup {Nil}, def : SUBSET MemFlag]
Emu == [is : {"emu"}, dir : Block \cup {Nil}, def_attr : SUBSET MemFlag, io : Block,
        msr : Block, buf : Block \cup {Nil}, ptr : [in : Block \cup {Nil}, used : Nat],
        size : Nat, flush : BOOLEAN, handler : {"vm", "own"}]

Contents(c) ==
  CASE c.is = "free" -> TRUE
    [] c.is = "dir"  -> c.page \in [Page -> Entry]
    [] c.is = "page" -> c.attr \subseteq MemFlag
    [] c.is = "io"   -> c.io \in Io
    [] c.is = "msr"  -> DOMAIN c.msr = Msr /\ DOMAIN c.perm = Msr
    [] c.is = "log"  -> \A i \in DOMAIN c.text : c.text[i] \in Nat

(* Every block and every machine keeps to its type. *)
TypeOK ==
  /\ \A m \in Id : emu[m] = Gone \/ emu[m] \in Emu
  /\ \A b \in Block : Contents(heap[b])
  /\ iopl \in BOOLEAN /\ calls \in 0 .. MaxCalls
  /\ DOMAIN host = HostPage /\ DOMAIN told = Id

-----------------------------------------------------------------------------
(* What lies in memory is reached from one machine by one pointer, is of   *)
(* the kind that pointer expects, and every pointer leads to something: no *)
(* block is lost by a clone, a reset, a new log or x86emu_done(), none is  *)
(* shared, none used after it was freed.  page.data is in the page's own   *)
(* block or in a host page, log.ptr in the log's buffer.                   *)
Is(b, kind) == b \in Block /\ heap[b].is = kind

Whole(e) ==
  /\ Is(e.io, "io") /\ Is(e.msr, "msr")
  /\ e.buf # Nil => Is(e.buf, "log")
  /\ e.ptr.in = e.buf
  /\ e.dir # Nil =>
       /\ Is(e.dir, "dir")
       /\ \A p \in Page :
            LET entry == heap[e.dir].page[p]
            IN  /\ entry.attr # Nil => Is(entry.attr, "page")
                /\ entry.data \in {entry.attr} \cup (IF entry.attr = Nil THEN {} ELSE HostPage)
                /\ \A q \in Page \ {p} : entry.attr = heap[e.dir].page[q].attr => entry.attr = Nil

HeapSound ==
  /\ \A m \in Live : Whole(emu[m])
  /\ \A m, k \in Live : m # k => Owned(emu[m]) \cap Owned(emu[k]) = {}
  /\ {b \in Block : heap[b] # Free} = UNION {Owned(emu[m]) : m \in Live}

-----------------------------------------------------------------------------
(* What a host can find out about a machine *)
Entries(m) == IF emu[m].dir = Nil THEN [p \in Page |-> NoPage(emu[m].def_attr)]
              ELSE heap[emu[m].dir].page

Cell(m, p) ==
  LET e == Entries(m)[p]
  IN  [attr |-> IF e.attr = Nil THEN e.def ELSE heap[e.attr].attr,
       def  |-> e.def,
       data |-> CASE e.data \in HostPage -> <<"host", e.data>>
                  [] Is(e.data, "page")  -> <<"own", heap[e.data].data>>
                  [] e.data = Nil        -> <<"own", 0>>
                  [] OTHER               -> <<"nowhere">>]

View(m) ==
  [mem |-> [p \in Page |-> Cell(m, p)], def |-> emu[m].def_attr, io |-> IoOf(m),
   msr |-> heap[emu[m].msr], log |-> LogOf(m), handler |-> emu[m].handler]

(* Machines are apart: a request to one changes nothing another one        *)
(* answers, except through a host page mapped into both; and a copy        *)
(* answers as the original does, the original as before (x86emu_clone()).  *)
OthersAnswerAsBefore ==
  \A m \in Live : m # req'.of => m \in Live' /\ View(m)' = View(m)

CopyAnswersAsOriginal ==
  \A m \in Live, k \in Id :
    req' = [what |-> "clone", of |-> m, answer |-> k] /\ calls' # calls =>
      View(k)' = View(m) /\ View(m)' = View(m)

Apart == [][OthersAnswerAsBefore /\ CopyAnswersAsOriginal]_vars

-----------------------------------------------------------------------------
(* Ports are reached where x86emu_set_io_perm() allows it and the process  *)
(* may, never else, however an access is cut to pieces or wraps around the *)
(* last port; all that is reached is counted once, and what was denied is  *)
(* marked and reads as ff.                                                 *)
Granted(m, dir) ==
  {p \in Port : dir \in told[m].granted[p] /\ (iopl \/ ~WithIopl)}

PortsKept ==
  /\ \A m \in Live :
       /\ IoOf(m).stats_i = told[m].in /\ IoOf(m).stats_o = told[m].out
       /\ \A p \in Port : IoOf(m).map[p] \cap IoPerm = told[m].granted[p]
  /\ req.what \in {"in", "out"} =>
       LET dir  == IF req.what = "in" THEN "R" ELSE "W"
           span == SpanOf(req.answer.at, Len(req.answer.val))
       IN  /\ req.answer.hit = span \cap Granted(req.of, dir)
           /\ \A p \in span \ req.answer.hit :
                /\ "accINVALID" \in IoOf(req.of).map[p]
                /\ req.what = "in" => req.answer.val[Ith(req.answer.at, p) + 1] = Ff

(* README.md:120 "If the log buffer is full, flush() is called": with a    *)
(* flush function everything logged is flushed or still in the buffer, in  *)
(* order and once; without one the buffer ends with what was logged last.  *)
(* A text and the NUL behind it go beyond the end of the buffer only by    *)
(* what a writer has just written more than it asked for: the reasons for  *)
(* which x86emu_run() ends (decode.c:260) and the registers of SSE         *)
(* (decode.c:1765); api.c:333 and the other writers stay inside.           *)
EndsWith(s, t) == Len(t) <= Len(s) /\ SubSeq(s, Len(s) - Len(t) + 1, Len(s)) = t

JustBeyond(m, log) ==
  /\ req.what = "note" /\ req.of = m
  /\ req.answer.guard <= req.answer.n
  /\ log.used - log.size <= req.answer.n - req.answer.guard

LogTells ==
  \A m \in Live :
    LET log == LogOf(m)
    IN  /\ log.flush => told[m].said = told[m].sent \o log.text
        /\ EndsWith(told[m].said, log.text)
        /\ log.used + 1 <= log.size \/ log = NoLog \/ JustBeyond(m, log)

-----------------------------------------------------------------------------
(* README.md:202 "perm: see x86emu_set_perm()": a port that may be written *)
(* gets its own byte of the value, also when its neighbour is denied.      *)
OutExact ==
  req.what = "out" =>
    \A p \in DOMAIN req.answer.bytes :
      req.answer.bytes[p] = req.answer.val[Ith(req.answer.at, p) + 1]
=============================================================================
