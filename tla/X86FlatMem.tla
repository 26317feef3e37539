----------------------------- MODULE X86FlatMem -----------------------------
(***************************************************************************)
(* What the emulated memory promises: a flat array of bytes, each with its *)
(* own attributes.  A request of n bytes is n byte requests, a permission  *)
(* range is set byte by byte, statistics are reset everywhere.  There are  *)
(* no pages in the attributes, no lazy creation and no fast path; pages    *)
(* remain only as the unit in which host buffers are mapped.               *)
(***************************************************************************)
EXTENDS Integers

CONSTANTS PageSize, NumPages, HostPage, Own, DefPerm, AddrArg, PermArg, RangeArg, Val, HostInit

Top    == PageSize * NumPages
Addr   == 0 .. (Top - 1)
Page   == 0 .. (NumPages - 1)
Offset == 0 .. (PageSize - 1)
Acc    == {"accR", "accW", "accX", "accINVALID"}

VARIABLES attr, own, map, host, invalid, ret

vars == <<attr, own, map, host, invalid, ret>>

PageOf(a) == a \div PageSize
OfsOf(a)  == a % PageSize
Nth(a, i) == (a + i) % Top
Span(a, n) == {Nth(a, i) : i \in 0 .. (n - 1)}

(* The byte the processor sees at a. *)
Mem(a) == IF map[PageOf(a)] = Own THEN own[a] ELSE host[map[PageOf(a)]][OfsOf(a)]

Answer(op, a, n, val) == ret' = [op |-> op, addr |-> a, n |-> n, val |-> val]

-----------------------------------------------------------------------------
(* Read for data (need = "R") or for execution (need = "X"): an unreadable *)
(* byte reads as 0xff, a readable one that was never initialised is noted. *)
Fetch(op, need, mark, a, n) ==
  /\ attr' = [b \in Addr |->
       IF b \notin Span(a, n) \/ need \notin attr[b] THEN attr[b]
       ELSE IF "VALID" \in attr[b] THEN attr[b] \cup {mark}
       ELSE attr[b] \cup {mark, "accINVALID"}]
  /\ invalid' = (\E b \in Span(a, n) : ~({need, "VALID"} \subseteq attr[b]))
  /\ Answer(op, a, n, [i \in 0 .. (n - 1) |->
       IF need \in attr[Nth(a, i)] THEN Mem(Nth(a, i)) ELSE 255])
  /\ UNCHANGED <<own, map, host>>

(* Put v[i] at Nth(a, i) where allowed. *)
Put(a, n, v, allowed(_)) ==
  LET I == {i \in 0 .. (n - 1) : allowed(Nth(a, i))}
  IN  /\ own' = [b \in Addr |->
            IF map[PageOf(b)] = Own /\ \E i \in I : Nth(a, i) = b
            THEN v[CHOOSE i \in I : Nth(a, i) = b] ELSE own[b]]
      /\ host' = [h \in HostPage |-> [o \in Offset |->
            LET here(i) == map[PageOf(Nth(a, i))] = h /\ OfsOf(Nth(a, i)) = o
            IN  IF \E i \in I : here(i) THEN v[CHOOSE i \in I : here(i)]
                ELSE host[h][o]]]

Write(a, n, v) ==
  LET writable(b) == "W" \in attr[b]
  IN  /\ attr' = [b \in Addr |->
            IF b \notin Span(a, n) THEN attr[b]
            ELSE IF writable(b) THEN attr[b] \cup {"VALID", "accW"}
            ELSE attr[b] \cup {"accINVALID"}]
      /\ Put(a, n, v, writable)
      /\ invalid' = (\E b \in Span(a, n) : ~writable(b))
      /\ Answer("W", a, n, <<>>)
      /\ UNCHANGED map

ReadNoPerm(a) ==
  /\ invalid' = FALSE
  /\ Answer("Rnoperm", a, 1, [i \in {0} |-> Mem(a)])
  /\ UNCHANGED <<attr, own, map, host>>

WriteNoPerm(a, v) ==
  LET anyByte(b) == TRUE
  IN  /\ attr' = [attr EXCEPT ![a] = @ \cup {"VALID", "accW"}]
      /\ Put(a, 1, v, anyByte)
      /\ invalid' = FALSE
      /\ Answer("Wnoperm", a, 1, <<>>)
      /\ UNCHANGED map

-----------------------------------------------------------------------------
SetPerm(s, e, perm) ==
  /\ s <= e
  /\ attr' = [b \in Addr |-> IF b \in s .. e THEN perm ELSE attr[b]]
  /\ Answer("perm", s, e - s + 1, <<>>)
  /\ UNCHANGED <<own, map, host, invalid>>

SetPage(p, h) ==
  /\ attr' = [b \in Addr |-> IF PageOf(b) = p THEN attr[b] \cup {"VALID"} ELSE attr[b]]
  /\ map' = [map EXCEPT ![p] = h]
  /\ Answer("map", p * PageSize, PageSize, <<>>)
  /\ UNCHANGED <<own, host, invalid>>

ClearPage(p) ==
  /\ map' = [map EXCEPT ![p] = Own]
  /\ Answer("unmap", p * PageSize, PageSize, <<>>)
  /\ UNCHANGED <<attr, own, host, invalid>>

ResetAccessStats ==
  /\ attr' = [b \in Addr |-> attr[b] \ Acc]
  /\ Answer("reset", 0, 0, <<>>)
  /\ UNCHANGED <<own, map, host, invalid>>

-----------------------------------------------------------------------------
Init ==
  /\ attr = [b \in Addr |-> DefPerm]
  /\ own = [b \in Addr |-> 0]
  /\ map = [p \in Page |-> Own]
  /\ host = HostInit
  /\ invalid = FALSE
  /\ ret = [op |-> "new", addr |-> 0, n |-> 0, val |-> <<>>]

Next ==
  \/ \E a \in AddrArg, n \in {1, 2, 4} :
       \/ Fetch("R", "R", "accR", a, n)
       \/ Fetch("X", "X", "accX", a, n)
       \/ \E v \in Val : Write(a, n, v)
  \/ \E a \in AddrArg : ReadNoPerm(a) \/ \E v \in Val : WriteNoPerm(a, v)
  \/ \E r \in RangeArg, perm \in PermArg : SetPerm(r[1], r[2], perm)
  \/ \E p \in Page : ClearPage(p) \/ \E h \in HostPage : SetPage(p, h)
  \/ ResetAccessStats

Spec == Init /\ [][Next]_vars
=============================================================================
