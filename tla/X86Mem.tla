------------------------------- MODULE X86Mem -------------------------------
(***************************************************************************)
(* The emulated memory of one x86emu_t: mem.c, reached through vm_memio(), *)
(* x86emu_set_perm(), x86emu_set_page() and x86emu_reset_access_stats().   *)
(*                                                                         *)
(* Every byte has an attribute byte (permissions, "initialised", access    *)
(* statistics).  The attribute and data arrays of a page are created the   *)
(* first time the page is touched; until then the page is one def_attr.    *)
(* Words and doublewords take a fast path on whole attribute words, or are *)
(* split into byte accesses.  Addresses wrap as the code's 32 bit ones do. *)
(*                                                                         *)
(* The two table levels (pdir, ptable) are abstracted: an entry that is    *)
(* not allocated and a fresh one both stand for mem->def_attr.             *)
(***************************************************************************)
EXTENDS Integers

CONSTANTS
  PageSize,   \* X86EMU_PAGE_SIZE
  NumPages,   \* pages in the address space
  HostPage,   \* host buffers that x86emu_set_page() may map
  Own,        \* "page->data is the page's own buffer"
  DefPerm,    \* def_mem_perm of x86emu_new()
  AddrArg,    \* addresses at which memory is accessed
  PermArg,    \* permissions the host passes to x86emu_set_perm()
  RangeArg,   \* the <<start, end>> pairs it passes
  Val,        \* the 32 bit values written, as four bytes, lowest first
  HostInit    \* what the host buffers hold when they are first mapped

Addr   == 0 .. (PageSize * NumPages - 1)
Page   == 0 .. (NumPages - 1)
Offset == 0 .. (PageSize - 1)
Byte   == 0 .. 255

Rwx  == {"R", "W", "X"}                        \* X86EMU_PERM_RWX
Acc  == {"accR", "accW", "accX", "accINVALID"} \* X86EMU_ACC_*
Flag == Rwx \cup {"VALID"} \cup Acc
Attr == SUBSET Flag

ASSUME SizeAssumption ==
  /\ PageSize \in Nat /\ PageSize >= 4
  /\ NumPages \in Nat \ {0}
ASSUME MapAssumption == Own \notin HostPage
ASSUME InputAssumption ==
  /\ DefPerm \in Attr
  /\ AddrArg \subseteq Addr
  /\ PermArg \subseteq Attr
  /\ RangeArg \subseteq Addr \X Addr
  /\ Val \subseteq [0 .. 3 -> Byte]
  /\ HostInit \in [HostPage -> [Offset -> Byte]]

VARIABLES
  created,   \* pages with page->attr allocated
  def_attr,  \* page->def_attr
  attr,      \* page->attr, for created pages
  own,       \* the buffer behind page->attr + X86EMU_PAGE_SIZE
  map,       \* page->data: the page's own buffer or a host buffer
  host,      \* contents of the host buffers
  invalid,   \* mem->invalid, what vm_memio() returns
  ret        \* the last request and the bytes it returned

vars == <<created, def_attr, attr, own, map, host, invalid, ret>>

-----------------------------------------------------------------------------
PageOf(a) == a \div PageSize
OfsOf(a)  == a % PageSize
At(p, o)  == p * PageSize + o

(* The i-th byte of an access at a; u32 addresses wrap. *)
Nth(a, i) == (a + i) % (PageSize * NumPages)
Span(a, n) == {Nth(a, i) : i \in 0 .. (n - 1)}

(* Attribute of a byte, as vm_get_page(mem, addr, 1) would present it. *)
AttrOf(a) == IF PageOf(a) \in created THEN attr[a] ELSE def_attr[PageOf(a)]

(* page->data[page_idx] *)
Data(p, o) == IF map[p] = Own THEN own[At(p, o)] ELSE host[map[p]][o]

(* Mutant: a page created on demand forgets the permissions set earlier.   *)
StoreFresh(P, new) ==
  /\ created' = created \cup P
  /\ attr' = [a \in Addr |-> IF a \in DOMAIN new THEN new[a]
                             ELSE IF PageOf(a) \in P \ created THEN DefPerm
                             ELSE attr[a]]

(* vm_get_page(.., create) for the pages P, then the attributes of the     *)
(* bytes in DOMAIN new are stored.                                         *)
Store(P, new) ==
  /\ created' = created \cup P
  /\ attr' = [a \in Addr |-> IF a \in DOMAIN new THEN new[a]
                             ELSE IF PageOf(a) \in P THEN AttrOf(a)
                             ELSE attr[a]]

Pages(S) == {PageOf(a) : a \in S}

(* Mutants of the fast path: only the first byte is checked; any byte may  *)
(* be uninitialised.                                                       *)
FastFirstByte(a, n, F) ==
  n > 1 /\ OfsOf(a) < PageSize - (n - 1) /\ F \subseteq AttrOf(a)

FastUninitialised(a, n, F) ==
  /\ n > 1
  /\ OfsOf(a) < PageSize - (n - 1)
  /\ \A i \in 0 .. (n - 1) : F \ {"VALID"} \subseteq AttrOf(At(PageOf(a), OfsOf(a) + i))

(* Fast path of the word and doubleword functions: the access stays in one *)
(* page and every byte has the flags F.                                    *)
Fast(a, n, F) ==
  /\ n > 1
  /\ OfsOf(a) < PageSize - (n - 1)
  /\ \A i \in 0 .. (n - 1) : F \subseteq AttrOf(At(PageOf(a), OfsOf(a) + i))

-----------------------------------------------------------------------------
(* One byte through vm_r_byte() / vm_x_byte(): need is "R" or "X".         *)
FetchAttr(A, need, mark) ==
  IF need \notin A THEN A
  ELSE A \cup {mark} \cup (IF "VALID" \in A THEN {} ELSE {"accINVALID"})

FetchBad(A, need) == need \notin A \/ "VALID" \notin A

FetchByte(a, need) ==
  IF need \in AttrOf(a) THEN Data(PageOf(a), OfsOf(a)) ELSE 255

(* vm_r_byte, vm_r_word, vm_r_dword *)
Read(a, n) ==
  LET S    == Span(a, n)
      fast == Fast(a, n, {"R", "VALID"})
  IN  /\ Store(Pages(S), [b \in S |-> IF fast THEN AttrOf(b) \cup {"accR"}
                                      ELSE FetchAttr(AttrOf(b), "R", "accR")])
      /\ invalid' = (~fast /\ \E b \in S : FetchBad(AttrOf(b), "R"))
      /\ ret' = [op |-> "R", addr |-> a, n |-> n,
                 val |-> [i \in 0 .. (n - 1) |->
                            IF fast THEN Data(PageOf(a), OfsOf(a) + i)
                            ELSE FetchByte(Nth(a, i), "R")]]
      /\ UNCHANGED <<def_attr, own, map, host>>

(* vm_x_byte, vm_x_word, vm_x_dword: always byte by byte *)
Execute(a, n) ==
  LET S == Span(a, n)
  IN  /\ Store(Pages(S), [b \in S |-> FetchAttr(AttrOf(b), "X", "accX")])
      /\ invalid' = (\E b \in S : FetchBad(AttrOf(b), "X"))
      /\ ret' = [op |-> "X", addr |-> a, n |-> n,
                 val |-> [i \in 0 .. (n - 1) |-> FetchByte(Nth(a, i), "X")]]
      /\ UNCHANGED <<def_attr, own, map, host>>

(* vm_r_byte_noperm: the page is created, nothing is checked or recorded *)
ReadNoPerm(a) ==
  /\ Store({PageOf(a)}, <<>>)
  /\ invalid' = FALSE
  /\ ret' = [op |-> "Rnoperm", addr |-> a, n |-> 1,
             val |-> [i \in {0} |-> Data(PageOf(a), OfsOf(a))]]
  /\ UNCHANGED <<def_attr, own, map, host>>

(* Store byte i of v at Nth(a, i) for the i in I. *)
StoreData(a, v, I) ==
  /\ own' = [b \in Addr |->
       IF map[PageOf(b)] = Own /\ \E i \in I : Nth(a, i) = b
       THEN v[CHOOSE i \in I : Nth(a, i) = b] ELSE own[b]]
  /\ host' = [h \in HostPage |-> [o \in Offset |->
       LET hit(i) == map[PageOf(Nth(a, i))] = h /\ OfsOf(Nth(a, i)) = o
       IN  IF \E i \in I : hit(i) THEN v[CHOOSE i \in I : hit(i)]
           ELSE host[h][o]]]

(* vm_w_byte, vm_w_word, vm_w_dword *)
Write(a, n, v) ==
  LET S    == Span(a, n)
      fast == Fast(a, n, {"W"})
      ok(b) == fast \/ "W" \in AttrOf(b)
  IN  /\ Store(Pages(S), [b \in S |-> AttrOf(b) \cup
                 (IF ok(b) THEN {"VALID", "accW"} ELSE {"accINVALID"})])
      /\ StoreData(a, v, {i \in 0 .. (n - 1) : ok(Nth(a, i))})
      /\ invalid' = (\E b \in S : ~ok(b))
      /\ ret' = [op |-> "W", addr |-> a, n |-> n, val |-> <<>>]
      /\ UNCHANGED <<def_attr, map>>

(* vm_w_byte_noperm *)
WriteNoPerm(a, v) ==
  /\ Store({PageOf(a)}, [b \in {a} |-> AttrOf(b) \cup {"VALID", "accW"}])
  /\ StoreData(a, v, {0})
  /\ invalid' = FALSE
  /\ ret' = [op |-> "Wnoperm", addr |-> a, n |-> 1, val |-> <<>>]
  /\ UNCHANGED <<def_attr, map>>

-----------------------------------------------------------------------------
(* The three stretches of x86emu_set_perm(start, end): the rest of a page  *)
(* entered in the middle, the whole pages, the beginning of the last page. *)
(* The early returns of the code end the walk: after a head that reached   *)
(* end or the top of memory, and after a whole page found at address 0.    *)
Head(s, e) == IF OfsOf(s) = 0 THEN {}
              ELSE {a \in s .. e : PageOf(a) = PageOf(s)}

AfterHead(s) == IF OfsOf(s) = 0 THEN s ELSE At(PageOf(s) + 1, 0)

WholePages(s, e) ==
  LET full == {p \in Page : At(p, 0) >= AfterHead(s) /\ At(p, PageSize - 1) <= e}
  IN  IF 0 \in full THEN {0} ELSE full

(* No tail when the first whole page was page 0. *)
Tail(s, e) == IF 0 \in WholePages(s, e) THEN {}
              ELSE {a \in AfterHead(s) .. e : PageOf(a) \notin WholePages(s, e)}

(* Mutant: start is not truncated to 32 bits. *)
WrappedPast(s, e) == IF NumPages - 1 \in WholePages(s, e) THEN {NumPages} ELSE {}

(* start wraps to 0 behind the last page: page 0 is created, not changed. *)
Wrapped(s, e) ==
  IF NumPages - 1 \in WholePages(s, e) /\ 0 \notin WholePages(s, e) THEN {0} ELSE {}

SetPerm(s, e, perm) ==
  LET W     == WholePages(s, e)
      bytes == Head(s, e) \cup Tail(s, e)
  IN  /\ s <= e
      /\ Store(Pages(bytes) \cup Wrapped(s, e),
               [a \in bytes \cup {b \in Addr : PageOf(b) \in W \cap created} |-> perm])
      /\ def_attr' = [p \in Page |-> IF p \in W THEN perm ELSE def_attr[p]]
      /\ ret' = [op |-> "perm", addr |-> s, n |-> e - s + 1, val |-> <<>>]
      /\ UNCHANGED <<own, map, host, invalid>>

(* x86emu_set_page(page, address) with an address, and with NULL *)
SetPage(p, h) ==
  /\ Store({p}, [a \in {At(p, o) : o \in Offset} |-> AttrOf(a) \cup {"VALID"}])
  /\ map' = [map EXCEPT ![p] = h]
  /\ ret' = [op |-> "map", addr |-> At(p, 0), n |-> PageSize, val |-> <<>>]
  /\ UNCHANGED <<def_attr, own, host, invalid>>

ClearPage(p) ==
  /\ Store({p}, <<>>)
  /\ map' = [map EXCEPT ![p] = Own]
  /\ ret' = [op |-> "unmap", addr |-> At(p, 0), n |-> PageSize, val |-> <<>>]
  /\ UNCHANGED <<def_attr, own, host, invalid>>

(* x86emu_reset_access_stats: created pages only *)
ResetAccessStats ==
  /\ attr' = [a \in Addr |-> IF PageOf(a) \in created THEN attr[a] \ Acc ELSE attr[a]]
  /\ ret' = [op |-> "reset", addr |-> 0, n |-> 0, val |-> <<>>]
  /\ UNCHANGED <<created, def_attr, own, map, host, invalid>>

-----------------------------------------------------------------------------
(* x86emu_new(): emu_mem_new() and no page yet *)
Init ==
  /\ created  = {}
  /\ def_attr = [p \in Page |-> DefPerm]
  /\ attr     = [a \in Addr |-> {}]
  /\ own      = [a \in Addr |-> 0]
  /\ map      = [p \in Page |-> Own]
  /\ host     = HostInit
  /\ invalid  = FALSE
  /\ ret      = [op |-> "new", addr |-> 0, n |-> 0, val |-> <<>>]

Size == {1, 2, 4}

(* vm_memio() *)
MemIo ==
  \/ \E a \in AddrArg, n \in Size : Read(a, n)
  \/ \E a \in AddrArg, n \in Size : Execute(a, n)
  \/ \E a \in AddrArg, n \in Size, v \in Val : Write(a, n, v)
  \/ \E a \in AddrArg : ReadNoPerm(a)
  \/ \E a \in AddrArg, v \in Val : WriteNoPerm(a, v)

Host ==
  \/ \E r \in RangeArg, perm \in PermArg : SetPerm(r[1], r[2], perm)
  \/ \E p \in Page, h \in HostPage : SetPage(p, h)
  \/ \E p \in Page : ClearPage(p)
  \/ ResetAccessStats

Next == MemIo \/ Host

Spec == Init /\ [][Next]_vars
=============================================================================
