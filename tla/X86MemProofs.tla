---------------------------- MODULE X86MemProofs ----------------------------
(***************************************************************************)
(* Theorems about the emulated memory.                                     *)
(***************************************************************************)
EXTENDS X86MemProps, TLAPS

-----------------------------------------------------------------------------
(* Address arithmetic. *)

(* An address is in a page, at an offset. *)
LEMMA AddrInPage ==
  ASSUME NEW a \in Addr
  PROVE  PageOf(a) \in Page /\ OfsOf(a) \in Offset /\ a = At(PageOf(a), OfsOf(a))
<1>1. a = PageSize * (a \div PageSize) + (a % PageSize) /\ a % PageSize \in 0 .. (PageSize - 1)
  BY SizeAssumption DEF Addr
<1>2. a \div PageSize \in Int
  BY SizeAssumption DEF Addr
<1>3. a \div PageSize >= 0 /\ a \div PageSize < NumPages
  BY <1>1, <1>2, SizeAssumption DEF Addr
<1> QED
  BY <1>1, <1>2, <1>3, SizeAssumption DEF PageOf, OfsOf, At, Page, Offset

(* Addresses wrap into the address space. *)
LEMMA NthInAddr ==
  ASSUME NEW a \in Addr, NEW i \in Int
  PROVE  Nth(a, i) \in Addr
BY SizeAssumption DEF Addr, Nth

(* A page and an offset make an address. *)
LEMMA AtInAddr ==
  ASSUME NEW p \in Page, NEW o \in Offset
  PROVE  At(p, o) \in Addr
BY SizeAssumption DEF Page, Offset, At, Addr

(* The bytes of an access are addresses, and lie in pages. *)
LEMMA SpanInAddr ==
  ASSUME NEW a \in Addr, NEW n \in Int
  PROVE  Span(a, n) \subseteq Addr /\ Pages(Span(a, n)) \subseteq Page
<1>1. Span(a, n) \subseteq Addr
  BY NthInAddr DEF Span
<1> QED
  BY <1>1, AddrInPage DEF Pages

-----------------------------------------------------------------------------
(* Type correctness. *)

(* The attribute the page presents is an attribute. *)
LEMMA AttrOfType ==
  ASSUME TypeOK, NEW a \in Addr
  PROVE  AttrOf(a) \in Attr
BY AddrInPage DEF TypeOK, AttrOf

(* Storing attributes keeps the types of the page tables. *)
LEMMA StoreType ==
  ASSUME TypeOK, NEW P, P \subseteq Page,
         NEW new, \A b \in DOMAIN new : new[b] \in Attr,
         Store(P, new)
  PROVE  created' \subseteq Page /\ attr' \in [Addr -> Attr]
<1>1. created' \subseteq Page
  BY DEF Store, TypeOK
<1>2. ASSUME NEW a \in Addr
      PROVE  (IF a \in DOMAIN new THEN new[a]
              ELSE IF PageOf(a) \in P THEN AttrOf(a) ELSE attr[a]) \in Attr
  BY AttrOfType DEF TypeOK
<1> QED
  BY <1>1, <1>2 DEF Store

(* Storing data keeps the types of the buffers. *)
LEMMA StoreDataType ==
  ASSUME TypeOK, NEW a \in Addr, NEW v \in Val, NEW I, I \subseteq 0 .. 3,
         StoreData(a, v, I)
  PROVE  own' \in [Addr -> Byte] /\ host' \in [HostPage -> [Offset -> Byte]]
<1>1. \A i \in I : v[i] \in Byte
  BY InputAssumption
<1>2. own' \in [Addr -> Byte]
  BY <1>1 DEF StoreData, TypeOK
<1>3. host' \in [HostPage -> [Offset -> Byte]]
  BY <1>1 DEF StoreData, TypeOK
<1> QED
  BY <1>2, <1>3

(* What a fetch leaves of an attribute. *)
LEMMA FetchAttrType ==
  ASSUME NEW A \in Attr, NEW need, NEW mark \in Acc
  PROVE  FetchAttr(A, need, mark) \in Attr
BY DEF FetchAttr, Attr, Flag, Acc

(* One lemma per kind of request: the pages it creates are pages and the   *)
(* attributes it stores are attributes.                                    *)
LEMMA ReadType ==
  ASSUME TypeOK, NEW a \in Addr, NEW n \in Size, Read(a, n)
  PROVE  TypeOK'
<1> DEFINE S == Span(a, n)
           fast == Fast(a, n, {"R", "VALID"})
           new == [b \in S |-> IF fast THEN AttrOf(b) \cup {"accR"}
                               ELSE FetchAttr(AttrOf(b), "R", "accR")]
<1>1. S \subseteq Addr /\ Pages(S) \subseteq Page
  BY SpanInAddr DEF Size
<1>2. \A b \in DOMAIN new : new[b] \in Attr
  <2> SUFFICES ASSUME NEW b \in S PROVE new[b] \in Attr
    OBVIOUS
  <2>1. AttrOf(b) \in Attr
    BY <1>1, AttrOfType
  <2>2. AttrOf(b) \cup {"accR"} \in Attr
    BY <2>1 DEF Attr, Flag, Acc
  <2>3. FetchAttr(AttrOf(b), "R", "accR") \in Attr
    BY <2>1, FetchAttrType DEF Acc
  <2> QED
    BY <2>2, <2>3
<1>3. Store(Pages(S), new)
  BY DEF Read
<1>4. created' \subseteq Page /\ attr' \in [Addr -> Attr]
  <2> HIDE DEF new, S
  <2> QED
    BY <1>1, <1>2, <1>3, StoreType
<1>5. invalid' \in BOOLEAN /\ ret'.op = "R" /\ ret'.addr = a
  BY DEF Read
<1> QED
  BY <1>4, <1>5 DEF TypeOK, Read

LEMMA ExecuteType ==
  ASSUME TypeOK, NEW a \in Addr, NEW n \in Size, Execute(a, n)
  PROVE  TypeOK'
<1> DEFINE S == Span(a, n)
           new == [b \in S |-> FetchAttr(AttrOf(b), "X", "accX")]
<1>1. S \subseteq Addr /\ Pages(S) \subseteq Page
  BY SpanInAddr DEF Size
<1>2. \A b \in DOMAIN new : new[b] \in Attr
  BY <1>1, AttrOfType, FetchAttrType DEF Acc
<1>3. Store(Pages(S), new)
  BY DEF Execute
<1>4. created' \subseteq Page /\ attr' \in [Addr -> Attr]
  <2> HIDE DEF new, S
  <2> QED
    BY <1>1, <1>2, <1>3, StoreType
<1>5. invalid' \in BOOLEAN /\ ret'.op = "X" /\ ret'.addr = a
  BY DEF Execute
<1> QED
  BY <1>4, <1>5 DEF TypeOK, Execute

LEMMA WriteType ==
  ASSUME TypeOK, NEW a \in Addr, NEW n \in Size, NEW v \in Val, Write(a, n, v)
  PROVE  TypeOK'
<1> DEFINE S == Span(a, n)
           ok(b) == Fast(a, n, {"W"}) \/ "W" \in AttrOf(b)
           new == [b \in S |-> AttrOf(b) \cup
                     (IF ok(b) THEN {"VALID", "accW"} ELSE {"accINVALID"})]
           I == {i \in 0 .. (n - 1) : ok(Nth(a, i))}
<1>1. S \subseteq Addr /\ Pages(S) \subseteq Page
  BY SpanInAddr DEF Size
<1>2. \A b \in DOMAIN new : new[b] \in Attr
  <2> SUFFICES ASSUME NEW b \in S PROVE new[b] \in Attr
    OBVIOUS
  <2>1. AttrOf(b) \in Attr
    BY <1>1, AttrOfType
  <2> QED
    BY <2>1 DEF Attr, Flag, Acc
<1>3. Store(Pages(S), new) /\ StoreData(a, v, I)
  BY DEF Write
<1>4. I \subseteq 0 .. 3
  BY DEF Size
<1>5. created' \subseteq Page /\ attr' \in [Addr -> Attr]
  <2> HIDE DEF new, S
  <2> QED
    BY <1>1, <1>2, <1>3, StoreType
<1>6. own' \in [Addr -> Byte] /\ host' \in [HostPage -> [Offset -> Byte]]
  <2> HIDE DEF I
  <2> QED
    BY <1>3, <1>4, StoreDataType
<1>7. invalid' \in BOOLEAN /\ ret'.op = "W" /\ ret'.addr = a
  BY DEF Write
<1> QED
  BY <1>5, <1>6, <1>7 DEF TypeOK, Write

LEMMA NoPermType ==
  ASSUME TypeOK, NEW a \in Addr,
         ReadNoPerm(a) \/ \E v \in Val : WriteNoPerm(a, v)
  PROVE  TypeOK'
<1>1. {PageOf(a)} \subseteq Page
  BY AddrInPage
<1>2. CASE ReadNoPerm(a)
  <2>1. created' \subseteq Page /\ attr' \in [Addr -> Attr]
    BY <1>1, <1>2, StoreType DEF ReadNoPerm
  <2> QED
    BY <1>2, <2>1 DEF TypeOK, ReadNoPerm
<1>3. ASSUME NEW v \in Val, WriteNoPerm(a, v)
      PROVE  TypeOK'
  <2> DEFINE new == [b \in {a} |-> AttrOf(b) \cup {"VALID", "accW"}]
  <2>1. \A b \in DOMAIN new : new[b] \in Attr
    BY AttrOfType DEF Attr, Flag, Acc
  <2>2. Store({PageOf(a)}, new) /\ StoreData(a, v, {0})
    BY <1>3 DEF WriteNoPerm
  <2>3. created' \subseteq Page /\ attr' \in [Addr -> Attr]
    <3> HIDE DEF new
    <3> QED
      BY <1>1, <2>1, <2>2, StoreType
  <2>4. own' \in [Addr -> Byte] /\ host' \in [HostPage -> [Offset -> Byte]]
    BY <2>2, StoreDataType
  <2> QED
    BY <1>3, <2>3, <2>4 DEF TypeOK, WriteNoPerm
<1> QED
  BY <1>2, <1>3

(* The stretches of a permission range lie in the address space. *)
LEMMA SetPermType ==
  ASSUME TypeOK, NEW r \in RangeArg, NEW perm \in PermArg, SetPerm(r[1], r[2], perm)
  PROVE  TypeOK'
<1> DEFINE W == WholePages(r[1], r[2])
           bytes == Head(r[1], r[2]) \cup Tail(r[1], r[2])
           P == Pages(bytes) \cup Wrapped(r[1], r[2])
           new == [a \in bytes \cup {b \in Addr : PageOf(b) \in W \cap created} |-> perm]
<1>1. r[1] \in Addr /\ r[2] \in Addr /\ perm \in Attr
  BY InputAssumption
<1>2. AfterHead(r[1]) \in Nat
  <2>1. PageOf(r[1]) + 1 \in Nat
    BY <1>1, AddrInPage DEF Page
  <2> QED
    BY <1>1, <2>1, SizeAssumption DEF AfterHead, At, Addr
<1>3. bytes \subseteq Addr
  <2>1. \A x \in Int : 0 <= x /\ x <= r[2] => x \in Addr
    BY <1>1, SizeAssumption DEF Addr
  <2>2. r[1] \in Nat /\ r[2] \in Int
    BY <1>1 DEF Addr
  <2>3. Head(r[1], r[2]) \subseteq Addr
    BY <2>1, <2>2 DEF Head
  <2>4. Tail(r[1], r[2]) \subseteq Addr
    BY <1>2, <2>1, <2>2 DEF Tail
  <2> QED
    BY <2>3, <2>4
<1>4. P \subseteq Page
  <2>1. Pages(bytes) \subseteq Page
    BY <1>3, AddrInPage DEF Pages
  <2>2. Wrapped(r[1], r[2]) \subseteq Page
    BY SizeAssumption DEF Wrapped, Page
  <2> QED
    BY <2>1, <2>2
<1>5. \A b \in DOMAIN new : new[b] \in Attr
  BY <1>1
<1>6. Store(P, new)
  BY DEF SetPerm
<1>7. created' \subseteq Page /\ attr' \in [Addr -> Attr]
  <2> HIDE DEF new, P
  <2> QED
    BY <1>4, <1>5, <1>6, StoreType
<1>8. def_attr' \in [Page -> Attr]
  BY <1>1 DEF SetPerm, TypeOK
<1>9. ret'.op = "perm" /\ ret'.addr = r[1]
  BY DEF SetPerm
<1> QED
  BY <1>1, <1>7, <1>8, <1>9 DEF TypeOK, SetPerm

LEMMA SetPageType ==
  ASSUME TypeOK, NEW p \in Page, NEW h \in HostPage, SetPage(p, h)
  PROVE  TypeOK'
<1> DEFINE new == [a \in {At(p, o) : o \in Offset} |-> AttrOf(a) \cup {"VALID"}]
<1>1. \A b \in DOMAIN new : new[b] \in Attr
  BY AtInAddr, AttrOfType DEF Attr, Flag
<1>2. Store({p}, new)
  BY DEF SetPage
<1>3. created' \subseteq Page /\ attr' \in [Addr -> Attr]
  <2> HIDE DEF new
  <2> QED
    BY <1>1, <1>2, StoreType
<1>4. ret'.op = "map" /\ ret'.addr \in Addr
  BY AtInAddr, SizeAssumption DEF SetPage, Offset
<1> QED
  BY <1>3, <1>4 DEF TypeOK, SetPage

LEMMA ClearPageType ==
  ASSUME TypeOK, NEW p \in Page, ClearPage(p)
  PROVE  TypeOK'
<1>1. created' \subseteq Page /\ attr' \in [Addr -> Attr]
  BY StoreType DEF ClearPage
<1>2. ret'.op = "unmap" /\ ret'.addr \in Addr
  BY AtInAddr, SizeAssumption DEF ClearPage, Offset
<1> QED
  BY <1>1, <1>2 DEF TypeOK, ClearPage

LEMMA ResetType ==
  ASSUME TypeOK, ResetAccessStats
  PROVE  TypeOK'
<1>1. attr' \in [Addr -> Attr]
  BY DEF ResetAccessStats, TypeOK, Attr
<1>2. ret'.op = "reset" /\ ret'.addr \in Addr
  BY SizeAssumption DEF ResetAccessStats, Addr
<1> QED
  BY <1>1, <1>2 DEF TypeOK, ResetAccessStats

(* The page tables of mem.c are always well formed: no request creates a   *)
(* page, maps a buffer or leaves an attribute outside their ranges.        *)
THEOREM TypeCorrect == Spec => []TypeOK
<1>1. Init => TypeOK
  <2>1. 0 \in Addr
    BY SizeAssumption DEF Addr
  <2>2. attr = [a \in Addr |-> {}] => attr \in [Addr -> Attr]
    BY DEF Attr
  <2>3. own = [a \in Addr |-> 0] => own \in [Addr -> Byte]
    BY DEF Byte
  <2>4. map = [p \in Page |-> Own] => map \in [Page -> HostPage \cup {Own}]
    OBVIOUS
  <2>5. def_attr = [p \in Page |-> DefPerm] => def_attr \in [Page -> Attr]
    BY InputAssumption
  <2>6. host = HostInit => host \in [HostPage -> [Offset -> Byte]]
    BY InputAssumption
  <2>7. Init => ret.op = "new" /\ ret.addr = 0
    BY DEF Init
  <2>8. Init => created \subseteq Page
    BY DEF Init
  <2>9. Init => invalid \in BOOLEAN
    BY DEF Init
  <2> QED
    BY <2>1, <2>2, <2>3, <2>4, <2>5, <2>6, <2>7, <2>8, <2>9 DEF Init, TypeOK
<1>2. TypeOK /\ [Next]_vars => TypeOK'
  <2> SUFFICES ASSUME TypeOK, [Next]_vars
               PROVE  TypeOK'
    OBVIOUS
  <2> USE InputAssumption
  <2>1. CASE MemIo
    BY <2>1, ReadType, ExecuteType, WriteType, NoPermType DEF MemIo
  <2>2. CASE Host
    BY <2>2, SetPermType, SetPageType, ClearPageType, ResetType DEF Host
  <2>3. CASE UNCHANGED vars
    BY <2>3 DEF vars, TypeOK
  <2> QED
    BY <2>1, <2>2, <2>3 DEF Next
<1> QED
  BY <1>1, <1>2, PTL DEF Spec

-----------------------------------------------------------------------------
(* Permissions are stable. *)

(* Creating pages is invisible: what Store() changes of the attributes the *)
(* pages present is exactly what it is told to store.                      *)
LEMMA StoreAttrOf ==
  ASSUME TypeOK, NEW P, NEW new, Store(P, new),
         \A b \in DOMAIN new : b \in Addr => PageOf(b) \in P \cup created,
         def_attr' = def_attr, NEW a \in Addr
  PROVE  (AttrOf(a))' = IF a \in DOMAIN new THEN new[a] ELSE AttrOf(a)
<1>1. created' = created \cup P
  BY DEF Store
<1>2. attr'[a] = IF a \in DOMAIN new THEN new[a]
                 ELSE IF PageOf(a) \in P THEN AttrOf(a) ELSE attr[a]
  BY DEF Store
<1>3. (AttrOf(a))' = IF PageOf(a) \in created' THEN attr'[a] ELSE def_attr'[PageOf(a)]
  BY DEF AttrOf
<1> QED
  BY <1>1, <1>2, <1>3 DEF AttrOf

(* A request that only adds flags other than R, W, X to some bytes.        *)
LEMMA AddedFlagsKept ==
  ASSUME TypeOK, NEW P, NEW new, Store(P, new), def_attr' = def_attr,
         DOMAIN new \subseteq Addr,
         \A b \in DOMAIN new : PageOf(b) \in P,
         \A b \in DOMAIN new : AttrOf(b) \subseteq new[b] /\ new[b] \cap Rwx = AttrOf(b) \cap Rwx,
         NEW a \in Addr
  PROVE  FlagsKept(a)
<1>1. (AttrOf(a))' = IF a \in DOMAIN new THEN new[a] ELSE AttrOf(a)
  BY StoreAttrOf
<1> QED
  BY <1>1 DEF FlagsKept

(* The marks an access leaves are not permissions. *)
LEMMA FetchAttrKeeps ==
  ASSUME NEW A, NEW need, NEW mark \in Acc
  PROVE  A \subseteq FetchAttr(A, need, mark) /\ FetchAttr(A, need, mark) \cap Rwx = A \cap Rwx
BY DEF FetchAttr, Acc, Rwx

LEMMA MemIoKeepsFlags ==
  ASSUME TypeOK, MemIo, NEW a \in Addr
  PROVE  FlagsKept(a)
<1> USE InputAssumption
<1>1. ASSUME NEW x \in AddrArg, NEW n \in Size, Read(x, n)
      PROVE  FlagsKept(a)
  <2> DEFINE S == Span(x, n)
             fast == Fast(x, n, {"R", "VALID"})
             new == [b \in S |-> IF fast THEN AttrOf(b) \cup {"accR"}
                                 ELSE FetchAttr(AttrOf(b), "R", "accR")]
  <2>1. S \subseteq Addr /\ \A b \in S : PageOf(b) \in Pages(S)
    BY SpanInAddr DEF Size, Pages
  <2>2. \A b \in S : AttrOf(b) \subseteq new[b] /\ new[b] \cap Rwx = AttrOf(b) \cap Rwx
    BY FetchAttrKeeps DEF Acc, Rwx
  <2>3. Store(Pages(S), new) /\ def_attr' = def_attr /\ DOMAIN new = S
    BY <1>1 DEF Read
  <2> HIDE DEF new, S
  <2> QED
    BY <2>1, <2>2, <2>3, AddedFlagsKept
<1>2. ASSUME NEW x \in AddrArg, NEW n \in Size, Execute(x, n)
      PROVE  FlagsKept(a)
  <2> DEFINE S == Span(x, n)
             new == [b \in S |-> FetchAttr(AttrOf(b), "X", "accX")]
  <2>1. S \subseteq Addr /\ \A b \in S : PageOf(b) \in Pages(S)
    BY SpanInAddr DEF Size, Pages
  <2>2. \A b \in S : AttrOf(b) \subseteq new[b] /\ new[b] \cap Rwx = AttrOf(b) \cap Rwx
    BY FetchAttrKeeps DEF Acc
  <2>3. Store(Pages(S), new) /\ def_attr' = def_attr /\ DOMAIN new = S
    BY <1>2 DEF Execute
  <2> HIDE DEF new, S
  <2> QED
    BY <2>1, <2>2, <2>3, AddedFlagsKept
<1>3. ASSUME NEW x \in AddrArg, NEW n \in Size, NEW v \in Val, Write(x, n, v)
      PROVE  FlagsKept(a)
  <2> DEFINE S == Span(x, n)
             ok(b) == Fast(x, n, {"W"}) \/ "W" \in AttrOf(b)
             new == [b \in S |-> AttrOf(b) \cup
                       (IF ok(b) THEN {"VALID", "accW"} ELSE {"accINVALID"})]
  <2>1. S \subseteq Addr /\ \A b \in S : PageOf(b) \in Pages(S)
    BY SpanInAddr DEF Size, Pages
  <2>2. \A b \in S : AttrOf(b) \subseteq new[b] /\ new[b] \cap Rwx = AttrOf(b) \cap Rwx
    BY DEF Rwx
  <2>3. Store(Pages(S), new) /\ def_attr' = def_attr /\ DOMAIN new = S
    BY <1>3 DEF Write
  <2> HIDE DEF new, S
  <2> QED
    BY <2>1, <2>2, <2>3, AddedFlagsKept
<1>4. ASSUME NEW x \in AddrArg, ReadNoPerm(x)
      PROVE  FlagsKept(a)
  BY <1>4, AddedFlagsKept DEF ReadNoPerm
<1>5. ASSUME NEW x \in AddrArg, NEW v \in Val, WriteNoPerm(x, v)
      PROVE  FlagsKept(a)
  <2> DEFINE new == [b \in {x} |-> AttrOf(b) \cup {"VALID", "accW"}]
  <2>1. Store({PageOf(x)}, new) /\ def_attr' = def_attr /\ DOMAIN new = {x}
    BY <1>5 DEF WriteNoPerm
  <2>2. AttrOf(x) \subseteq new[x] /\ new[x] \cap Rwx = AttrOf(x) \cap Rwx
    BY DEF Rwx
  <2> HIDE DEF new
  <2> QED
    BY <2>1, <2>2, AddedFlagsKept
<1> QED
  BY <1>1, <1>2, <1>3, <1>4, <1>5 DEF MemIo

(* The head of a permission range ends behind its start. *)
LEMMA AfterHeadBound ==
  ASSUME NEW s \in Addr
  PROVE  AfterHead(s) \in Nat /\ s <= AfterHead(s)
<1>1. PageOf(s) \in Page /\ OfsOf(s) \in Offset /\ s = At(PageOf(s), OfsOf(s))
  BY AddrInPage
<1>2. At(PageOf(s) + 1, 0) = At(PageOf(s), 0) + PageSize
  BY <1>1, SizeAssumption DEF At, Page
<1>3. At(PageOf(s), OfsOf(s)) = At(PageOf(s), 0) + OfsOf(s) /\ At(PageOf(s), 0) \in Int
  BY <1>1, SizeAssumption DEF At, Page, Offset
<1> QED
  BY <1>1, <1>2, <1>3, SizeAssumption DEF AfterHead, Addr, Offset

(* A whole page lies inside the range, and so do the head and the tail.    *)
LEMMA WholePageInRange ==
  ASSUME NEW s \in Addr, NEW e \in Addr, NEW a \in Addr, PageOf(a) \in WholePages(s, e)
  PROVE  a \in s .. e
<1> DEFINE p == PageOf(a)
<1>1. p \in Page /\ OfsOf(a) \in Offset /\ a = At(p, OfsOf(a))
  BY AddrInPage
<1>2. AfterHead(s) \in Nat /\ s <= AfterHead(s)
  BY AfterHeadBound
<1>3. At(p, 0) >= AfterHead(s) /\ At(p, PageSize - 1) <= e
  BY DEF WholePages
<1>4. At(p, 0) \in Int /\ At(p, OfsOf(a)) = At(p, 0) + OfsOf(a)
      /\ At(p, PageSize - 1) = At(p, 0) + PageSize - 1
  BY <1>1, SizeAssumption DEF At, Page, Offset
<1> QED
  BY <1>1, <1>2, <1>3, <1>4, SizeAssumption DEF Addr, Offset

LEMMA RestInRange ==
  ASSUME NEW s \in Addr, NEW e \in Addr
  PROVE  Head(s, e) \cup Tail(s, e) \subseteq s .. e
<1>1. AfterHead(s) \in Nat /\ s <= AfterHead(s)
  BY AfterHeadBound
<1> QED
  BY <1>1 DEF Head, Tail, Addr

LEMMA HostKeepsFlags ==
  ASSUME TypeOK, Host, NEW a \in Addr
  PROVE  FlagsKept(a)
<1>1. ASSUME NEW r \in RangeArg, NEW perm \in PermArg, SetPerm(r[1], r[2], perm)
      PROVE  FlagsKept(a)
  <2> DEFINE s == r[1]  e == r[2]
             W == WholePages(s, e)
             bytes == Head(s, e) \cup Tail(s, e)
             P == Pages(bytes) \cup Wrapped(s, e)
             new == [b \in bytes \cup {b \in Addr : PageOf(b) \in W \cap created} |-> perm]
  <2>1. s \in Addr /\ e \in Addr
    BY InputAssumption
  <2>2. ret'.op = "perm" /\ ret'.addr = s /\ ret'.n = e - s + 1
    BY <1>1 DEF SetPerm
  <2>3. ret'.addr + ret'.n - 1 = e
    BY <2>1, <2>2 DEF Addr
  <2>4. CASE a \in s .. e
    BY <2>2, <2>3, <2>4 DEF FlagsKept
  <2>5. CASE a \notin s .. e
    <3>1. a \notin DOMAIN new /\ PageOf(a) \notin W
      BY <2>1, <2>5, WholePageInRange, RestInRange
    <3>2. Store(P, new) /\ def_attr' = [p \in Page |-> IF p \in W THEN perm ELSE def_attr[p]]
      BY <1>1 DEF SetPerm
    <3>3. created' = created \cup P /\ attr'[a] = IF PageOf(a) \in P THEN AttrOf(a) ELSE attr[a]
      <4> HIDE DEF P, new
      <4> QED
        BY <3>1, <3>2 DEF Store
    <3>4. def_attr'[PageOf(a)] = def_attr[PageOf(a)]
      BY <3>1, <3>2, AddrInPage
    <3>5. (AttrOf(a))' = AttrOf(a)
      <4>1. (AttrOf(a))' = IF PageOf(a) \in created' THEN attr'[a] ELSE def_attr'[PageOf(a)]
        BY DEF AttrOf
      <4> HIDE DEF P
      <4> QED
        BY <4>1, <3>3, <3>4 DEF AttrOf
    <3> QED
      BY <3>5 DEF FlagsKept
  <2> QED
    BY <2>4, <2>5
<1>2. ASSUME NEW p \in Page, NEW h \in HostPage, SetPage(p, h)
      PROVE  FlagsKept(a)
  <2> DEFINE new == [b \in {At(p, o) : o \in Offset} |-> AttrOf(b) \cup {"VALID"}]
  <2>1. Store({p}, new) /\ def_attr' = def_attr
    BY <1>2 DEF SetPage
  <2>2. DOMAIN new \subseteq Addr
    BY AtInAddr
  <2>3. \A b \in DOMAIN new : PageOf(b) \in {p}
    BY SizeAssumption DEF At, PageOf, Page, Offset
  <2>4. \A b \in DOMAIN new : AttrOf(b) \subseteq new[b] /\ new[b] \cap Rwx = AttrOf(b) \cap Rwx
    BY DEF Rwx
  <2> HIDE DEF new
  <2> QED
    BY <2>1, <2>2, <2>3, <2>4, AddedFlagsKept
<1>3. ASSUME NEW p \in Page, ClearPage(p)
      PROVE  FlagsKept(a)
  BY <1>3, AddedFlagsKept DEF ClearPage
<1>4. CASE ResetAccessStats
  <2>1. ret'.op = "reset" /\ created' = created /\ def_attr' = def_attr
    BY <1>4 DEF ResetAccessStats
  <2>2. attr'[a] = IF PageOf(a) \in created THEN attr[a] \ Acc ELSE attr[a]
    BY <1>4 DEF ResetAccessStats
  <2>3. (AttrOf(a))' = IF PageOf(a) \in created' THEN attr'[a] ELSE def_attr'[PageOf(a)]
    BY DEF AttrOf
  <2> QED
    BY <2>1, <2>2, <2>3 DEF FlagsKept, AttrOf
<1> QED
  BY <1>1, <1>2, <1>3, <1>4 DEF Host

(* For every page size, number of pages and sequence of requests: flags    *)
(* change only where x86emu_set_perm() is asked to, apart from the marks   *)
(* an access adds and the reset drops.                                     *)
THEOREM PermissionsStable == Spec => FlagsStable
<1>1. TypeOK /\ [Next]_vars => [\A a \in Addr : FlagsKept(a)]_vars
  <2> SUFFICES ASSUME TypeOK, Next
               PROVE  \A a \in Addr : FlagsKept(a)
    OBVIOUS
  <2> QED
    BY MemIoKeepsFlags, HostKeepsFlags DEF Next
<1> QED
  BY <1>1, TypeCorrect, PTL DEF Spec, FlagsStable

-----------------------------------------------------------------------------
(* Protected data is never written. *)

(* A page and an offset are recovered from the address they make. *)
LEMMA AtSplit ==
  ASSUME NEW p \in Page, NEW o \in Offset
  PROVE  PageOf(At(p, o)) = p /\ OfsOf(At(p, o)) = o
<1>1. At(p, o) = p * PageSize + o /\ p \in Nat /\ o \in Nat /\ o < PageSize /\ PageSize \in Nat \ {0}
  BY SizeAssumption DEF At, Page, Offset
<1>2. (p * PageSize + o) \div PageSize = p /\ (p * PageSize + o) % PageSize = o
  BY <1>1
<1> QED
  BY <1>1, <1>2 DEF PageOf, OfsOf

(* On the fast path the bytes of the access follow one another in a page.  *)
LEMMA FastInPage ==
  ASSUME NEW a \in Addr, NEW n \in Size, NEW F, Fast(a, n, F), NEW i \in 0 .. (n - 1)
  PROVE  /\ OfsOf(a) + i \in Offset
         /\ Nth(a, i) = At(PageOf(a), OfsOf(a) + i)
         /\ F \subseteq AttrOf(Nth(a, i))
<1>1. PageOf(a) \in Page /\ OfsOf(a) \in Offset /\ a = At(PageOf(a), OfsOf(a))
  BY AddrInPage
<1>2. n \in Nat /\ i \in Nat /\ i <= n - 1 /\ OfsOf(a) < PageSize - (n - 1)
  BY DEF Size, Fast
<1>3. OfsOf(a) + i \in Offset
  BY <1>1, <1>2, SizeAssumption DEF Offset
<1>4. At(PageOf(a), OfsOf(a) + i) = a + i
  BY <1>1, <1>2, SizeAssumption DEF At, Page, Offset
<1>5. a + i \in Addr
  BY <1>1, <1>3, <1>4, AtInAddr
<1>6. (a + i) % (PageSize * NumPages) = a + i
  BY <1>5, SizeAssumption DEF Addr
<1>7. F \subseteq AttrOf(At(PageOf(a), OfsOf(a) + i))
  BY DEF Fast
<1> QED
  BY <1>3, <1>4, <1>6, <1>7 DEF Nth

(* It is enough that the bytes StoreData() stores are ones the request writes. *)
LEMMA StoredBytesWritten ==
  ASSUME TypeOK, NEW x \in Addr, NEW v, NEW I, I \subseteq Int, StoreData(x, v, I),
         \A i \in I : Writes(Nth(x, i))
  PROVE  DataProtected
<1>1. \A i \in I : Nth(x, i) \in Addr
  BY NthInAddr
<1>4. /\ \A a \in Addr : own'[a] # own[a] => OwnCell(a) /\ \E i \in I : Nth(x, i) = a
      /\ \A h \in HostPage, o \in Offset : host'[h][o] # host[h][o] =>
           \E i \in I : map[PageOf(Nth(x, i))] = h /\ OfsOf(Nth(x, i)) = o
  BY DEF StoreData, OwnCell, TypeOK
<1>2. \A a \in Addr : own'[a] # own[a] => OwnCell(a) /\ Writes(a)
  BY <1>4, Zenon
<1>3. ASSUME NEW h \in HostPage, NEW o \in Offset, host'[h][o] # host[h][o]
      PROVE  \E a \in Addr : map[PageOf(a)] = h /\ OfsOf(a) = o /\ Writes(a)
  <2>1. PICK i \in I : map[PageOf(Nth(x, i))] = h /\ OfsOf(Nth(x, i)) = o
    BY <1>3, <1>4
  <2> QED
    BY <1>1, <2>1
<1> QED
  BY <1>2, <1>3 DEF DataProtected

LEMMA NextProtectsData ==
  ASSUME TypeOK, Next
  PROVE  DataProtected
<1> USE InputAssumption
<1>1. ASSUME NEW x \in AddrArg, NEW n \in Size, NEW v \in Val, Write(x, n, v)
      PROVE  DataProtected
  <2> DEFINE ok(b) == Fast(x, n, {"W"}) \/ "W" \in AttrOf(b)
             I == {i \in 0 .. (n - 1) : ok(Nth(x, i))}
  <2>1. x \in Addr /\ StoreData(x, v, I) /\ I \subseteq Int
    BY <1>1 DEF Write, Size
  <2>2. ret'.op = "W" /\ ret'.addr = x /\ ret'.n = n
    BY <1>1 DEF Write
  <2>3. ASSUME NEW i \in I PROVE Writes(Nth(x, i))
    <3>1. Nth(x, i) \in Span(x, n)
      BY DEF Span
    <3>2. "W" \in AttrOf(Nth(x, i))
      BY <2>1, FastInPage
    <3> QED
      BY <2>2, <3>1, <3>2 DEF Writes
  <2> HIDE DEF I
  <2> QED
    BY <2>1, <2>3, StoredBytesWritten
<1>2. ASSUME NEW x \in AddrArg, NEW v \in Val, WriteNoPerm(x, v)
      PROVE  DataProtected
  <2>1. x \in Addr /\ StoreData(x, v, {0}) /\ ret'.op = "Wnoperm" /\ ret'.addr = x
    BY <1>2 DEF WriteNoPerm
  <2>2. Nth(x, 0) = x
    BY <2>1, SizeAssumption DEF Nth, Addr
  <2>3. \A i \in {0} : Writes(Nth(x, i))
    BY <2>1, <2>2 DEF Writes
  <2> QED
    BY <2>1, <2>3, StoredBytesWritten
<1>3. ASSUME UNCHANGED <<own, host>>
      PROVE  DataProtected
  BY <1>3 DEF DataProtected
<1>4. CASE \E x \in AddrArg, n \in Size : Read(x, n) \/ Execute(x, n)
  BY <1>3, <1>4 DEF Read, Execute
<1>5. CASE \E x \in AddrArg : ReadNoPerm(x)
  BY <1>3, <1>5 DEF ReadNoPerm
<1>6. CASE Host
  BY <1>3, <1>6 DEF Host, SetPerm, SetPage, ClearPage, ResetAccessStats
<1> QED
  BY <1>1, <1>2, <1>4, <1>5, <1>6 DEF Next, MemIo

(* For every page size, number of pages and sequence of requests: a byte   *)
(* changes only when it is writable and part of the request served, in the *)
(* buffer that is mapped there.                                            *)
THEOREM OnlyWritableDataChanges == Spec => ProtectedDataUnchanged
<1>1. TypeOK /\ [Next]_vars => [DataProtected]_vars
  BY NextProtectsData
<1> QED
  BY <1>1, TypeCorrect, PTL DEF Spec, ProtectedDataUnchanged

-----------------------------------------------------------------------------
(* Reads answer with what is stored. *)

(* The flags a fetch adds do not change what it says of the byte. *)
LEMMA FetchSays ==
  ASSUME NEW A
  PROVE  /\ "R" \in FetchAttr(A, "R", "accR") <=> "R" \in A
         /\ FetchBad(A, "R") <=> ~({"R", "VALID", "accR"} \subseteq FetchAttr(A, "R", "accR"))
BY DEF FetchAttr, FetchBad

(* A request that leaves the buffers alone leaves the data alone. *)
LEMMA DataKept ==
  ASSUME UNCHANGED <<own, map, host>>
  PROVE  \A p, o : Data(p, o)' = Data(p, o)
BY DEF Data

LEMMA ReadAnswers ==
  ASSUME TypeOK, NEW a \in Addr, NEW n \in Size, Read(a, n)
  PROVE  ReadAnswer'
<1> DEFINE S == Span(a, n)
           fast == Fast(a, n, {"R", "VALID"})
           new == [b \in S |-> IF fast THEN AttrOf(b) \cup {"accR"}
                               ELSE FetchAttr(AttrOf(b), "R", "accR")]
           good(b) == {"R", "VALID", "accR"} \subseteq new[b]
<1>1. S \subseteq Addr /\ \A b \in S : PageOf(b) \in Pages(S)
  BY SpanInAddr DEF Size, Pages
<1>2. \A b \in S : (AttrOf(b))' = new[b]
  <2>1. Store(Pages(S), new) /\ def_attr' = def_attr /\ DOMAIN new = S
    BY DEF Read
  <2> HIDE DEF new, S
  <2> QED
    BY <1>1, <2>1, StoreAttrOf
<1>3. ASSUME fast
      PROVE  \A b \in S : {"R", "VALID"} \subseteq AttrOf(b)
  BY <1>3, FastInPage DEF Span
<1>4. \A b \in S : "R" \in new[b] <=> "R" \in AttrOf(b)
  BY FetchSays
<1>5. invalid' = (\E b \in S : ~good(b))
  <2>1. invalid' = (~fast /\ \E b \in S : FetchBad(AttrOf(b), "R"))
    BY DEF Read
  <2>2. CASE fast
    <3>1. \A b \in S : good(b)
      BY <1>3, <2>2
    <3> QED
      BY <2>1, <2>2, <3>1, Zenon
  <2>3. CASE ~fast
    <3>1. \A b \in S : FetchBad(AttrOf(b), "R") <=> ~good(b)
      BY <2>3, FetchSays
    <3> QED
      BY <2>1, <2>3, <3>1, Zenon
  <2> QED
    BY <2>2, <2>3
<1>6. ASSUME NEW i \in 0 .. (n - 1)
      PROVE  ret'.val[i] = IF "R" \in AttrOf(Nth(a, i))
                           THEN Data(PageOf(Nth(a, i)), OfsOf(Nth(a, i))) ELSE 255
  <2>1. ret'.val[i] = IF fast THEN Data(PageOf(a), OfsOf(a) + i) ELSE FetchByte(Nth(a, i), "R")
    BY DEF Read
  <2>2. CASE fast
    <3>1. /\ OfsOf(a) + i \in Offset
          /\ Nth(a, i) = At(PageOf(a), OfsOf(a) + i)
          /\ "R" \in AttrOf(Nth(a, i))
      BY <2>2, FastInPage
    <3>2. PageOf(Nth(a, i)) = PageOf(a) /\ OfsOf(Nth(a, i)) = OfsOf(a) + i
      BY <3>1, AddrInPage, AtSplit
    <3> QED
      BY <2>1, <2>2, <3>1, <3>2
  <2>3. CASE ~fast
    BY <2>1, <2>3 DEF FetchByte
  <2> QED
    BY <2>2, <2>3
<1>7. \A i \in 0 .. (n - 1) : Nth(a, i) \in S
  BY DEF Span
<1>8. ret'.op = "R" /\ ret'.addr = a /\ ret'.n = n
  BY DEF Read
<1>9. \A p, o : Data(p, o)' = Data(p, o)
  BY DataKept DEF Read
<1> QED
  BY <1>2, <1>4, <1>5, <1>6, <1>7, <1>8, <1>9 DEF ReadAnswer

(* For every page size, number of pages and sequence of requests: a read   *)
(* that vm_memio() reports as good, on the fast path or byte by byte,      *)
(* touched readable, initialised bytes only and returned what is stored.   *)
THEOREM ReadsAnswer == Spec => []ReadAnswer
<1>1. Init => ReadAnswer
  BY DEF Init, ReadAnswer
<1>2. TypeOK /\ ReadAnswer /\ [Next]_vars => ReadAnswer'
  <2> SUFFICES ASSUME TypeOK, ReadAnswer, [Next]_vars
               PROVE  ReadAnswer'
    OBVIOUS
  <2>1. CASE \E a \in AddrArg, n \in Size : Read(a, n)
    BY <2>1, ReadAnswers, InputAssumption
  <2>2. CASE ret'.op # "R"
    BY <2>2 DEF ReadAnswer
  <2>3. CASE UNCHANGED vars
    BY <2>3 DEF vars, ReadAnswer, AttrOf, Data, Span, Nth, PageOf, OfsOf, At
  <2>4. CASE Next /\ ~\E a \in AddrArg, n \in Size : Read(a, n)
    <3>1. \A a, n, v : Execute(a, n) \/ Write(a, n, v) \/ ReadNoPerm(a) \/ WriteNoPerm(a, v)
                       => ret'.op # "R"
      <4> SUFFICES ASSUME NEW a, NEW n, NEW v,
                          Execute(a, n) \/ Write(a, n, v) \/ ReadNoPerm(a) \/ WriteNoPerm(a, v)
                   PROVE  ret'.op # "R"
        OBVIOUS
      <4>1. CASE Execute(a, n)
        BY <4>1 DEF Execute
      <4>2. CASE Write(a, n, v)
        BY <4>2 DEF Write
      <4>3. CASE ReadNoPerm(a)
        BY <4>3 DEF ReadNoPerm
      <4>4. CASE WriteNoPerm(a, v)
        BY <4>4 DEF WriteNoPerm
      <4> QED
        BY <4>1, <4>2, <4>3, <4>4
    <3>2. \A a, e, p, h : SetPerm(a, e, p) \/ SetPage(p, h) \/ ClearPage(p) \/ ResetAccessStats
                          => ret'.op # "R"
      BY DEF SetPerm, SetPage, ClearPage, ResetAccessStats
    <3>3. ret'.op # "R"
      BY <3>1, <3>2, <2>4, Zenon DEF Next, MemIo, Host
    <3> QED
      BY <3>3, <2>2
  <2> QED
    BY <2>1, <2>3, <2>4
<1> QED
  BY <1>1, <1>2, TypeCorrect, PTL DEF Spec

-----------------------------------------------------------------------------
(***************************************************************************)
(* mem.c implements a flat memory, for every size and every sequence of    *)
(* requests that stays clear of two limits of the code: a permission range *)
(* that starts at 0 ends in page 0, and no default attribute carries       *)
(* access statistics.                                                      *)
(***************************************************************************)

RangesSupported == \A r \in RangeArg : r[1] = 0 => r[2] < PageSize

StatsFree == DefPerm \cap Acc = {} /\ \A perm \in PermArg : perm \cap Acc = {}

(* Statistics are kept per byte only, so the reset finds them all. *)
DefaultsStatsFree == \A p \in Page : def_attr[p] \cap Acc = {}

-----------------------------------------------------------------------------
(* A permission range is its head, its whole pages and its tail. *)

LEMMA LaterPage ==
  ASSUME NEW s \in Addr, NEW a \in Addr, s <= a, PageOf(a) # PageOf(s)
  PROVE  At(PageOf(s) + 1, 0) <= a
<1>1. PageOf(s) \in Page /\ OfsOf(s) \in Offset /\ s = At(PageOf(s), OfsOf(s))
  BY AddrInPage
<1>2. PageOf(a) \in Page /\ OfsOf(a) \in Offset /\ a = At(PageOf(a), OfsOf(a))
  BY AddrInPage
<1>3. PageOf(s) + 1 <= PageOf(a)
  <2>1. CASE PageOf(a) + 1 <= PageOf(s)
    <3>1. (PageOf(a) + 1) * PageSize <= PageOf(s) * PageSize
      BY <1>1, <1>2, <2>1, SizeAssumption DEF Page
    <3> QED
      BY <1>1, <1>2, <3>1, SizeAssumption DEF At, Page, Offset
  <2> QED
    BY <1>1, <1>2, <2>1 DEF Page
<1>4. (PageOf(s) + 1) * PageSize <= PageOf(a) * PageSize
  BY <1>1, <1>2, <1>3, SizeAssumption DEF Page
<1> QED
  BY <1>1, <1>2, <1>4, SizeAssumption DEF At, Page, Offset

LEMMA RangeSplit ==
  ASSUME NEW s \in Addr, NEW e \in Addr, s <= e, s = 0 => e < PageSize, NEW a \in Addr
  PROVE  a \in s .. e <=> \/ a \in Head(s, e) \cup Tail(s, e)
                          \/ PageOf(a) \in WholePages(s, e)
<1>1. ASSUME a \in Head(s, e) \cup Tail(s, e) PROVE a \in s .. e
  BY <1>1, RestInRange
<1>2. ASSUME PageOf(a) \in WholePages(s, e) PROVE a \in s .. e
  BY <1>2, WholePageInRange
<1>3. ASSUME a \in s .. e, a \notin Head(s, e), PageOf(a) \notin WholePages(s, e)
      PROVE  a \in Tail(s, e)
  <2>1. s \in Int /\ e \in Int /\ a \in Int /\ s <= a /\ a <= e
    BY <1>3 DEF Addr
  <2>2. AfterHead(s) <= a
    <3>1. CASE OfsOf(s) = 0
      BY <3>1, <2>1 DEF AfterHead
    <3>2. CASE OfsOf(s) # 0
      <4>1. PageOf(a) # PageOf(s)
        BY <3>2, <1>3 DEF Head
      <4> QED
        BY <3>2, <4>1, <2>1, LaterPage DEF AfterHead
    <3> QED
      BY <3>1, <3>2
  <2>3. 0 \notin WholePages(s, e)
    <3> SUFFICES ASSUME 0 \in WholePages(s, e) PROVE FALSE
      OBVIOUS
    <3>1. At(0, 0) >= AfterHead(s)
      BY DEF WholePages
    <3>2. s = 0
      BY <3>1, AfterHeadBound, SizeAssumption DEF At, Addr
    <3>3. a < PageSize
      BY <3>2, <2>1, SizeAssumption DEF Addr
    <3>4. PageOf(a) = 0
      BY <3>3, <2>1, <3>2, SizeAssumption DEF PageOf
    <3> QED
      BY <3>4, <1>3
  <2>4. AfterHead(s) \in Int
    BY AfterHeadBound
  <2> QED
    BY <2>1, <2>2, <2>3, <2>4, <1>3 DEF Tail
<1> QED
  BY <1>1, <1>2, <1>3

-----------------------------------------------------------------------------
(* The definitions the two modules share. *)
LEMMA SameArithmetic ==
  /\ Flat!Addr = Addr /\ Flat!Page = Page /\ Flat!Offset = Offset /\ Flat!Acc = Acc
  /\ \A a : Flat!PageOf(a) = PageOf(a) /\ Flat!OfsOf(a) = OfsOf(a)
  /\ \A a, i : Flat!Nth(a, i) = Nth(a, i)
  /\ \A a, n : Flat!Span(a, n) = Span(a, n)
BY DEF Flat!Addr, Flat!Page, Flat!Offset, Flat!Acc, Flat!PageOf, Flat!OfsOf, Flat!Nth,
       Flat!Span, Flat!Top, Addr, Page, Offset, Acc, PageOf, OfsOf, Nth, Span

(* The byte the processor sees. *)
LEMMA SameData ==
  ASSUME NEW p \in Page, NEW o \in Offset
  PROVE  Data(p, o) = Flat!Mem(At(p, o))
BY AtSplit, SameArithmetic DEF Data, Flat!Mem
-----------------------------------------------------------------------------
(* Every request is the flat memory's request. *)

(* What Store() does to the attributes, seen as one function. *)
LEMMA FlatAttr ==
  ASSUME TypeOK, NEW P, NEW new, Store(P, new), def_attr' = def_attr,
         DOMAIN new \subseteq Addr, \A b \in DOMAIN new : PageOf(b) \in P \cup created
  PROVE  [a \in Addr |-> AttrOf(a)]' =
           [a \in Addr |-> IF a \in DOMAIN new THEN new[a] ELSE AttrOf(a)]
<1>1. \A a \in Addr : (AttrOf(a))' = IF a \in DOMAIN new THEN new[a] ELSE AttrOf(a)
  BY StoreAttrOf
<1>2. Addr' = Addr
  BY DEF Addr
<1> QED
  BY <1>1, <1>2

LEMMA ReadRefines ==
  ASSUME TypeOK, NEW a \in Addr, NEW n \in Size, Read(a, n)
  PROVE  Flat!Fetch("R", "R", "accR", a, n)
<1> DEFINE S == Span(a, n)
           fast == Fast(a, n, {"R", "VALID"})
           new == [b \in S |-> IF fast THEN AttrOf(b) \cup {"accR"}
                               ELSE FetchAttr(AttrOf(b), "R", "accR")]
<1>1. S \subseteq Addr /\ \A b \in S : PageOf(b) \in Pages(S)
  BY SpanInAddr DEF Size, Pages
<1>2. Store(Pages(S), new) /\ def_attr' = def_attr /\ DOMAIN new = S
  BY DEF Read
<1>3. [b \in Addr |-> AttrOf(b)]' = [b \in Addr |-> IF b \in S THEN new[b] ELSE AttrOf(b)]
  <2> HIDE DEF new, S
  <2> QED
    BY <1>1, <1>2, FlatAttr
<1>4. fast => \A b \in S : {"R", "VALID"} \subseteq AttrOf(b)
  BY FastInPage DEF Span
<1>5. \A b \in S : new[b] = FetchAttr(AttrOf(b), "R", "accR")
  BY <1>4 DEF FetchAttr
<1>6. [b \in Addr |-> AttrOf(b)]' = [b \in Addr |->
        IF b \notin Flat!Span(a, n) \/ "R" \notin [x \in Addr |-> AttrOf(x)][b]
        THEN [x \in Addr |-> AttrOf(x)][b]
        ELSE IF "VALID" \in [x \in Addr |-> AttrOf(x)][b]
        THEN [x \in Addr |-> AttrOf(x)][b] \cup {"accR"}
        ELSE [x \in Addr |-> AttrOf(x)][b] \cup {"accR", "accINVALID"}]
  BY <1>3, <1>5, SameArithmetic DEF FetchAttr
<1>7. invalid' = (\E b \in S : ~({"R", "VALID"} \subseteq AttrOf(b)))
  BY <1>4 DEF Read, FetchBad
<1>8. \A i \in 0 .. (n - 1) :
        (IF fast THEN Data(PageOf(a), OfsOf(a) + i) ELSE FetchByte(Nth(a, i), "R"))
        = IF "R" \in AttrOf(Nth(a, i)) THEN Flat!Mem(Nth(a, i)) ELSE 255
  <2> SUFFICES ASSUME NEW i \in 0 .. (n - 1)
               PROVE  (IF fast THEN Data(PageOf(a), OfsOf(a) + i) ELSE FetchByte(Nth(a, i), "R"))
                      = IF "R" \in AttrOf(Nth(a, i)) THEN Flat!Mem(Nth(a, i)) ELSE 255
    OBVIOUS
  <2>1. Nth(a, i) \in Addr /\ PageOf(a) \in Page
    BY NthInAddr, AddrInPage DEF Size
  <2>2. CASE fast
    <3>1. OfsOf(a) + i \in Offset /\ Nth(a, i) = At(PageOf(a), OfsOf(a) + i) /\ "R" \in AttrOf(Nth(a, i))
      BY <2>2, FastInPage
    <3> QED
      BY <2>1, <2>2, <3>1, SameData
  <2>3. CASE ~fast
    BY <2>1, <2>3, AddrInPage, SameData DEF FetchByte
  <2> QED
    BY <2>2, <2>3
<1>9. ret' = [op |-> "R", addr |-> a, n |-> n,
              val |-> [i \in 0 .. (n - 1) |->
                 IF "R" \in [x \in Addr |-> AttrOf(x)][Flat!Nth(a, i)]
                 THEN Flat!Mem(Flat!Nth(a, i)) ELSE 255]]
  <2>1. \A i \in 0 .. (n - 1) : Nth(a, i) \in Addr
    BY NthInAddr DEF Size
  <2>2. \A i \in 0 .. (n - 1) :
          (IF fast THEN Data(PageOf(a), OfsOf(a) + i) ELSE FetchByte(Nth(a, i), "R"))
          = IF "R" \in [x \in Addr |-> AttrOf(x)][Flat!Nth(a, i)]
            THEN Flat!Mem(Flat!Nth(a, i)) ELSE 255
    BY <1>8, <2>1, SameArithmetic
  <2>3. ret' = [op |-> "R", addr |-> a, n |-> n,
                val |-> [i \in 0 .. (n - 1) |->
                   IF fast THEN Data(PageOf(a), OfsOf(a) + i) ELSE FetchByte(Nth(a, i), "R")]]
    BY DEF Read
  <2>4. [i \in 0 .. (n - 1) |->
           IF fast THEN Data(PageOf(a), OfsOf(a) + i) ELSE FetchByte(Nth(a, i), "R")]
        = [i \in 0 .. (n - 1) |-> IF "R" \in [x \in Addr |-> AttrOf(x)][Flat!Nth(a, i)]
             THEN Flat!Mem(Flat!Nth(a, i)) ELSE 255]
    <3> HIDE DEF fast
    <3> QED
      BY <2>2
  <2> QED
    BY <2>3, <2>4
<1>10. invalid' = (\E b \in Flat!Span(a, n) : ~({"R", "VALID"} \subseteq [x \in Addr |-> AttrOf(x)][b]))
  BY <1>1, <1>7, SameArithmetic
<1> QED
  BY <1>6, <1>9, <1>10, SameArithmetic DEF Flat!Fetch, Flat!Answer, Read

LEMMA ExecuteRefines ==
  ASSUME TypeOK, NEW a \in Addr, NEW n \in Size, Execute(a, n)
  PROVE  Flat!Fetch("X", "X", "accX", a, n)
<1> DEFINE S == Span(a, n)
           new == [b \in S |-> FetchAttr(AttrOf(b), "X", "accX")]
<1>1. S \subseteq Addr /\ \A b \in S : PageOf(b) \in Pages(S)
  BY SpanInAddr DEF Size, Pages
<1>2. Store(Pages(S), new) /\ def_attr' = def_attr /\ DOMAIN new = S
  BY DEF Execute
<1>3. [b \in Addr |-> AttrOf(b)]' = [b \in Addr |-> IF b \in S THEN new[b] ELSE AttrOf(b)]
  <2> HIDE DEF new, S
  <2> QED
    BY <1>1, <1>2, FlatAttr
<1>4. [b \in Addr |-> AttrOf(b)]' = [b \in Addr |->
        IF b \notin Flat!Span(a, n) \/ "X" \notin [x \in Addr |-> AttrOf(x)][b]
        THEN [x \in Addr |-> AttrOf(x)][b]
        ELSE IF "VALID" \in [x \in Addr |-> AttrOf(x)][b]
        THEN [x \in Addr |-> AttrOf(x)][b] \cup {"accX"}
        ELSE [x \in Addr |-> AttrOf(x)][b] \cup {"accX", "accINVALID"}]
  BY <1>3, SameArithmetic DEF FetchAttr
<1>5. invalid' = (\E b \in Flat!Span(a, n) : ~({"X", "VALID"} \subseteq [x \in Addr |-> AttrOf(x)][b]))
  BY <1>1, SameArithmetic DEF Execute, FetchBad
<1>6. \A i \in 0 .. (n - 1) :
        FetchByte(Nth(a, i), "X") = IF "X" \in [x \in Addr |-> AttrOf(x)][Flat!Nth(a, i)]
                                    THEN Flat!Mem(Flat!Nth(a, i)) ELSE 255
  <2> SUFFICES ASSUME NEW i \in 0 .. (n - 1)
               PROVE  FetchByte(Nth(a, i), "X") =
                        IF "X" \in [x \in Addr |-> AttrOf(x)][Nth(a, i)]
                        THEN Flat!Mem(Nth(a, i)) ELSE 255
    BY SameArithmetic
  <2>1. Nth(a, i) \in Addr
    BY NthInAddr DEF Size
  <2> QED
    BY <2>1, AddrInPage, SameData DEF FetchByte
<1>7. [i \in 0 .. (n - 1) |-> FetchByte(Nth(a, i), "X")]
      = [i \in 0 .. (n - 1) |-> IF "X" \in [x \in Addr |-> AttrOf(x)][Flat!Nth(a, i)]
           THEN Flat!Mem(Flat!Nth(a, i)) ELSE 255]
  BY <1>6
<1>8. ret' = [op |-> "X", addr |-> a, n |-> n,
              val |-> [i \in 0 .. (n - 1) |-> FetchByte(Nth(a, i), "X")]]
  BY DEF Execute
<1> QED
  BY <1>4, <1>5, <1>7, <1>8, SameArithmetic DEF Flat!Fetch, Flat!Answer, Execute

(* Storing the bytes I is the flat memory's Put() of the allowed ones.     *)
LEMMA WriteRefines ==
  ASSUME TypeOK, NEW a \in Addr, NEW n \in Size, NEW v \in Val, Write(a, n, v)
  PROVE  Flat!Write(a, n, v)
<1> DEFINE S == Span(a, n)
           fast == Fast(a, n, {"W"})
           ok(b) == fast \/ "W" \in AttrOf(b)
           new == [b \in S |-> AttrOf(b) \cup
                     (IF ok(b) THEN {"VALID", "accW"} ELSE {"accINVALID"})]
           I == {i \in 0 .. (n - 1) : ok(Nth(a, i))}
           J == {i \in 0 .. (n - 1) : "W" \in [x \in Addr |-> AttrOf(x)][Flat!Nth(a, i)]}
<1>1. S \subseteq Addr /\ \A b \in S : PageOf(b) \in Pages(S)
  BY SpanInAddr DEF Size, Pages
<1>2. \A b \in S : ok(b) <=> "W" \in AttrOf(b)
  BY FastInPage DEF Span
<1>3. Store(Pages(S), new) /\ def_attr' = def_attr /\ DOMAIN new = S /\ StoreData(a, v, I)
  BY DEF Write
<1>4. [b \in Addr |-> AttrOf(b)]' = [b \in Addr |-> IF b \in S THEN new[b] ELSE AttrOf(b)]
  <2> HIDE DEF new, S
  <2> QED
    BY <1>1, <1>3, FlatAttr
<1>5. [b \in Addr |-> AttrOf(b)]' = [b \in Addr |->
        IF b \notin Flat!Span(a, n) THEN [x \in Addr |-> AttrOf(x)][b]
        ELSE IF "W" \in [x \in Addr |-> AttrOf(x)][b]
        THEN [x \in Addr |-> AttrOf(x)][b] \cup {"VALID", "accW"}
        ELSE [x \in Addr |-> AttrOf(x)][b] \cup {"accINVALID"}]
  <2> HIDE DEF fast
  <2> QED
    BY <1>2, <1>4, SameArithmetic
<1>6. I = J
  <2>1. \A i \in 0 .. (n - 1) : Nth(a, i) \in S /\ Nth(a, i) \in Addr
    BY NthInAddr DEF Span, Size
  <2> HIDE DEF fast, S
  <2> QED
    BY <1>2, <2>1, SameArithmetic
<1>7. StoreData(a, v, J)
  BY <1>3, <1>6
<1>8. invalid' = (\E b \in Flat!Span(a, n) : ~("W" \in [x \in Addr |-> AttrOf(x)][b]))
  <2>1. invalid' = (\E b \in S : ~ok(b))
    BY DEF Write
  <2> HIDE DEF fast
  <2> QED
    BY <2>1, <1>1, <1>2, SameArithmetic
<1>9. ret' = [op |-> "W", addr |-> a, n |-> n, val |-> <<>>] /\ map' = map
  BY DEF Write
<1>10. /\ own' = [b \in Flat!Addr |->
              IF map[Flat!PageOf(b)] = Own /\ \E i \in J : Flat!Nth(a, i) = b
              THEN v[CHOOSE i \in J : Flat!Nth(a, i) = b] ELSE own[b]]
       /\ host' = [h \in HostPage |-> [o \in Flat!Offset |->
              IF \E i \in J : map[Flat!PageOf(Flat!Nth(a, i))] = h /\ Flat!OfsOf(Flat!Nth(a, i)) = o
              THEN v[CHOOSE i \in J : map[Flat!PageOf(Flat!Nth(a, i))] = h
                                      /\ Flat!OfsOf(Flat!Nth(a, i)) = o]
              ELSE host[h][o]]]
  <2> HIDE DEF J
  <2> QED
    BY <1>7 DEF StoreData, Flat!Addr, Flat!Offset, Flat!PageOf, Flat!OfsOf, Flat!Nth, Flat!Top,
                Addr, Offset, PageOf, OfsOf, Nth
<1>11. [b \in Addr |-> AttrOf(b)]' = [b \in Flat!Addr |->
        IF b \notin Flat!Span(a, n) THEN [x \in Addr |-> AttrOf(x)][b]
        ELSE IF "W" \in [x \in Addr |-> AttrOf(x)][b]
        THEN [x \in Addr |-> AttrOf(x)][b] \cup {"VALID", "accW"}
        ELSE [x \in Addr |-> AttrOf(x)][b] \cup {"accINVALID"}]
  BY <1>5, SameArithmetic
<1> QED
  BY <1>11, <1>8, <1>9, <1>10 DEF Flat!Write, Flat!Put, Flat!Answer

LEMMA ReadNoPermRefines ==
  ASSUME TypeOK, NEW a \in Addr, ReadNoPerm(a)
  PROVE  Flat!ReadNoPerm(a)
<1>1. Store({PageOf(a)}, <<>>) /\ def_attr' = def_attr
  BY DEF ReadNoPerm
<1>2. [b \in Addr |-> AttrOf(b)]' = [b \in Addr |-> AttrOf(b)]
  BY <1>1, FlatAttr
<1>3. Data(PageOf(a), OfsOf(a)) = Flat!Mem(a)
  BY AddrInPage, SameData
<1>4. ret' = [op |-> "Rnoperm", addr |-> a, n |-> 1, val |-> [i \in {0} |-> Flat!Mem(a)]]
  BY <1>3 DEF ReadNoPerm
<1> QED
  BY <1>2, <1>4 DEF ReadNoPerm, Flat!ReadNoPerm, Flat!Answer

LEMMA WriteNoPermRefines ==
  ASSUME TypeOK, NEW a \in Addr, NEW v \in Val, WriteNoPerm(a, v)
  PROVE  Flat!WriteNoPerm(a, v)
<1> DEFINE new == [b \in {a} |-> AttrOf(b) \cup {"VALID", "accW"}]
           J == {i \in 0 .. (1 - 1) : TRUE}
<1>1. Store({PageOf(a)}, new) /\ def_attr' = def_attr /\ DOMAIN new = {a} /\ StoreData(a, v, {0})
  BY DEF WriteNoPerm
<1>2. [b \in Addr |-> AttrOf(b)]' = [b \in Addr |-> IF b \in {a} THEN new[b] ELSE AttrOf(b)]
  <2> HIDE DEF new
  <2> QED
    BY <1>1, FlatAttr
<1>3. [b \in Addr |-> AttrOf(b)]' =
        [[b \in Addr |-> AttrOf(b)] EXCEPT ![a] = @ \cup {"VALID", "accW"}]
  BY <1>2
<1>4. J = {0}
  OBVIOUS
<1>5. StoreData(a, v, J)
  BY <1>1, <1>4
<1>6. /\ own' = [b \in Flat!Addr |->
              IF map[Flat!PageOf(b)] = Own /\ \E i \in J : Flat!Nth(a, i) = b
              THEN v[CHOOSE i \in J : Flat!Nth(a, i) = b] ELSE own[b]]
      /\ host' = [h \in HostPage |-> [o \in Flat!Offset |->
              IF \E i \in J : map[Flat!PageOf(Flat!Nth(a, i))] = h /\ Flat!OfsOf(Flat!Nth(a, i)) = o
              THEN v[CHOOSE i \in J : map[Flat!PageOf(Flat!Nth(a, i))] = h
                                      /\ Flat!OfsOf(Flat!Nth(a, i)) = o]
              ELSE host[h][o]]]
  <2> HIDE DEF J
  <2> QED
    BY <1>5 DEF StoreData, Flat!Addr, Flat!Offset, Flat!PageOf, Flat!OfsOf, Flat!Nth, Flat!Top,
                Addr, Offset, PageOf, OfsOf, Nth
<1>7. invalid' = FALSE /\ map' = map
      /\ ret' = [op |-> "Wnoperm", addr |-> a, n |-> 1, val |-> <<>>]
  BY DEF WriteNoPerm
<1> QED
  BY <1>3, <1>6, <1>7 DEF Flat!WriteNoPerm, Flat!Put, Flat!Answer

LEMMA SetPermRefines ==
  ASSUME TypeOK, RangesSupported,
         NEW r \in RangeArg, NEW perm \in PermArg, SetPerm(r[1], r[2], perm)
  PROVE  Flat!SetPerm(r[1], r[2], perm)
<1> DEFINE s == r[1]  e == r[2]
           W == WholePages(s, e)
           bytes == Head(s, e) \cup Tail(s, e)
           P == Pages(bytes) \cup Wrapped(s, e)
           new == [b \in bytes \cup {x \in Addr : PageOf(x) \in W \cap created} |-> perm]
<1>1. s \in Addr /\ e \in Addr /\ s <= e /\ (s = 0 => e < PageSize)
  BY InputAssumption DEF SetPerm, RangesSupported
<1>2. \A a \in Addr : a \in s .. e <=> a \in bytes \/ PageOf(a) \in W
  BY <1>1, RangeSplit
<1>3. Store(P, new) /\ def_attr' = [p \in Page |-> IF p \in W THEN perm ELSE def_attr[p]]
  BY DEF SetPerm
<1>4. DOMAIN new = bytes \cup {x \in Addr : PageOf(x) \in W \cap created}
      /\ \A x \in DOMAIN new : new[x] = perm
  OBVIOUS
<1>5. ASSUME NEW a \in Addr
      PROVE  (AttrOf(a))' = IF a \in s .. e THEN perm ELSE AttrOf(a)
  <2>1. created' = created \cup P
        /\ attr'[a] = IF a \in DOMAIN new THEN perm
                      ELSE IF PageOf(a) \in P THEN AttrOf(a) ELSE attr[a]
    <3> HIDE DEF P, new
    <3> QED
      BY <1>3, <1>4 DEF Store
  <2>2. def_attr'[PageOf(a)] = IF PageOf(a) \in W THEN perm ELSE def_attr[PageOf(a)]
    BY <1>3, AddrInPage
  <2>3. (AttrOf(a))' = IF PageOf(a) \in created' THEN attr'[a] ELSE def_attr'[PageOf(a)]
    BY DEF AttrOf
  <2>4. a \in bytes => PageOf(a) \in P
    BY DEF Pages
  <2>5. PageOf(a) \in W => PageOf(a) \notin P \/ a \in bytes \/ PageOf(a) \in created
    <3> SUFFICES ASSUME PageOf(a) \in W, PageOf(a) \in P
                 PROVE  FALSE
      OBVIOUS
    <3>1. CASE PageOf(a) \in Wrapped(s, e)
      BY <3>1 DEF Wrapped
    <3>2. CASE PageOf(a) \in Pages(bytes)
      <4>1. PICK b \in bytes : PageOf(b) = PageOf(a)
        BY <3>2 DEF Pages
      <4>2. b \in Head(s, e)
        BY <4>1 DEF Tail
      <4>3. PageOf(a) = PageOf(s) /\ OfsOf(s) # 0
        BY <4>1, <4>2 DEF Head
      <4>4. At(PageOf(a), 0) >= At(PageOf(s) + 1, 0)
        BY <4>3 DEF WholePages, AfterHead
      <4>5. PageOf(s) \in Int /\ PageSize \in Int /\ PageSize > 0
        BY <1>1, AddrInPage, SizeAssumption DEF Page
      <4> QED
        BY <4>3, <4>4, <4>5 DEF At
    <3> QED
      BY <3>1, <3>2
  <2> HIDE DEF bytes, W, P
  <2> QED
    BY <1>2, <1>4, <2>1, <2>2, <2>3, <2>4, <2>5 DEF AttrOf
<1>6. [a \in Addr |-> AttrOf(a)]' =
        [a \in Flat!Addr |-> IF a \in s .. e THEN perm ELSE [x \in Addr |-> AttrOf(x)][a]]
  <2>1. Addr' = Addr
    BY DEF Addr
  <2> HIDE DEF s, e
  <2> QED
    BY <1>5, <2>1, SameArithmetic
<1> QED
  BY <1>1, <1>6 DEF SetPerm, Flat!SetPerm, Flat!Answer

LEMMA SetPageRefines ==
  ASSUME TypeOK, NEW p \in Page, NEW h \in HostPage, SetPage(p, h)
  PROVE  Flat!SetPage(p, h)
<1> DEFINE new == [b \in {At(p, o) : o \in Offset} |-> AttrOf(b) \cup {"VALID"}]
<1>1. \A b \in Addr : b \in DOMAIN new <=> PageOf(b) = p
  BY AddrInPage, AtSplit
<1>2. DOMAIN new \subseteq Addr
  BY AtInAddr
<1>3. Store({p}, new) /\ def_attr' = def_attr
  BY DEF SetPage
<1>4. [b \in Addr |-> AttrOf(b)]' = [b \in Addr |-> IF b \in DOMAIN new THEN new[b] ELSE AttrOf(b)]
  <2> HIDE DEF new
  <2> QED
    BY <1>1, <1>2, <1>3, FlatAttr
<1>5. [b \in Addr |-> AttrOf(b)]' =
        [b \in Flat!Addr |-> IF Flat!PageOf(b) = p THEN [x \in Addr |-> AttrOf(x)][b] \cup {"VALID"}
                             ELSE [x \in Addr |-> AttrOf(x)][b]]
  BY <1>1, <1>4, SameArithmetic
<1>6. At(p, 0) = p * PageSize
  BY SizeAssumption DEF At, Page
<1> QED
  BY <1>5, <1>6 DEF SetPage, Flat!SetPage, Flat!Answer

LEMMA ClearPageRefines ==
  ASSUME TypeOK, NEW p \in Page, ClearPage(p)
  PROVE  Flat!ClearPage(p)
<1>1. [b \in Addr |-> AttrOf(b)]' = [b \in Addr |-> AttrOf(b)]
  BY FlatAttr DEF ClearPage
<1>2. At(p, 0) = p * PageSize
  BY SizeAssumption DEF At, Page
<1> QED
  BY <1>1, <1>2 DEF ClearPage, Flat!ClearPage, Flat!Answer

LEMMA ResetRefines ==
  ASSUME TypeOK, DefaultsStatsFree, ResetAccessStats
  PROVE  Flat!ResetAccessStats
<1>1. ASSUME NEW a \in Addr
      PROVE  (AttrOf(a))' = AttrOf(a) \ Acc
  <2>1. (AttrOf(a))' = IF PageOf(a) \in created THEN attr[a] \ Acc ELSE def_attr[PageOf(a)]
    BY DEF AttrOf, ResetAccessStats
  <2>2. def_attr[PageOf(a)] = def_attr[PageOf(a)] \ Acc
    BY AddrInPage DEF DefaultsStatsFree
  <2> QED
    BY <2>1, <2>2 DEF AttrOf
<1>2. [a \in Addr |-> AttrOf(a)]' =
        [a \in Flat!Addr |-> [x \in Addr |-> AttrOf(x)][a] \ Flat!Acc]
  <2>1. Addr' = Addr
    BY DEF Addr
  <2> QED
    BY <1>1, <2>1, SameArithmetic
<1> QED
  BY <1>2 DEF ResetAccessStats, Flat!ResetAccessStats, Flat!Answer

-----------------------------------------------------------------------------
(* The statistics bits never get into a default attribute. *)
LEMMA DefaultsStayStatsFree ==
  ASSUME StatsFree
  PROVE  Spec => []DefaultsStatsFree
<1>1. Init => DefaultsStatsFree
  BY DEF Init, DefaultsStatsFree, StatsFree
<1>2. DefaultsStatsFree /\ [Next]_vars => DefaultsStatsFree'
  <2> SUFFICES ASSUME DefaultsStatsFree, [Next]_vars
               PROVE  DefaultsStatsFree'
    OBVIOUS
  <2>1. CASE UNCHANGED def_attr
    BY <2>1 DEF DefaultsStatsFree, Page
  <2>2. ASSUME NEW r \in RangeArg, NEW perm \in PermArg, SetPerm(r[1], r[2], perm)
        PROVE  DefaultsStatsFree'
    <3>1. perm \cap Acc = {}
      BY DEF StatsFree
    <3>2. def_attr' = [p \in Page |-> IF p \in WholePages(r[1], r[2]) THEN perm ELSE def_attr[p]]
      BY <2>2 DEF SetPerm
    <3> QED
      BY <3>1, <3>2 DEF DefaultsStatsFree, Page, Acc
  <2>3. UNCHANGED def_attr \/ \E r \in RangeArg, perm \in PermArg : SetPerm(r[1], r[2], perm)
    BY DEF Next, MemIo, Host, Read, Execute, Write, ReadNoPerm, WriteNoPerm,
           SetPage, ClearPage, ResetAccessStats, vars
  <2> QED
    BY <2>1, <2>2, <2>3
<1> QED
  BY <1>1, <1>2, PTL DEF Spec

(* For every page size, number of pages, host buffer and sequence of       *)
(* requests within the two limits: the paged memory with lazily created    *)
(* attributes and word-sized fast paths answers every request exactly as   *)
(* the flat byte array does.                                               *)
THEOREM MemImplementsFlat ==
  ASSUME RangesSupported, StatsFree
  PROVE  Spec => ImplementsFlat
<1>1. Init => Flat!Init
  <2> SUFFICES ASSUME Init PROVE Flat!Init
    OBVIOUS
  <2>1. \A a \in Addr : AttrOf(a) = DefPerm
    BY AddrInPage DEF Init, AttrOf
  <2>2. [a \in Addr |-> AttrOf(a)] = [a \in Flat!Addr |-> DefPerm]
    BY <2>1, SameArithmetic
  <2> QED
    BY <2>2, SameArithmetic DEF Init, Flat!Init
<1>2. TypeOK /\ DefaultsStatsFree /\ [Next]_vars => [Flat!Next]_(Flat!vars)
  <2> SUFFICES ASSUME TypeOK, DefaultsStatsFree, [Next]_vars
               PROVE  [Flat!Next]_(Flat!vars)
    OBVIOUS
  <2> USE InputAssumption
  <2>1. ASSUME NEW a \in AddrArg, NEW n \in Size, Read(a, n) PROVE Flat!Next
    BY <2>1, ReadRefines DEF Flat!Next, Size
  <2>2. ASSUME NEW a \in AddrArg, NEW n \in Size, Execute(a, n) PROVE Flat!Next
    BY <2>2, ExecuteRefines DEF Flat!Next, Size
  <2>3. ASSUME NEW a \in AddrArg, NEW n \in Size, NEW v \in Val, Write(a, n, v) PROVE Flat!Next
    BY <2>3, WriteRefines DEF Flat!Next, Size
  <2>4. ASSUME NEW a \in AddrArg, ReadNoPerm(a) PROVE Flat!Next
    BY <2>4, ReadNoPermRefines DEF Flat!Next
  <2>5. ASSUME NEW a \in AddrArg, NEW v \in Val, WriteNoPerm(a, v) PROVE Flat!Next
    BY <2>5, WriteNoPermRefines DEF Flat!Next
  <2>6. ASSUME NEW r \in RangeArg, NEW perm \in PermArg, SetPerm(r[1], r[2], perm) PROVE Flat!Next
    BY <2>6, SetPermRefines DEF Flat!Next
  <2>7. ASSUME NEW p \in Page, NEW h \in HostPage, SetPage(p, h) PROVE Flat!Next
    BY <2>7, SetPageRefines, SameArithmetic DEF Flat!Next
  <2>8. ASSUME NEW p \in Page, ClearPage(p) PROVE Flat!Next
    BY <2>8, ClearPageRefines, SameArithmetic DEF Flat!Next
  <2>9. CASE ResetAccessStats
    BY <2>9, ResetRefines DEF Flat!Next
  <2>10. CASE UNCHANGED vars
    <3>1. \A a \in Addr : (AttrOf(a))' = AttrOf(a)
      BY <2>10 DEF vars, AttrOf
    <3>2. [a \in Addr |-> AttrOf(a)]' = [a \in Addr |-> AttrOf(a)]
      BY <3>1 DEF Addr
    <3> QED
      BY <2>10, <3>2 DEF vars, Flat!vars
  <2> QED
    BY <2>1, <2>2, <2>3, <2>4, <2>5, <2>6, <2>7, <2>8, <2>9, <2>10 DEF Next, MemIo, Host
<1> QED
  BY <1>1, <1>2, TypeCorrect, DefaultsStayStatsFree, PTL DEF Spec, ImplementsFlat, Flat!Spec

=============================================================================
