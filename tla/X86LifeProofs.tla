--------------------------- MODULE X86LifeProofs ----------------------------
(***************************************************************************)
(* Theorems about machines and what they own.                              *)
(***************************************************************************)
EXTENDS X86LifeProps, FiniteSetTheorems, SequenceTheorems, TLAPS

-----------------------------------------------------------------------------
(* Choosing free blocks *)

(* Below a higher element there are more. *)
LEMMA RankGrows ==
  ASSUME NEW S \in SUBSET Int, IsFiniteSet(S), NEW b \in S, NEW d \in S, b < d
  PROVE  Rank(S, b) \in Nat /\ Rank(S, d) \in Nat /\ Rank(S, b) < Rank(S, d)
<1> DEFINE B == {c \in S : c < b}
           D == {c \in S : c < d}
<1>1. B \in SUBSET S /\ D \in SUBSET S
  OBVIOUS
<1>2. IsFiniteSet(B) /\ IsFiniteSet(D)
  BY <1>1, FS_Subset
<1>3. Cardinality(B) \in Nat /\ Cardinality(D) \in Nat
  BY <1>2, FS_CardinalityType
<1>4. b \notin B /\ B \cup {b} \in SUBSET D
  <2>1. b \notin B
    BY SMT
  <2>2. ASSUME NEW c \in B \cup {b} PROVE c \in D
    BY SMT
  <2> QED BY <2>1, <2>2
<1>5. Cardinality(B \cup {b}) = Cardinality(B) + 1
  BY <1>2, <1>4, FS_AddElement
<1>6. Cardinality(B \cup {b}) <= Cardinality(D)
  BY <1>2, <1>4, FS_Subset
<1> QED BY <1>3, <1>5, <1>6, SMT DEF Rank

(* No element has all others below it and itself. *)
LEMMA RankBounded ==
  ASSUME NEW S \in SUBSET Int, IsFiniteSet(S), NEW b \in S
  PROVE  Rank(S, b) \in 0 .. (Cardinality(S) - 1)
<1> DEFINE B == {c \in S : c < b}
           R == S \ {b}
<1>1. B \in SUBSET R
  <2>1. ASSUME NEW c \in B PROVE c \in S /\ c # b
    BY SMT
  <2> QED BY <2>1
<1>2. IsFiniteSet(R) /\ Cardinality(R) = Cardinality(S) - 1
  BY FS_RemoveElement
<1>3. IsFiniteSet(B) /\ Cardinality(B) <= Cardinality(R)
  BY <1>1, <1>2, FS_Subset
<1>4. Cardinality(B) \in Nat /\ Cardinality(S) \in Nat
  BY <1>3, FS_CardinalityType
<1> QED BY <1>2, <1>3, <1>4, SMT DEF Rank

(* So every rank below the number of elements is taken. *)
LEMMA NthExists ==
  ASSUME NEW S \in SUBSET Int, IsFiniteSet(S), NEW n \in 0 .. (Cardinality(S) - 1)
  PROVE  Nth(S, n) \in S /\ Rank(S, Nth(S, n)) = n
<1> DEFINE T == 0 .. (Cardinality(S) - 1)
           f == [b \in S |-> Rank(S, b)]
<1>1. f \in [S -> T]
  BY RankBounded
<1>2. ASSUME NEW b \in S, NEW d \in S, f[b] = f[d] PROVE b = d
  <2>1. b < d \/ d < b \/ b = d
    BY SMT
  <2>2. CASE b < d
    <3>1. Rank(S, b) \in Nat /\ Rank(S, d) \in Nat /\ Rank(S, b) < Rank(S, d)
      BY <2>2, RankGrows
    <3> QED BY <3>1, <1>2, SMT
  <2>3. CASE d < b
    <3>1. Rank(S, b) \in Nat /\ Rank(S, d) \in Nat /\ Rank(S, d) < Rank(S, b)
      BY <2>3, RankGrows
    <3> QED BY <3>1, <1>2, SMT
  <2> QED BY <2>1, <2>2, <2>3
<1>3. f \in Injection(S, T)
  <2>1. DOMAIN f = S
    BY DEF f
  <2> QED BY <1>1, <1>2, <2>1 DEF Injection, IsInjective
<1>4. Cardinality(S) \in Nat
  BY FS_CardinalityType
<1>5. IsFiniteSet(T) /\ Cardinality(T) = Cardinality(S)
  <2>1. /\ IsFiniteSet(T)
        /\ Cardinality(T) = IF 0 > Cardinality(S) - 1 THEN 0 ELSE Cardinality(S) - 1 - 0 + 1
    <3>1. 0 \in Int /\ Cardinality(S) - 1 \in Int
      BY <1>4, SMT
    <3> QED BY <3>1, FS_Interval
  <2> QED BY <2>1, <1>4, SMT
<1>6. f \in Surjection(S, T)
  BY <1>3, <1>5, FS_Injection
<1>7. PICK b \in S : f[b] = n
  BY <1>6 DEF Surjection
<1>8. \E c \in S : Rank(S, c) = n
  BY <1>7
<1> QED BY <1>8 DEF Nth

-----------------------------------------------------------------------------
(* What is in a block, by what it was allocated for *)
Value    == ValueArg \cup {0}
FreeKind == {Free}
DirKind  == [is : {"dir"}, page : [Page -> Entry]]
PageKind == [is : {"page"}, attr : SUBSET MemFlag, data : Value]
IoKind   == [is : {"io"}, io : Io]
MsrKind  == [is : {"msr"}, msr : [Msr -> Value], perm : [Msr -> SUBSET Flags]]
LogKind  == [is : {"log"}, text : Seq(Nat)]
AnyKind  == FreeKind \cup DirKind \cup PageKind \cup IoKind \cup MsrKind \cup LogKind

(* A heap h and the pointers of one machine e *)
EntryOK(h, c) ==
  \/ c.attr = Nil /\ c.data = Nil
  \/ c.attr # Nil /\ h[c.attr] \in PageKind /\ c.data \in {c.attr} \cup HostPage

DirOK(h, d) ==
  /\ h[d] \in DirKind
  /\ \A p \in Page : EntryOK(h, h[d].page[p])
  /\ \A p, q \in Page :
       p # q /\ h[d].page[p].attr # Nil => h[d].page[p].attr # h[d].page[q].attr

PointersOK(h, e) ==
  /\ e \in Emu
  /\ h[e.io] \in IoKind
  /\ h[e.msr] \in MsrKind
  /\ e.buf # Nil => h[e.buf] \in LogKind
  /\ e.ptr.in = e.buf
  /\ e.dir # Nil => DirOK(h, e.dir)

PagesIn(h, d) == IF d = Nil THEN {} ELSE {h[d].page[p].attr : p \in Page} \ {Nil}

Has(h, e) == IF e = Gone THEN {}
             ELSE {e.io, e.msr} \cup ({e.dir, e.buf} \ {Nil}) \cup PagesIn(h, e.dir)

(* All machines em in a heap h: every pointer is good, no block has two    *)
(* owners, none is lost.                                                   *)
Sound(em, h) ==
  /\ em \in [Id -> Emu \cup {Gone}]
  /\ h \in [Block -> AnyKind]
  /\ \A m \in Id : em[m] # Gone => PointersOK(h, em[m])
  /\ \A m, k \in Id : m # k => Has(h, em[m]) \cap Has(h, em[k]) = {}
  /\ \A b \in Block : h[b] # Free => \E m \in Id : b \in Has(h, em[m])

(* What is written down about machine e agrees with what it answers. *)
LogIn(h, e) ==
  IF e.buf = Nil THEN NoLog
  ELSE [size |-> e.size, used |-> e.ptr.used, flush |-> e.flush, text |-> h[e.buf].text]

PortsTold(io, t, level) ==
  /\ io.stats_i = t.in /\ io.stats_o = t.out
  /\ \A p \in Port : io.map[p] \cap IoPerm = t.granted[p]
  /\ (\E p \in Port : t.granted[p] # {}) => io.iopl_ok = (level \/ ~WithIopl)

TextTold(log, said, sent) ==
  /\ log.flush => said = sent \o log.text
  /\ EndsWith(said, log.text)
  /\ log.used = 0 => log.text = <<>>

Told == [granted : [Port -> SUBSET IoPerm], in : [Port -> Nat], out : [Port -> Nat],
         said : Seq(Nat), sent : Seq(Nat)]

ToldOK ==
  /\ told \in [Id -> Told \cup {Gone}]
  /\ \A m \in Id : emu[m] = Gone <=> told[m] = Gone

PortsInv == \A m \in Id : emu[m] # Gone => PortsTold(heap[emu[m].io].io, told[m], iopl)

TextInv == \A m \in Id : emu[m] # Gone =>
             TextTold(LogIn(heap, emu[m]), told[m].said, told[m].sent)

(* The NUL has room. *)
FitIn(h, e) == e.buf # Nil => LogIn(h, e).used + 1 <= LogIn(h, e).size

FitInv == \A m \in Id : emu[m] # Gone => FitIn(heap, emu[m])

(* ... or what was written last, a message w, asked for less. *)
Short(w, used, size) == w.guard <= w.n /\ used - size <= w.n - w.guard

LastNote(w, m) == req'.what = "note" /\ req'.of = m /\ req'.answer = w

FitsBut(h, e, m) == FitIn(h, e) \/ JustBeyond(m, LogIn(h, e))

FitNear == \A m \in Id : emu[m] # Gone => FitsBut(heap, emu[m], m)

Counts == iopl \in BOOLEAN /\ calls \in 0 .. MaxCalls /\ DOMAIN host = HostPage

IInv == Sound(emu, heap) /\ Counts /\ ToldOK

(* The kinds of blocks differ. *)
LEMMA KindsApart ==
  /\ \A c \in DirKind  : c.is = "dir"
  /\ \A c \in PageKind : c.is = "page"
  /\ \A c \in IoKind   : c.is = "io"
  /\ \A c \in MsrKind  : c.is = "msr"
  /\ \A c \in LogKind  : c.is = "log"
  /\ Free.is = "free"
  /\ \A e \in Emu : e.is = "emu" /\ e # Gone
BY DEF DirKind, PageKind, IoKind, MsrKind, LogKind, Free, Emu, Gone

(* NULL, blocks and host pages are apart. *)
LEMMA NilIsNoBlock ==
  /\ Nil \notin Block /\ Block \subseteq Int /\ Block \subseteq Nat
  /\ Block \cap HostPage = {} /\ Nil \notin HostPage
BY LifeAssumption DEF Nil

(* What a machine has are blocks, and there is something in them. *)
LEMMA HasBlocks ==
  ASSUME NEW h, NEW e \in Emu, PointersOK(h, e)
  PROVE  /\ Has(h, e) \subseteq Block
         /\ \A b \in Has(h, e) : h[b] # Free
         /\ e.io \in Block /\ e.msr \in Block /\ e.buf \in Block \cup {Nil}
         /\ e.dir \in Block \cup {Nil}
         /\ \A p \in Page : e.dir # Nil => h[e.dir].page[p] \in Entry
<1>1. /\ e.io \in Block /\ e.msr \in Block /\ e.buf \in Block \cup {Nil}
      /\ e.dir \in Block \cup {Nil} /\ e # Gone
  BY KindsApart DEF Emu
<1>2. h[e.io] # Free /\ h[e.msr] # Free
  BY KindsApart DEF PointersOK
<1>3. e.buf # Nil => h[e.buf] # Free
  BY KindsApart DEF PointersOK
<1>4. e.dir # Nil => h[e.dir] # Free
  BY KindsApart DEF PointersOK, DirOK
<1>5. ASSUME NEW p \in Page, e.dir # Nil PROVE h[e.dir].page[p] \in Entry
  <2>1. h[e.dir] \in DirKind
    BY <1>5 DEF PointersOK, DirOK
  <2> QED BY <2>1 DEF DirKind
<1>6. ASSUME NEW b \in PagesIn(h, e.dir) PROVE b \in Block /\ h[b] # Free
  <2>1. e.dir # Nil
    BY <1>6 DEF PagesIn
  <2>2. PICK p \in Page : b = h[e.dir].page[p].attr /\ b # Nil
    BY <1>6, <2>1 DEF PagesIn
  <2>3. h[e.dir].page[p] \in Entry /\ EntryOK(h, h[e.dir].page[p])
    BY <1>5, <2>1 DEF PointersOK, DirOK
  <2>4. b \in Block /\ h[b] \in PageKind
    BY <2>2, <2>3 DEF EntryOK, Entry
  <2> QED BY <2>4, KindsApart
<1> QED BY <1>1, <1>2, <1>3, <1>4, <1>5, <1>6 DEF Has

(* A machine is not touched by what happens outside its blocks. *)
LEMMA Frame ==
  ASSUME NEW h, NEW g, NEW e \in Emu, PointersOK(h, e),
         \A b \in Has(h, e) : g[b] = h[b]
  PROVE  /\ PointersOK(g, e) /\ Has(g, e) = Has(h, e)
         /\ g[e.io] = h[e.io] /\ g[e.msr] = h[e.msr]
         /\ LogIn(g, e) = LogIn(h, e)
         /\ e.dir # Nil => g[e.dir] = h[e.dir]
         /\ \A p \in Page : e.dir # Nil /\ h[e.dir].page[p].attr # Nil =>
              g[h[e.dir].page[p].attr] = h[h[e.dir].page[p].attr]
<1>0. e # Gone
  BY KindsApart
<1>1. g[e.io] = h[e.io] /\ g[e.msr] = h[e.msr]
  BY <1>0 DEF Has
<1>2. e.buf # Nil => g[e.buf] = h[e.buf]
  BY <1>0 DEF Has
<1>3. e.dir # Nil => g[e.dir] = h[e.dir]
  BY <1>0 DEF Has
<1>4. PagesIn(g, e.dir) = PagesIn(h, e.dir)
  BY <1>3 DEF PagesIn
<1>5. Has(g, e) = Has(h, e)
  BY <1>4 DEF Has
<1>6. ASSUME NEW p \in Page, e.dir # Nil, h[e.dir].page[p].attr # Nil
      PROVE  g[h[e.dir].page[p].attr] = h[h[e.dir].page[p].attr]
  <2>1. h[e.dir].page[p].attr \in Has(h, e)
    BY <1>0, <1>6 DEF Has, PagesIn
  <2> QED BY <2>1
<1>7. ASSUME e.dir # Nil PROVE DirOK(g, e.dir)
  <2>1. DirOK(h, e.dir) /\ g[e.dir] = h[e.dir]
    BY <1>3, <1>7 DEF PointersOK
  <2>2. ASSUME NEW p \in Page PROVE EntryOK(g, g[e.dir].page[p])
    <3>1. EntryOK(h, h[e.dir].page[p])
      BY <2>1 DEF DirOK
    <3> QED BY <1>6, <1>7, <2>1, <3>1 DEF EntryOK
  <2> QED BY <2>1, <2>2 DEF DirOK
<1>8. PointersOK(g, e)
  BY <1>1, <1>2, <1>7 DEF PointersOK
<1>9. LogIn(g, e) = LogIn(h, e)
  BY <1>2 DEF LogIn
<1> QED BY <1>1, <1>3, <1>5, <1>6, <1>8, <1>9

(* One machine takes free blocks, changes its own and frees some: nothing  *)
(* of this concerns the others.                                            *)
Others(em, h, en, g, x) ==
  \A m \in Id : m # x =>
    /\ en[m] = em[m]
    /\ em[m] # Gone => \A b \in Has(h, em[m]) : g[b] = h[b]

(* Such a step keeps all machines sound. *)
LEMMA LocalStep ==
  ASSUME NEW em, NEW h, Sound(em, h), NEW x \in Id,
         NEW e \in Emu \cup {Gone}, NEW g \in [Block -> AnyKind],
         e # Gone => PointersOK(g, e),
         \A b \in Has(g, e) : b \in Has(h, em[x]) \/ h[b] = Free,
         \A b \in Block : b \notin Has(h, em[x]) /\ b \notin Has(g, e) => g[b] = h[b],
         \A b \in Block : b \in Has(h, em[x]) /\ b \notin Has(g, e) => g[b] = Free
  PROVE  LET en == [em EXCEPT ![x] = e]
         IN  Sound(en, g) /\ Others(em, h, en, g, x)
<1> DEFINE en == [em EXCEPT ![x] = e]
<1>1. en \in [Id -> Emu \cup {Gone}] /\ en[x] = e /\ \A m \in Id : m # x => en[m] = em[m]
  BY DEF Sound
<1>2. ASSUME NEW m \in Id, em[m] # Gone
      PROVE  /\ em[m] \in Emu /\ PointersOK(h, em[m]) /\ Has(h, em[m]) \subseteq Block
             /\ \A b \in Has(h, em[m]) : h[b] # Free
  <2>1. em[m] \in Emu /\ PointersOK(h, em[m])
    BY <1>2 DEF Sound
  <2> QED BY <2>1, HasBlocks
<1>3. ASSUME NEW m \in Id, m # x, em[m] # Gone
      PROVE  \A b \in Has(h, em[m]) : g[b] = h[b] /\ b \notin Has(g, e)
  <2>1. Has(h, em[m]) \cap Has(h, em[x]) = {}
    BY <1>3 DEF Sound
  <2> QED BY <1>2, <1>3, <2>1
<1>4. Others(em, h, en, g, x)
  BY <1>1, <1>3 DEF Others
<1>5. ASSUME NEW m \in Id, m # x, em[m] # Gone
      PROVE  PointersOK(g, em[m]) /\ Has(g, em[m]) = Has(h, em[m])
  BY <1>2, <1>3, <1>5, Frame
<1>6. ASSUME NEW m \in Id, en[m] # Gone PROVE PointersOK(g, en[m])
  <2>1. CASE m = x
    BY <2>1, <1>1, <1>6
  <2>2. CASE m # x
    BY <2>2, <1>1, <1>5, <1>6
  <2> QED BY <2>1, <2>2
<1>7. ASSUME NEW m \in Id, m # x PROVE Has(g, en[m]) = Has(h, em[m])
  <2>1. CASE em[m] = Gone
    BY <2>1, <1>1, <1>7 DEF Has
  <2>2. CASE em[m] # Gone
    BY <2>2, <1>1, <1>5, <1>7
  <2> QED BY <2>1, <2>2
<1>8. ASSUME NEW m \in Id, m # x PROVE Has(h, em[m]) \cap Has(g, e) = {}
  <2>1. CASE em[m] = Gone
    BY <2>1 DEF Has
  <2>2. CASE em[m] # Gone
    BY <2>2, <1>3, <1>8
  <2> QED BY <2>1, <2>2
<1>9. ASSUME NEW m \in Id, NEW k \in Id, m # k PROVE Has(g, en[m]) \cap Has(g, en[k]) = {}
  <2>1. CASE m = x
    BY <2>1, <1>1, <1>7, <1>8, <1>9
  <2>2. CASE k = x
    BY <2>2, <1>1, <1>7, <1>8, <1>9
  <2>3. CASE m # x /\ k # x
    BY <2>3, <1>7, <1>9 DEF Sound
  <2> QED BY <2>1, <2>2, <2>3
<1>10. ASSUME NEW b \in Block, g[b] # Free PROVE \E m \in Id : b \in Has(g, en[m])
  <2>1. CASE b \in Has(g, e)
    BY <2>1, <1>1
  <2>2. CASE b \notin Has(g, e)
    <3>1. b \notin Has(h, em[x]) /\ h[b] # Free
      BY <2>2, <1>10
    <3>2. PICK m \in Id : b \in Has(h, em[m])
      BY <3>1 DEF Sound
    <3> QED BY <3>1, <3>2, <1>7
  <2> QED BY <2>1, <2>2
<1>11. Sound(en, g)
  <2> HIDE DEF en
  <2> QED BY <1>1, <1>6, <1>9, <1>10 DEF Sound
<1> QED BY <1>4, <1>11

-----------------------------------------------------------------------------
(* There is room.  Every block in use is behind a pointer of a machine, so *)
(* there are as many free blocks as there are pointers to nothing.         *)
OwnSlot  == {"own"} \X {"io", "msr", "dir", "buf"}
PageSlot == {"page"} \X Page
Slot     == OwnSlot \cup PageSlot

Pointer(h, e, s) ==
  IF s[1] = "own" THEN e[s[2]]
  ELSE IF e.dir = Nil THEN Nil ELSE h[e.dir].page[s[2]].attr

Unused(em, h, u) == em[u[1]] = Gone \/ Pointer(h, em[u[1]], u[2]) = Nil

(* A machine has 4 blocks and one for each page, at most. *)
LEMMA SlotCount ==
  /\ IsFiniteSet(Slot) /\ Cardinality(Slot) \in Nat
  /\ Cardinality(Slot) <= 4 + Cardinality(Page)
  /\ Cardinality(Page) \in Nat /\ Cardinality(Id) \in Nat /\ Cardinality(Block) \in Nat
<1> DEFINE N == {"io", "msr", "dir", "buf"}
<1>1. IsFiniteSet(Page) /\ IsFiniteSet(Id) /\ IsFiniteSet(Block)
  BY RoomAssumption, LifeAssumption
<1>2. /\ Cardinality(Page) \in Nat /\ Cardinality(Id) \in Nat
      /\ Cardinality(Block) \in Nat
  BY <1>1, FS_CardinalityType
<1>3. IsFiniteSet(N) /\ Cardinality(N) = 4
  <2>1. IsFiniteSet({"io"}) /\ Cardinality({"io"}) = 1
    BY FS_Singleton
  <2>2. IsFiniteSet({"io"} \cup {"msr"}) /\ Cardinality({"io"} \cup {"msr"}) = 2
    BY <2>1, FS_AddElement
  <2>3. /\ IsFiniteSet(({"io"} \cup {"msr"}) \cup {"dir"})
        /\ Cardinality(({"io"} \cup {"msr"}) \cup {"dir"}) = 3
    BY <2>2, FS_AddElement
  <2>4. /\ IsFiniteSet((({"io"} \cup {"msr"}) \cup {"dir"}) \cup {"buf"})
        /\ Cardinality((({"io"} \cup {"msr"}) \cup {"dir"}) \cup {"buf"}) = 4
    BY <2>3, FS_AddElement
  <2>5. N = (({"io"} \cup {"msr"}) \cup {"dir"}) \cup {"buf"}
    OBVIOUS
  <2> QED BY <2>4, <2>5
<1> HIDE DEF N
<1>4. /\ IsFiniteSet({"own"}) /\ Cardinality({"own"}) = 1
      /\ IsFiniteSet({"page"}) /\ Cardinality({"page"}) = 1
  BY FS_Singleton
<1>5. /\ IsFiniteSet({"own"} \X N)
      /\ Cardinality({"own"} \X N) = Cardinality({"own"}) * Cardinality(N)
  BY <1>3, <1>4, FS_Product
<1>6. /\ IsFiniteSet({"page"} \X Page)
      /\ Cardinality({"page"} \X Page) = Cardinality({"page"}) * Cardinality(Page)
  BY <1>1, <1>4, FS_Product
<1>7. IsFiniteSet(OwnSlot) /\ Cardinality(OwnSlot) = 4
  BY <1>3, <1>4, <1>5 DEF OwnSlot, N
<1>8. IsFiniteSet(PageSlot) /\ Cardinality(PageSlot) = Cardinality(Page)
  BY <1>2, <1>4, <1>6 DEF PageSlot
<1>9. /\ IsFiniteSet(OwnSlot \cup PageSlot)
      /\ Cardinality(OwnSlot \cup PageSlot) = Cardinality(OwnSlot) + Cardinality(PageSlot)
                                              - Cardinality(OwnSlot \cap PageSlot)
  BY <1>7, <1>8, FS_Union
<1>10. IsFiniteSet(OwnSlot \cap PageSlot)
  BY <1>7, FS_Intersection
<1>11. Cardinality(OwnSlot \cap PageSlot) \in Nat
  BY <1>10, FS_CardinalityType
<1>12. Cardinality(Slot) \in Nat
  BY <1>9, FS_CardinalityType DEF Slot
<1> QED BY <1>2, <1>7, <1>8, <1>9, <1>11, <1>12, SMT DEF Slot

(* What a machine has is what its slots point at. *)
LEMMA HasIsPointed ==
  ASSUME NEW h, NEW e \in Emu, PointersOK(h, e), NEW b
  PROVE  b \in Has(h, e) <=> \E s \in Slot : b = Pointer(h, e, s) /\ b # Nil
<1>0. /\ e # Gone /\ e.io \in Block /\ e.msr \in Block /\ Nil \notin Block
      /\ e.buf \in Block \cup {Nil} /\ e.dir \in Block \cup {Nil}
  BY KindsApart, HasBlocks, NilIsNoBlock
<1>1. ASSUME b \in Has(h, e) PROVE \E s \in Slot : b = Pointer(h, e, s) /\ b # Nil
  <2>1. \A n \in {"io", "msr", "dir", "buf"} :
          <<"own", n>> \in Slot /\ Pointer(h, e, <<"own", n>>) = e[n]
    BY DEF Slot, OwnSlot, Pointer
  <2>2. CASE b \in PagesIn(h, e.dir)
    <3>1. e.dir # Nil
      BY <2>2 DEF PagesIn
    <3>2. PICK p \in Page : b = h[e.dir].page[p].attr /\ b # Nil
      BY <2>2, <3>1 DEF PagesIn
    <3>3. <<"page", p>> \in Slot /\ Pointer(h, e, <<"page", p>>) = b
      BY <3>1, <3>2 DEF Slot, PageSlot, Pointer
    <3> QED BY <3>2, <3>3
  <2>3. CASE b \in {e.io, e.msr} \cup ({e.dir, e.buf} \ {Nil})
    <3>1. b # Nil
      BY <2>3, <1>0
    <3>2. CASE b = e.io
      BY <3>1, <3>2, <2>1
    <3>3. CASE b = e.msr
      BY <3>1, <3>3, <2>1
    <3>4. CASE b = e.dir
      BY <3>1, <3>4, <2>1
    <3>5. CASE b = e.buf
      BY <3>1, <3>5, <2>1
    <3> QED BY <2>3, <3>2, <3>3, <3>4, <3>5
  <2> QED BY <1>0, <1>1, <2>2, <2>3 DEF Has
<1>2. ASSUME NEW s \in Slot, b = Pointer(h, e, s), b # Nil PROVE b \in Has(h, e)
  <2>1. CASE s \in OwnSlot
    <3>1. s[1] = "own" /\ s[2] \in {"io", "msr", "dir", "buf"}
      BY <2>1 DEF OwnSlot
    <3>2. b \in {e.io, e.msr, e.dir, e.buf}
      BY <1>2, <3>1 DEF Pointer
    <3> QED BY <1>0, <1>2, <3>2 DEF Has
  <2>2. CASE s \in PageSlot
    <3>1. s[1] = "page" /\ s[2] \in Page
      BY <2>2 DEF PageSlot
    <3>2. e.dir # Nil /\ b = h[e.dir].page[s[2]].attr
      BY <1>2, <3>1 DEF Pointer
    <3>3. b \in PagesIn(h, e.dir)
      BY <1>2, <3>1, <3>2 DEF PagesIn
    <3> QED BY <1>0, <3>3 DEF Has
  <2> QED BY <2>1, <2>2 DEF Slot
<1> QED BY <1>1, <1>2

(* Pointers that lead nowhere leave as many blocks free, at least. *)
LEMMA FreeRoom ==
  ASSUME NEW em, NEW h, Sound(em, h),
         NEW U \in SUBSET (Id \X Slot), \A u \in U : Unused(em, h, u)
  PROVE  /\ IsFiniteSet(U) /\ Cardinality(U) \in Nat
         /\ IsFiniteSet(FreeIn(h)) /\ Cardinality(FreeIn(h)) \in Nat
         /\ Cardinality(U) <= Cardinality(FreeIn(h))
<1> DEFINE S == Id \X Slot
           A == {b \in Block : h[b] # Free}
           W == {u \in S : ~Unused(em, h, u)}
           f == [u \in W |-> Pointer(h, em[u[1]], u[2])]
<1>1. /\ IsFiniteSet(S) /\ Cardinality(S) = Cardinality(Id) * Cardinality(Slot)
      /\ Cardinality(S) \in Nat
  <2>1. IsFiniteSet(Id) /\ IsFiniteSet(Slot)
    BY RoomAssumption, SlotCount
  <2>2. IsFiniteSet(S) /\ Cardinality(S) = Cardinality(Id) * Cardinality(Slot)
    BY <2>1, FS_Product
  <2> QED BY <2>2, FS_CardinalityType
<1>2. Cardinality(S) <= Cardinality(Block)
  <2>1. Cardinality(Id) * Cardinality(Slot) <= Cardinality(Id) * (4 + Cardinality(Page))
    BY SlotCount, SMT
  <2> QED BY <2>1, <1>1, SlotCount, RoomAssumption, SMT
<1>3. ASSUME NEW m \in Id, em[m] # Gone
      PROVE  em[m] \in Emu /\ PointersOK(h, em[m]) /\ Has(h, em[m]) \subseteq Block
             /\ \A b \in Has(h, em[m]) : h[b] # Free
  <2>1. em[m] \in Emu /\ PointersOK(h, em[m])
    BY <1>3 DEF Sound
  <2> QED BY <2>1, HasBlocks
<1>4. ASSUME NEW u \in W PROVE Pointer(h, em[u[1]], u[2]) \in A
  <2>1. /\ u[1] \in Id /\ u[2] \in Slot /\ em[u[1]] # Gone
        /\ Pointer(h, em[u[1]], u[2]) # Nil
    BY DEF Unused
  <2>2. Pointer(h, em[u[1]], u[2]) \in Has(h, em[u[1]])
    BY <1>3, <2>1, HasIsPointed
  <2> QED BY <1>3, <2>1, <2>2
<1>5. ASSUME NEW b \in A PROVE \E u \in W : f[u] = b
  <2>1. PICK m \in Id : b \in Has(h, em[m])
    BY DEF Sound
  <2>2. em[m] # Gone
    BY <2>1 DEF Has
  <2>3. PICK s \in Slot : b = Pointer(h, em[m], s) /\ b # Nil
    BY <1>3, <2>1, <2>2, HasIsPointed
  <2>4. <<m, s>> \in W
    BY <2>2, <2>3 DEF Unused
  <2>5. f[<<m, s>>] = b
    BY <2>3, <2>4
  <2> QED BY <2>4, <2>5
<1>6. f \in Surjection(W, A)
  <2>1. f \in [W -> A]
    BY <1>4
  <2> HIDE DEF f, W, A
  <2> QED BY <2>1, <1>5 DEF Surjection
<1>7. W \in SUBSET (S \ U) /\ U \in SUBSET S
  OBVIOUS
<1>8. /\ IsFiniteSet(U) /\ Cardinality(U) \in Nat /\ IsFiniteSet(S \ U)
      /\ Cardinality(S \ U) = Cardinality(S) - Cardinality(U)
  <2>1. IsFiniteSet(U) /\ S \cap U = U
    BY <1>1, <1>7, FS_Subset
  <2>2. IsFiniteSet(S \ U) /\ Cardinality(S \ U) = Cardinality(S) - Cardinality(S \cap U)
    BY <1>1, FS_Difference
  <2> QED BY <2>1, <2>2, FS_CardinalityType
<1>9. IsFiniteSet(W) /\ Cardinality(W) <= Cardinality(S \ U)
  BY <1>7, <1>8, FS_Subset
<1> HIDE DEF W, f
<1>10. IsFiniteSet(A) /\ Cardinality(A) <= Cardinality(W)
  BY <1>6, <1>9, FS_Surjection
<1>11. /\ IsFiniteSet(FreeIn(h))
       /\ Cardinality(FreeIn(h)) = Cardinality(Block) - Cardinality(A)
  <2>1. FreeIn(h) = Block \ A /\ Block \cap A = A
    BY DEF FreeIn
  <2>2. IsFiniteSet(Block)
    BY LifeAssumption
  <2>3. /\ IsFiniteSet(Block \ A)
        /\ Cardinality(Block \ A) = Cardinality(Block) - Cardinality(Block \cap A)
    BY <2>2, FS_Difference
  <2> QED BY <2>1, <2>3
<1>12. /\ Cardinality(A) \in Nat /\ Cardinality(W) \in Nat
       /\ Cardinality(FreeIn(h)) \in Nat
  BY <1>9, <1>10, <1>11, FS_CardinalityType
<1> QED BY <1>1, <1>2, <1>8, <1>9, <1>10, <1>11, <1>12, SlotCount, SMT

-----------------------------------------------------------------------------
(* Taking blocks *)

LEMMA NewFree ==
  ASSUME NEW h, FreeIn(h) # {}
  PROVE  New(h) \in Block /\ h[New(h)] = Free
<1> DEFINE S == FreeIn(h)
<1>1. S \in SUBSET Int /\ S \in SUBSET Block
  BY NilIsNoBlock DEF FreeIn
<1>2. IsFiniteSet(S)
  BY <1>1, LifeAssumption, FS_Subset
<1>3. Cardinality(S) \in Nat /\ Cardinality(S) # 0
  BY <1>2, FS_CardinalityType, FS_EmptySet
<1>4. 0 \in 0 .. (Cardinality(S) - 1)
  BY <1>3, SMT
<1>5. Nth(S, 0) \in S
  <2> HIDE DEF S
  <2> QED BY <1>1, <1>2, <1>4, NthExists
<1> QED BY <1>5 DEF New, FreeIn

(* New() finds a block for a pointer that leads nowhere. *)
LEMMA RoomForOne ==
  ASSUME NEW em, NEW h, Sound(em, h), NEW x \in Id, NEW s \in Slot, Unused(em, h, <<x, s>>)
  PROVE  New(h) \in Block /\ h[New(h)] = Free
<1> DEFINE U == {<<x, s>>}
<1>1. U \in SUBSET (Id \X Slot) /\ \A u \in U : Unused(em, h, u)
  OBVIOUS
<1>2. Cardinality(U) = 1
  BY FS_Singleton
<1> HIDE DEF U
<1>3. Cardinality(FreeIn(h)) \in Nat /\ 1 <= Cardinality(FreeIn(h))
  BY <1>1, <1>2, FreeRoom
<1>4. FreeIn(h) # {}
  BY <1>3, FS_EmptySet
<1> QED BY <1>4, NewFree

-----------------------------------------------------------------------------
(* Changing what is in a block a machine has *)

LEMMA KindUnique ==
  ASSUME NEW K \in {PageKind, IoKind, MsrKind, LogKind, DirKind},
         NEW L \in {PageKind, IoKind, MsrKind, LogKind, DirKind},
         NEW c, c \in K, c \in L
  PROVE  K = L
BY KindsApart

(* The contents of a block without pointers may change within its kind. *)
LEMMA SameKind ==
  ASSUME NEW h \in [Block -> AnyKind], NEW e \in Emu, PointersOK(h, e),
         NEW b \in Has(h, e), NEW c,
         \/ h[b] \in PageKind /\ c \in PageKind
         \/ h[b] \in IoKind /\ c \in IoKind
         \/ h[b] \in MsrKind /\ c \in MsrKind
         \/ h[b] \in LogKind /\ c \in LogKind,
         NEW g, g = [h EXCEPT ![b] = c]
  PROVE  g \in [Block -> AnyKind] /\ PointersOK(g, e) /\ Has(g, e) = Has(h, e)
<1> PICK K \in {PageKind, IoKind, MsrKind, LogKind} : h[b] \in K /\ c \in K
  OBVIOUS
<1> DEFINE Kinds == {PageKind, IoKind, MsrKind, LogKind, DirKind}
<1>0. K \in Kinds /\ b \in Block
  BY HasBlocks
<1>1. g \in [Block -> AnyKind] /\ g[b] = c /\ \A d \in Block : d # b => g[d] = h[d]
  BY <1>0 DEF AnyKind
<1>2. ASSUME NEW d \in Block, NEW L \in Kinds, h[d] \in L PROVE g[d] \in L
  <2>1. CASE d = b
    BY <2>1, <1>0, <1>1, <1>2, KindUnique
  <2>2. CASE d # b
    BY <2>2, <1>1, <1>2
  <2> QED BY <2>1, <2>2
<1>3. /\ e.io \in Block /\ e.msr \in Block /\ e.buf \in Block \cup {Nil}
      /\ e.dir \in Block \cup {Nil} /\ e # Gone
      /\ \A p \in Page : e.dir # Nil => h[e.dir].page[p] \in Entry
  BY HasBlocks, KindsApart
<1>4. ASSUME NEW d \in Block, h[d] \in DirKind PROVE g[d] = h[d]
  <2>1. d # b
    <3>1. SUFFICES ASSUME d = b PROVE FALSE
      OBVIOUS
    <3>2. K = DirKind
      BY <3>1, <1>0, <1>4, KindUnique
    <3> QED BY <3>1, <3>2, <1>4, KindsApart
  <2> QED BY <2>1, <1>1
<1>5. ASSUME e.dir # Nil PROVE g[e.dir] = h[e.dir] /\ DirOK(g, e.dir)
  <2>1. e.dir \in Block /\ DirOK(h, e.dir)
    BY <1>3, <1>5 DEF PointersOK
  <2>2. g[e.dir] = h[e.dir]
    BY <1>4, <2>1 DEF DirOK
  <2>3. ASSUME NEW p \in Page PROVE EntryOK(g, g[e.dir].page[p])
    <3>1. EntryOK(h, h[e.dir].page[p]) /\ h[e.dir].page[p] \in Entry
      BY <1>3, <1>5, <2>1 DEF DirOK
    <3>2. h[e.dir].page[p].attr \in Block \cup {Nil}
      BY <3>1 DEF Entry
    <3> QED BY <1>2, <2>2, <3>1, <3>2 DEF EntryOK
  <2> QED BY <2>1, <2>2, <2>3, ZenonT(60) DEF DirOK
<1>6. PointersOK(g, e)
  BY <1>2, <1>3, <1>5 DEF PointersOK
<1>7. Has(g, e) = Has(h, e)
  BY <1>5 DEF Has, PagesIn
<1> QED BY <1>1, <1>6, <1>7

(* Directory d = e.dir: other default attributes or data pointers *)
LEMMA SameDir ==
  ASSUME NEW h \in [Block -> AnyKind], NEW e \in Emu, PointersOK(h, e), e.dir # Nil,
         NEW c \in DirKind,
         \A p \in Page : c.page[p].attr = h[e.dir].page[p].attr /\ EntryOK(h, c.page[p]),
         NEW g, g = [h EXCEPT ![e.dir] = c]
  PROVE  g \in [Block -> AnyKind] /\ PointersOK(g, e) /\ Has(g, e) = Has(h, e)
<1> DEFINE d == e.dir
           Kinds == {PageKind, IoKind, MsrKind, LogKind}
<1>1. /\ e.io \in Block /\ e.msr \in Block /\ e.buf \in Block \cup {Nil}
      /\ d \in Block /\ e # Gone /\ h[d] \in DirKind /\ DirOK(h, d)
      /\ \A p \in Page : h[d].page[p] \in Entry
  BY HasBlocks, KindsApart DEF PointersOK, DirOK
<1>2. g \in [Block -> AnyKind] /\ g[d] = c /\ \A b \in Block : b # d => g[b] = h[b]
  BY <1>1 DEF AnyKind
<1>3. ASSUME NEW b \in Block, NEW L \in Kinds, h[b] \in L PROVE g[b] \in L
  <2>1. b # d
    BY <1>1, <1>3, KindsApart
  <2> QED BY <2>1, <1>2, <1>3
<1> HIDE DEF d
<1>4. DirOK(g, d)
  <2>1. ASSUME NEW p \in Page PROVE EntryOK(g, g[d].page[p])
    <3>1. EntryOK(h, c.page[p]) /\ c.page[p] \in Entry
      BY DEF DirKind
    <3>2. c.page[p].attr \in Block \cup {Nil}
      BY <3>1 DEF Entry
    <3> QED BY <1>2, <1>3, <3>1, <3>2 DEF EntryOK
  <2>2. \A p, q \in Page :
          p # q /\ g[d].page[p].attr # Nil => g[d].page[p].attr # g[d].page[q].attr
    BY <1>1, <1>2 DEF DirOK, d
  <2> QED BY <1>2, <2>1, <2>2 DEF DirOK
<1>5. PointersOK(g, e)
  BY <1>1, <1>3, <1>4 DEF PointersOK, d
<1>6. Has(g, e) = Has(h, e)
  BY <1>2 DEF Has, PagesIn, d
<1> QED BY <1>2, <1>5, <1>6

(* Such a change is a local step. *)
LEMMA SameBlocks ==
  ASSUME NEW em, NEW h, Sound(em, h), NEW x \in Id, em[x] # Gone,
         NEW e \in Emu, NEW g \in [Block -> AnyKind], PointersOK(g, e),
         Has(g, e) = Has(h, em[x]),
         \A b \in Block : b \notin Has(h, em[x]) => g[b] = h[b]
  PROVE  LET en == [em EXCEPT ![x] = e]
         IN  Sound(en, g) /\ Others(em, h, en, g, x)
<1>1. /\ \A b \in Has(g, e) : b \in Has(h, em[x]) \/ h[b] = Free
      /\ \A b \in Block : b \notin Has(h, em[x]) /\ b \notin Has(g, e) => g[b] = h[b]
      /\ \A b \in Block : b \in Has(h, em[x]) /\ b \notin Has(g, e) => g[b] = Free
  OBVIOUS
<1>2. e \in Emu \cup {Gone} /\ (e # Gone => PointersOK(g, e))
  OBVIOUS
<1> QED BY <1>1, <1>2, LocalStep

(* Fields that are no pointers *)
LEMMA PlainFields ==
  ASSUME NEW h, NEW e \in Emu, NEW n \in Emu, PointersOK(h, e),
         n.io = e.io, n.msr = e.msr, n.dir = e.dir, n.buf = e.buf, n.ptr.in = e.ptr.in
  PROVE  PointersOK(h, n) /\ Has(h, n) = Has(h, e)
BY KindsApart DEF PointersOK, Has

(* One step after the other *)
LEMMA OthersTwice ==
  ASSUME NEW em, NEW h, NEW en, NEW g, NEW eo, NEW f, NEW x, Sound(em, h),
         Others(em, h, en, g, x), Others(en, g, eo, f, x)
  PROVE  Others(em, h, eo, f, x)
<1> SUFFICES ASSUME NEW m \in Id, m # x
             PROVE  /\ eo[m] = em[m]
                    /\ em[m] # Gone => \A b \in Has(h, em[m]) : f[b] = h[b]
  BY DEF Others
<1>1. en[m] = em[m] /\ eo[m] = em[m]
  BY DEF Others
<1>2. ASSUME em[m] # Gone PROVE \A b \in Has(h, em[m]) : f[b] = h[b]
  <2>1. em[m] \in Emu /\ PointersOK(h, em[m])
    BY <1>2 DEF Sound
  <2>2. \A b \in Has(h, em[m]) : g[b] = h[b]
    BY <1>2 DEF Others
  <2>3. Has(g, em[m]) = Has(h, em[m])
    BY <2>1, <2>2, Frame
  <2> QED BY <1>1, <1>2, <2>2, <2>3 DEF Others
<1> QED BY <1>1, <1>2

-----------------------------------------------------------------------------
(* Requests to the memory leave ports and log alone. *)
SameRest(h, e, g, n) ==
  n.io = e.io /\ n.buf = e.buf /\ g[n.io] = h[e.io] /\ LogIn(g, n) = LogIn(h, e)

(* The directory *)
LEMMA DirStep ==
  ASSUME Sound(emu, heap), NEW m \in Id, emu[m] # Gone
  PROVE  LET g  == DirMade(m, heap)
             n  == [emu[m] EXCEPT !.dir = GetDir(m, heap)]
             en == [emu EXCEPT ![m] = n]
         IN  /\ Sound(en, g) /\ Others(emu, heap, en, g, m)
             /\ n \in Emu /\ n.dir \in Block /\ n.dir = GetDir(m, heap) /\ en[m] = n
             /\ SameRest(heap, emu[m], g, n)
<1> DEFINE e  == emu[m]
           d  == GetDir(m, heap)
           g  == DirMade(m, heap)
           n  == [e EXCEPT !.dir = d]
           en == [emu EXCEPT ![m] = n]
<1>1. /\ e \in Emu /\ PointersOK(heap, e) /\ heap \in [Block -> AnyKind] /\ e # Gone
      /\ emu \in [Id -> Emu \cup {Gone}]
  BY DEF Sound
<1>2. /\ e.io \in Block /\ e.msr \in Block /\ e.buf \in Block \cup {Nil}
      /\ e.dir \in Block \cup {Nil} /\ Has(heap, e) \subseteq Block
      /\ \A b \in Has(heap, e) : heap[b] # Free
  BY <1>1, HasBlocks
<1>3. CASE e.dir # Nil
  <2>1. g = heap /\ d = e.dir
    BY <1>3 DEF GetDir, DirMade
  <2>2. n = e /\ n.dir = d
    BY <1>1, <2>1 DEF Emu
  <2>3. en = emu /\ en[m] = n
    BY <1>1, <2>2
  <2>4. Others(emu, heap, en, g, m)
    BY <2>1, <2>3 DEF Others
  <2> QED BY <1>1, <1>2, <1>3, <2>1, <2>2, <2>3, <2>4 DEF SameRest
<1>4. CASE e.dir = Nil
  <2> DEFINE c == DirBlock(e.def_attr)
  <2>1. g = [heap EXCEPT ![d] = c] /\ d = New(heap)
    BY <1>4 DEF GetDir, DirMade, With
  <2>2. d \in Block /\ heap[d] = Free
    <3>1. <<"own", "dir">> \in Slot
      BY DEF Slot, OwnSlot
    <3>2. Unused(emu, heap, <<m, <<"own", "dir">>>>)
      BY <1>4 DEF Unused, Pointer
    <3> QED BY <2>1, <3>1, <3>2, RoomForOne
  <2>3. /\ n \in Emu /\ n.dir = d /\ n.io = e.io /\ n.msr = e.msr /\ n.buf = e.buf
        /\ n.ptr = e.ptr /\ n.size = e.size /\ n.flush = e.flush
    BY <1>1, <2>2 DEF Emu
  <2>4. /\ c \in DirKind /\ \A p \in Page : c.page[p].attr = Nil /\ c.page[p].data = Nil
    <3>1. NoPage(e.def_attr) \in Entry
      BY <1>1 DEF NoPage, Entry, Emu
    <3> QED BY <3>1 DEF DirBlock, DirKind, NoPage
  <2> HIDE DEF c
  <2>5. g \in [Block -> AnyKind] /\ g[d] = c /\ \A b \in Block : b # d => g[b] = heap[b]
    BY <1>1, <2>1, <2>2, <2>4 DEF AnyKind
  <2>6. d \notin Has(heap, e) /\ d # Nil
    BY <1>2, <2>2, NilIsNoBlock
  <2>7. e.io # d /\ e.msr # d /\ (e.buf # Nil => e.buf # d)
    BY <1>1, <2>6 DEF Has
  <2>8. Has(g, n) = Has(heap, e) \cup {d}
    <3>1. PagesIn(g, d) = {} /\ PagesIn(heap, e.dir) = {}
      BY <1>4, <2>4, <2>5 DEF PagesIn
    <3> QED BY <1>1, <1>4, <2>3, <2>6, <3>1, KindsApart DEF Has
  <2>9. PointersOK(g, n)
    <3>1. DirOK(g, d)
      BY <2>4, <2>5 DEF DirOK, EntryOK
    <3> QED BY <1>1, <1>2, <2>3, <2>5, <2>7, <3>1 DEF PointersOK
  <2>10. SameRest(heap, e, g, n)
    BY <1>2, <2>3, <2>5, <2>7 DEF SameRest, LogIn
  <2> HIDE DEF g, n, d, e
  <2>11. /\ \A b \in Has(g, n) : b \in Has(heap, emu[m]) \/ heap[b] = Free
         /\ \A b \in Block : b \notin Has(heap, emu[m]) /\ b \notin Has(g, n) => g[b] = heap[b]
         /\ \A b \in Block : b \in Has(heap, emu[m]) /\ b \notin Has(g, n) => g[b] = Free
    BY <2>2, <2>5, <2>8 DEF e
  <2>12. n \in Emu \cup {Gone}
    BY <2>3
  <2>13. Sound(en, g) /\ Others(emu, heap, en, g, m)
    BY <2>5, <2>9, <2>11, <2>12, LocalStep
  <2>14. en[m] = n
    BY <1>1
  <2> QED BY <2>2, <2>3, <2>10, <2>13, <2>14 DEF g, n, d, e
<1> QED BY <1>3, <1>4

(* A page of a machine that has a directory *)
PageIn(d, p, h) ==
  IF h[d].page[p].attr # Nil THEN h
  ELSE LET b == New(h)
       IN  With(With(h, b, PageBlock(h[d].page[p].def)), d,
                [h[d] EXCEPT !.page[p].attr = b, !.page[p].data = b])

(* vm_get_page() with a page to create *)
LEMMA PageStep ==
  ASSUME NEW em, NEW h, Sound(em, h), NEW m \in Id, em[m] # Gone, em[m].dir # Nil,
         NEW p \in Page
  PROVE  LET d == em[m].dir
             g == PageIn(d, p, h)
         IN  /\ Sound(em, g) /\ Others(em, h, em, g, m)
             /\ SameRest(h, em[m], g, em[m])
             /\ g[d] \in DirKind /\ EntryOK(g, g[d].page[p]) /\ g[d].page[p].attr \in Has(g, em[m])
             /\ g[g[d].page[p].attr] \in PageKind
<1> DEFINE e == em[m]
           d == e.dir
           g == PageIn(d, p, h)
<1>1. /\ e \in Emu /\ PointersOK(h, e) /\ h \in [Block -> AnyKind] /\ e # Gone
      /\ em \in [Id -> Emu \cup {Gone}]
  BY DEF Sound
<1>2. /\ e.io \in Block /\ e.msr \in Block /\ e.buf \in Block \cup {Nil}
      /\ d \in Block /\ Has(h, e) \subseteq Block
      /\ \A b \in Has(h, e) : h[b] # Free
      /\ \A q \in Page : h[d].page[q] \in Entry
  BY <1>1, HasBlocks
<1>3. DirOK(h, d) /\ h[d] \in DirKind
  BY <1>1 DEF PointersOK, DirOK
<1>4. CASE h[d].page[p].attr # Nil
  <2>1. g = h
    BY <1>4 DEF PageIn
  <2>2. Others(em, h, em, g, m) /\ SameRest(h, e, g, e)
    BY <2>1 DEF Others, SameRest
  <2>3. EntryOK(h, h[d].page[p])
    BY <1>3 DEF DirOK
  <2>4. h[d].page[p].attr \in Has(h, e)
    BY <1>1, <1>4 DEF Has, PagesIn
  <2>5. h[h[d].page[p].attr] \in PageKind
    BY <1>4, <2>3 DEF EntryOK
  <2> QED BY <1>3, <2>1, <2>2, <2>3, <2>4, <2>5
<1>5. CASE h[d].page[p].attr = Nil
  <2> DEFINE b == New(h)
             c == [h[d] EXCEPT !.page[p].attr = b, !.page[p].data = b]
             a == PageBlock(h[d].page[p].def)
  <2>1. g = [[h EXCEPT ![b] = a] EXCEPT ![d] = c]
    BY <1>5 DEF PageIn, With
  <2>2. b \in Block /\ h[b] = Free
    <3>1. <<"page", p>> \in Slot
      BY DEF Slot, PageSlot
    <3>2. Unused(em, h, <<m, <<"page", p>>>>)
      BY <1>5 DEF Unused, Pointer
    <3> QED BY <3>1, <3>2, RoomForOne
  <2>3. b \notin Has(h, e) /\ b # Nil
    BY <1>2, <2>2, NilIsNoBlock
  <2>4. b # d /\ e.io # b /\ e.msr # b /\ (e.buf # Nil => e.buf # b)
    BY <1>1, <2>3 DEF Has
  <2>5. /\ e.io # d /\ e.msr # d /\ (e.buf # Nil => e.buf # d)
    BY <1>1, <1>3, KindsApart DEF PointersOK
  <2>6. a \in PageKind
    <3>1. h[d].page[p].def \in SUBSET MemFlag
      BY <1>2 DEF Entry
    <3> QED BY <3>1 DEF PageBlock, PageKind, Value
  <2>7. /\ c \in DirKind
        /\ c.page[p].attr = b /\ c.page[p].data = b
        /\ \A q \in Page : q # p => c.page[q] = h[d].page[q]
    <3>1. h[d].page[p] \in Entry /\ h[d].page \in [Page -> Entry]
      BY <1>2, <1>3 DEF DirKind
    <3> QED BY <1>3, <2>2, <3>1 DEF DirKind, Entry
  <2> HIDE DEF a, b, c
  <2>8. /\ g \in [Block -> AnyKind] /\ g[d] = c /\ g[b] = a
        /\ \A x \in Block : x # d /\ x # b => g[x] = h[x]
    BY <1>1, <1>2, <2>1, <2>2, <2>4, <2>6, <2>7 DEF AnyKind
  <2> HIDE DEF g
  <2>9. \A q \in Page : h[d].page[q].attr # Nil =>
          h[d].page[q].attr # b /\ h[d].page[q].attr # d /\ h[d].page[q].attr \in Block
                                /\ h[h[d].page[q].attr] \in PageKind
    <3> SUFFICES ASSUME NEW q \in Page, h[d].page[q].attr # Nil
                 PROVE  /\ h[d].page[q].attr # b /\ h[d].page[q].attr # d
                        /\ h[d].page[q].attr \in Block /\ h[h[d].page[q].attr] \in PageKind
      OBVIOUS
    <3>1. h[d].page[q].attr \in Has(h, e)
      BY <1>1 DEF Has, PagesIn
    <3>2. h[h[d].page[q].attr] \in PageKind
      BY <1>3 DEF DirOK, EntryOK
    <3> QED BY <1>2, <1>3, <2>3, <3>1, <3>2, KindsApart
  <2>10. ASSUME NEW q \in Page PROVE EntryOK(g, g[d].page[q])
    <3>1. CASE q = p
      BY <3>1, <2>3, <2>6, <2>7, <2>8 DEF EntryOK
    <3>2. CASE q # p
      <4>1. EntryOK(h, h[d].page[q])
        BY <1>3 DEF DirOK
      <4> QED BY <3>2, <4>1, <2>7, <2>8, <2>9 DEF EntryOK
    <3> QED BY <3>1, <3>2
  <2>11. DirOK(g, d)
    <3>1. ASSUME NEW q \in Page, NEW r \in Page, q # r, g[d].page[q].attr # Nil
          PROVE  g[d].page[q].attr # g[d].page[r].attr
      BY <3>1, <1>3, <2>3, <2>7, <2>8, <2>9 DEF DirOK
    <3> QED BY <3>1, <2>7, <2>8, <2>10 DEF DirOK
  <2>12. PointersOK(g, e)
    BY <1>1, <1>2, <2>4, <2>5, <2>8, <2>11 DEF PointersOK
  <2>13. PagesIn(g, d) = PagesIn(h, d) \cup {b}
    BY <1>5, <2>3, <2>7, <2>8 DEF PagesIn
  <2>14. Has(g, e) = Has(h, e) \cup {b}
    BY <1>1, <2>13 DEF Has
  <2>15. SameRest(h, e, g, e)
    BY <1>2, <2>4, <2>5, <2>8 DEF SameRest, LogIn
  <2>16. d \in Has(h, e)
    BY <1>1 DEF Has
  <2>17. /\ \A x \in Has(g, e) : x \in Has(h, em[m]) \/ h[x] = Free
         /\ \A x \in Block : x \notin Has(h, em[m]) /\ x \notin Has(g, e) => g[x] = h[x]
         /\ \A x \in Block : x \in Has(h, em[m]) /\ x \notin Has(g, e) => g[x] = Free
    BY <2>2, <2>8, <2>14, <2>16
  <2>18. LET en == [em EXCEPT ![m] = e] IN Sound(en, g) /\ Others(em, h, en, g, m)
    <3>1. e \in Emu \cup {Gone}
      BY <1>1
    <3> HIDE DEF e
    <3> QED BY <3>1, <2>8, <2>12, <2>17, LocalStep
  <2>19. [em EXCEPT ![m] = e] = em
    BY <1>1
  <2>20. g[d].page[p].attr = b /\ g[b] \in PageKind /\ g[d] \in DirKind
    BY <2>6, <2>7, <2>8
  <2> QED BY <2>10, <2>14, <2>15, <2>18, <2>19, <2>20 DEF g
<1> QED BY <1>4, <1>5

(* vm_get_page() *)
LEMMA MadeStep ==
  ASSUME Sound(emu, heap), NEW m \in Id, emu[m] # Gone, NEW p \in Page
  PROVE  LET g  == PageMade(m, p, heap)
             d  == GetDir(m, heap)
             en == [emu EXCEPT ![m].dir = d]
         IN  /\ Sound(en, g) /\ Others(emu, heap, en, g, m) /\ SameRest(heap, emu[m], g, en[m])
             /\ en[m] \in Emu /\ en[m].dir = d /\ d \in Block /\ g[d] \in DirKind
             /\ EntryOK(g, g[d].page[p]) /\ g[d].page[p].attr \in Has(g, en[m])
             /\ g[g[d].page[p].attr] \in PageKind
<1> DEFINE g  == PageMade(m, p, heap)
           d  == GetDir(m, heap)
           h1 == DirMade(m, heap)
           n  == [emu[m] EXCEPT !.dir = d]
           en == [emu EXCEPT ![m] = n]
<1>1. /\ Sound(en, h1) /\ Others(emu, heap, en, h1, m)
      /\ n \in Emu /\ n.dir \in Block /\ n.dir = d /\ en[m] = n
      /\ SameRest(heap, emu[m], h1, n)
  BY DirStep
<1>2. g = PageIn(d, p, h1)
  BY DEF PageMade, PageIn
<1>3. en = [emu EXCEPT ![m].dir = d]
  OBVIOUS
<1> HIDE DEF g, d, h1, n, en
<1>4. en[m] # Gone /\ en[m].dir # Nil
  BY <1>1, KindsApart, NilIsNoBlock
<1>5. /\ Sound(en, g) /\ Others(en, h1, en, g, m)
      /\ SameRest(h1, n, g, n)
      /\ g[d] \in DirKind /\ EntryOK(g, g[d].page[p]) /\ g[d].page[p].attr \in Has(g, n)
      /\ g[g[d].page[p].attr] \in PageKind
  <2>1. LET dd == en[m].dir
            gg == PageIn(dd, p, h1)
        IN  /\ Sound(en, gg) /\ Others(en, h1, en, gg, m)
            /\ SameRest(h1, en[m], gg, en[m])
            /\ gg[dd] \in DirKind /\ EntryOK(gg, gg[dd].page[p])
            /\ gg[dd].page[p].attr \in Has(gg, en[m])
            /\ gg[gg[dd].page[p].attr] \in PageKind
    BY <1>1, <1>4, PageStep
  <2> QED BY <2>1, <1>1, <1>2
<1>6. Others(emu, heap, en, g, m)
  BY <1>1, <1>5, OthersTwice
<1>7. SameRest(heap, emu[m], g, n)
  BY <1>1, <1>5 DEF SameRest
<1> QED BY <1>1, <1>3, <1>5, <1>6, <1>7 DEF g, d

-----------------------------------------------------------------------------
(* A request to machine m: all stays sound, no other machine is touched.   *)
Stays(m) ==
  Sound(emu', heap') /\ Others(emu, heap, emu', heap', m)

(* A page, or the directory entry of one, is changed afterwards. *)
LEMMA AfterMade ==
  ASSUME Sound(emu, heap), NEW m \in Id, NEW h, NEW en, NEW g,
         Sound(en, h), Others(emu, heap, en, h, m), SameRest(heap, emu[m], h, en[m]),
         en[m] # Gone, NEW b \in Has(h, en[m]), NEW c,
         g = [h EXCEPT ![b] = c],
         \/ h[b] \in PageKind /\ c \in PageKind
         \/ /\ b = en[m].dir /\ en[m].dir # Nil /\ c \in DirKind
            /\ \A p \in Page : c.page[p].attr = h[b].page[p].attr /\ EntryOK(h, c.page[p])
  PROVE  /\ Sound(en, g) /\ Others(emu, heap, en, g, m) /\ SameRest(heap, emu[m], g, en[m])
         /\ Has(g, en[m]) = Has(h, en[m])
<1> DEFINE e == en[m]
<1>1. /\ e \in Emu /\ PointersOK(h, e) /\ h \in [Block -> AnyKind]
      /\ en \in [Id -> Emu \cup {Gone}]
  BY DEF Sound
<1>2. g \in [Block -> AnyKind] /\ PointersOK(g, e) /\ Has(g, e) = Has(h, e)
  <2>1. CASE h[b] \in PageKind /\ c \in PageKind
    <3> HIDE DEF e
    <3>1. b \in Has(h, e)
      BY DEF e
    <3> QED BY <1>1, <2>1, <3>1, SameKind, ZenonT(60)
  <2>2. CASE /\ b = e.dir /\ e.dir # Nil /\ c \in DirKind
             /\ \A p \in Page : c.page[p].attr = h[b].page[p].attr /\ EntryOK(h, c.page[p])
    <3> HIDE DEF e
    <3> QED BY <1>1, <2>2, SameDir, ZenonT(60)
  <2> QED BY <2>1, <2>2
<1>3. b \in Block
  BY <1>1, HasBlocks
<1>4. /\ g[b] = c /\ \A x \in Block : x # b => g[x] = h[x]
  BY <1>1, <1>3
<1>5. \A x \in Block : x \notin Has(h, e) => g[x] = h[x]
  BY <1>4
<1>6. LET eo == [en EXCEPT ![m] = e] IN Sound(eo, g) /\ Others(en, h, eo, g, m)
  BY <1>1, <1>2, <1>5, SameBlocks
<1>7. [en EXCEPT ![m] = e] = en
  BY <1>1
<1>8. Sound(en, g) /\ Others(en, h, en, g, m)
  BY <1>6, <1>7
<1>9. Others(emu, heap, en, g, m)
  BY <1>8, OthersTwice
<1>10. e.io \in Block /\ e.buf \in Block \cup {Nil}
  BY <1>1, HasBlocks
<1>11. e.io # b /\ (e.buf # Nil => e.buf # b)
  <2>1. h[b] \in PageKind \/ h[b] \in DirKind
    BY <1>1 DEF PointersOK, DirOK
  <2> QED BY <1>1, <2>1, KindsApart DEF PointersOK
<1>12. SameRest(h, e, g, e)
  BY <1>4, <1>10, <1>11 DEF SameRest, LogIn
<1>13. SameRest(heap, emu[m], g, e)
  BY <1>12 DEF SameRest
<1> QED BY <1>2, <1>8, <1>9, <1>13

(* vm_w_byte(), which creates what it writes to *)
LEMMA WriteCellStays ==
  ASSUME Sound(emu, heap), NEW m \in Id, NEW p \in Page, NEW v \in ValueArg,
         WriteCell(m, p, v)
  PROVE  Stays(m) /\ emu'[m] # Gone /\ SameRest(heap, emu[m], heap', emu'[m])
<1> DEFINE h  == PageMade(m, p, heap)
           d  == GetDir(m, heap)
           en == [emu EXCEPT ![m].dir = d]
           x  == h[d].page[p]
           a  == x.attr
           ok == "W" \in h[a].attr
           c  == [h[a] EXCEPT !.attr =
                    @ \cup (IF ok THEN {"VALID", "accW"} ELSE {"accINVALID"})]
           h1 == [h EXCEPT ![a] = c]
           f  == [c EXCEPT !.data = v]
           h2 == [h1 EXCEPT ![a] = f]
<1>1. emu[m] # Gone
  BY DEF WriteCell, Live
<1>2. /\ Sound(en, h) /\ Others(emu, heap, en, h, m) /\ SameRest(heap, emu[m], h, en[m])
      /\ en[m] \in Emu /\ EntryOK(h, x) /\ a \in Has(h, en[m]) /\ h[a] \in PageKind
  BY <1>1, MadeStep
<1>3. /\ c \in PageKind /\ f \in PageKind
  BY <1>2 DEF PageKind, MemFlag, Value
<1>4. a \in Block /\ h \in [Block -> AnyKind]
  BY <1>2, HasBlocks, KindsApart DEF Sound
<1>5. x.data \in Block => x.data = a
  BY <1>2, <1>4, NilIsNoBlock DEF EntryOK
<1>6. emu' = en /\ heap' = IF ok /\ x.data \in Block THEN h2 ELSE h1
  <2>1. h1 = [h EXCEPT ![a].attr = @ \cup (IF ok THEN {"VALID", "accW"} ELSE {"accINVALID"})]
    BY <1>4
  <2>2. h1[a] = c
    BY <1>4
  <2>3. [h1 EXCEPT ![a].data = v] = h2
    BY <1>4, <2>2
  <2> QED BY <1>5, <2>1, <2>3 DEF WriteCell
<1>7. en[m] # Gone
  BY <1>2, KindsApart
<1>8. h1[a] \in PageKind
  BY <1>3, <1>4
<1> HIDE DEF h, d, en, x, a, ok, c, f, h1, h2
<1>9. /\ Sound(en, h1) /\ Others(emu, heap, en, h1, m) /\ SameRest(heap, emu[m], h1, en[m])
      /\ Has(h1, en[m]) = Has(h, en[m])
  <2>1. h1 = [h EXCEPT ![a] = c]
    BY DEF h1
  <2> QED BY <1>2, <1>3, <1>7, <2>1, AfterMade
<1>10. /\ Sound(en, h2) /\ Others(emu, heap, en, h2, m) /\ SameRest(heap, emu[m], h2, en[m])
  <2>1. h2 = [h1 EXCEPT ![a] = f] /\ a \in Has(h1, en[m])
    BY <1>2, <1>9 DEF h2
  <2> QED BY <1>3, <1>7, <1>8, <1>9, <2>1, AfterMade
<1> QED BY <1>6, <1>7, <1>9, <1>10 DEF Stays

(* x86emu_set_page() with an address *)
LEMMA SetPageStays ==
  ASSUME Sound(emu, heap), NEW m \in Id, NEW p \in Page, NEW hp \in HostPage,
         SetPage(m, p, hp)
  PROVE  Stays(m) /\ emu'[m] # Gone /\ SameRest(heap, emu[m], heap', emu'[m])
<1> DEFINE h  == PageMade(m, p, heap)
           d  == GetDir(m, heap)
           en == [emu EXCEPT ![m].dir = d]
           a  == h[d].page[p].attr
           c  == [h[d] EXCEPT !.page[p].data = hp]
           h1 == [h EXCEPT ![d] = c]
           f  == [h[a] EXCEPT !.attr = @ \cup {"VALID"}]
           h2 == [h1 EXCEPT ![a] = f]
<1>1. emu[m] # Gone
  BY DEF SetPage, Live
<1>2. /\ Sound(en, h) /\ Others(emu, heap, en, h, m) /\ SameRest(heap, emu[m], h, en[m])
      /\ en[m] \in Emu /\ en[m].dir = d /\ d \in Block /\ h[d] \in DirKind
      /\ EntryOK(h, h[d].page[p]) /\ a \in Has(h, en[m]) /\ h[a] \in PageKind
  BY <1>1, MadeStep
<1>3. f \in PageKind
  BY <1>2 DEF PageKind, MemFlag
<1>4. a \in Block /\ a # d /\ h \in [Block -> AnyKind] /\ en[m] # Gone /\ d # Nil
  BY <1>2, HasBlocks, KindsApart, NilIsNoBlock DEF Sound
<1>5. PointersOK(h, en[m]) /\ DirOK(h, d)
  BY <1>2, <1>4 DEF Sound, PointersOK
<1>6. /\ c \in DirKind
      /\ \A q \in Page : c.page[q].attr = h[d].page[q].attr /\ EntryOK(h, c.page[q])
  <2>1. h[d].page \in [Page -> Entry] /\ h[d].page[p] \in Entry
    BY <1>2 DEF DirKind
  <2>2. c \in DirKind /\ c.page[p] = [h[d].page[p] EXCEPT !.data = hp]
        /\ \A q \in Page : q # p => c.page[q] = h[d].page[q]
    BY <1>2, <2>1 DEF DirKind, Entry
  <2>3. a # Nil
    BY <1>4, NilIsNoBlock
  <2>4. c.page[p].attr = a /\ c.page[p].data = hp
    BY <2>1, <2>2 DEF Entry
  <2>5. EntryOK(h, c.page[p])
    BY <1>2, <2>3, <2>4 DEF EntryOK
  <2>6. ASSUME NEW q \in Page PROVE c.page[q].attr = h[d].page[q].attr /\ EntryOK(h, c.page[q])
    <3>1. CASE q = p
      BY <3>1, <2>4, <2>5
    <3>2. CASE q # p
      BY <3>2, <1>5, <2>2 DEF DirOK
    <3> QED BY <3>1, <3>2
  <2> HIDE DEF c
  <2> QED BY <2>2, <2>6
<1>7. emu' = en /\ heap' = h2
  <2>1. heap' = [h EXCEPT ![d].page[p].data = hp, ![a].attr = @ \cup {"VALID"}]
    BY DEF SetPage
  <2>2. h1 = [h EXCEPT ![d].page[p].data = hp] /\ h1[a] = h[a]
    BY <1>4
  <2>3. heap' = [h1 EXCEPT ![a].attr = @ \cup {"VALID"}]
    BY <2>1, <2>2
  <2>4. heap' = h2
    BY <1>4, <2>2, <2>3
  <2> QED BY <2>4 DEF SetPage
<1>8. h1[a] = h[a]
  BY <1>4
<1> HIDE DEF h, d, en, a, c, f, h1, h2
<1>9. d \in Has(h, en[m])
  BY <1>2, <1>4 DEF Has
<1>10. /\ Sound(en, h1) /\ Others(emu, heap, en, h1, m) /\ SameRest(heap, emu[m], h1, en[m])
       /\ Has(h1, en[m]) = Has(h, en[m])
  <2>1. h1 = [h EXCEPT ![d] = c]
    BY DEF h1
  <2>2. /\ d = en[m].dir /\ en[m].dir # Nil /\ c \in DirKind
        /\ \A q \in Page : c.page[q].attr = h[d].page[q].attr /\ EntryOK(h, c.page[q])
    BY <1>2, <1>4, <1>6
  <2>3. Sound(en, h) /\ Others(emu, heap, en, h, m) /\ SameRest(heap, emu[m], h, en[m])
    BY <1>2
  <2>4. en[m] # Gone /\ d \in Has(h, en[m])
    BY <1>4, <1>9
  <2> QED BY <2>1, <2>2, <2>3, <2>4, AfterMade, ZenonT(60)
<1>11. /\ Sound(en, h2) /\ Others(emu, heap, en, h2, m) /\ SameRest(heap, emu[m], h2, en[m])
  <2>1. h2 = [h1 EXCEPT ![a] = f] /\ a \in Has(h1, en[m]) /\ h1[a] \in PageKind
    BY <1>2, <1>8, <1>10 DEF h2
  <2> QED BY <1>3, <1>4, <1>10, <2>1, AfterMade
<1> QED BY <1>4, <1>7, <1>11 DEF Stays

(* x86emu_set_page() with NULL *)
LEMMA ClearPageStays ==
  ASSUME Sound(emu, heap), NEW m \in Id, NEW p \in Page, ClearPage(m, p)
  PROVE  Stays(m) /\ emu'[m] # Gone /\ SameRest(heap, emu[m], heap', emu'[m])
<1> DEFINE h  == PageMade(m, p, heap)
           d  == GetDir(m, heap)
           en == [emu EXCEPT ![m].dir = d]
           a  == h[d].page[p].attr
           c  == [h[d] EXCEPT !.page[p].data = a]
           h1 == [h EXCEPT ![d] = c]
<1>1. emu[m] # Gone
  BY DEF ClearPage, Live
<1>2. /\ Sound(en, h) /\ Others(emu, heap, en, h, m) /\ SameRest(heap, emu[m], h, en[m])
      /\ en[m] \in Emu /\ en[m].dir = d /\ d \in Block /\ h[d] \in DirKind
      /\ EntryOK(h, h[d].page[p]) /\ a \in Has(h, en[m]) /\ h[a] \in PageKind
  BY <1>1, MadeStep
<1>4. a \in Block /\ a # d /\ h \in [Block -> AnyKind] /\ en[m] # Gone /\ d # Nil
  BY <1>2, HasBlocks, KindsApart, NilIsNoBlock DEF Sound
<1>5. PointersOK(h, en[m]) /\ DirOK(h, d)
  BY <1>2, <1>4 DEF Sound, PointersOK
<1>6. /\ c \in DirKind
      /\ \A q \in Page : c.page[q].attr = h[d].page[q].attr /\ EntryOK(h, c.page[q])
  <2>1. h[d].page \in [Page -> Entry] /\ h[d].page[p] \in Entry
    BY <1>2 DEF DirKind
  <2>2. c \in DirKind /\ c.page[p] = [h[d].page[p] EXCEPT !.data = a]
        /\ \A q \in Page : q # p => c.page[q] = h[d].page[q]
    BY <1>2, <1>4, <2>1 DEF DirKind, Entry
  <2>3. a # Nil
    BY <1>4, NilIsNoBlock
  <2>4. c.page[p].attr = a /\ c.page[p].data = a
    BY <2>1, <2>2 DEF Entry
  <2>5. EntryOK(h, c.page[p])
    BY <1>2, <2>3, <2>4 DEF EntryOK
  <2>6. ASSUME NEW q \in Page PROVE c.page[q].attr = h[d].page[q].attr /\ EntryOK(h, c.page[q])
    <3>1. CASE q = p
      BY <3>1, <2>4, <2>5
    <3>2. CASE q # p
      BY <3>2, <1>5, <2>2 DEF DirOK
    <3> QED BY <3>1, <3>2
  <2> HIDE DEF c
  <2> QED BY <2>2, <2>6
<1>7. emu' = en /\ heap' = h1
  BY DEF ClearPage
<1> HIDE DEF h, d, en, a, c, h1
<1>9. d \in Has(h, en[m])
  BY <1>2, <1>4 DEF Has
<1>10. /\ Sound(en, h1) /\ Others(emu, heap, en, h1, m) /\ SameRest(heap, emu[m], h1, en[m])
  <2>1. h1 = [h EXCEPT ![d] = c]
    BY DEF h1
  <2>2. /\ d = en[m].dir /\ en[m].dir # Nil /\ c \in DirKind
        /\ \A q \in Page : c.page[q].attr = h[d].page[q].attr /\ EntryOK(h, c.page[q])
    BY <1>2, <1>4, <1>6
  <2>3. Sound(en, h) /\ Others(emu, heap, en, h, m) /\ SameRest(heap, emu[m], h, en[m])
    BY <1>2
  <2>4. en[m] # Gone /\ d \in Has(h, en[m])
    BY <1>4, <1>9
  <2> QED BY <2>1, <2>2, <2>3, <2>4, AfterMade
<1> QED BY <1>4, <1>7, <1>10 DEF Stays

(* x86emu_set_perm(), which creates the directory only *)
LEMMA SetPermStays ==
  ASSUME Sound(emu, heap), NEW m \in Id, NEW p \in Page, NEW perm \in PermArg,
         SetPerm(m, p, perm)
  PROVE  Stays(m) /\ emu'[m] # Gone /\ SameRest(heap, emu[m], heap', emu'[m])
<1> DEFINE h  == DirMade(m, heap)
           d  == GetDir(m, heap)
           n  == [emu[m] EXCEPT !.dir = d]
           en == [emu EXCEPT ![m] = n]
           a  == h[d].page[p].attr
           c  == [h[d] EXCEPT !.page[p].def = perm]
           h1 == [h EXCEPT ![d] = c]
           f  == [h[a] EXCEPT !.attr = perm]
           h2 == [h1 EXCEPT ![a] = f]
<1>1. emu[m] # Gone
  BY DEF SetPerm, Live
<1>2. /\ Sound(en, h) /\ Others(emu, heap, en, h, m) /\ SameRest(heap, emu[m], h, en[m])
      /\ en[m] \in Emu /\ en[m].dir = d /\ d \in Block
  BY <1>1, DirStep
<1>4. h \in [Block -> AnyKind] /\ en[m] # Gone /\ d # Nil
  BY <1>2, KindsApart, NilIsNoBlock DEF Sound
<1>5. PointersOK(h, en[m]) /\ DirOK(h, d) /\ h[d] \in DirKind
  <2>1. PointersOK(h, en[m])
    BY <1>2, <1>4, Zenon DEF Sound
  <2>2. DirOK(h, d)
    BY <1>2, <1>4, <2>1, Zenon DEF PointersOK
  <2> QED BY <2>1, <2>2, Zenon DEF DirOK
<1>6. /\ c \in DirKind
      /\ \A q \in Page : c.page[q].attr = h[d].page[q].attr /\ EntryOK(h, c.page[q])
  <2>0. perm \in SUBSET MemFlag
    BY LifeAssumption
  <2>1. h[d].page \in [Page -> Entry] /\ h[d].page[p] \in Entry
    BY <1>5 DEF DirKind
  <2>2. c \in DirKind /\ c.page[p] = [h[d].page[p] EXCEPT !.def = perm]
        /\ \A q \in Page : q # p => c.page[q] = h[d].page[q]
    BY <1>5, <2>0, <2>1 DEF DirKind, Entry
  <2>4. c.page[p].attr = a /\ c.page[p].data = h[d].page[p].data
    BY <2>1, <2>2 DEF Entry
  <2>5. EntryOK(h, c.page[p])
    BY <1>5, <2>4 DEF EntryOK, DirOK
  <2>6. ASSUME NEW q \in Page PROVE c.page[q].attr = h[d].page[q].attr /\ EntryOK(h, c.page[q])
    <3>1. CASE q = p
      BY <3>1, <2>4, <2>5
    <3>2. CASE q # p
      BY <3>2, <1>5, <2>2 DEF DirOK
    <3> QED BY <3>1, <3>2
  <2> HIDE DEF c
  <2> QED BY <2>2, <2>6
<1>7. ASSUME a # Nil PROVE /\ a \in Has(h, en[m]) /\ a \in Block /\ h[a] \in PageKind /\ a # d
                           /\ f \in PageKind
  <2>1. h[a] \in PageKind
    BY <1>5, <1>7 DEF DirOK, EntryOK
  <2>2. a \in Has(h, en[m])
    BY <1>2, <1>4, <1>7 DEF Has, PagesIn
  <2>3. a \in Block /\ a # d
    BY <1>2, <1>4, <1>5, <2>1, <2>2, HasBlocks, KindsApart DEF Sound
  <2>4. f \in PageKind
    BY <2>1, LifeAssumption DEF PageKind
  <2> QED BY <2>1, <2>2, <2>3, <2>4
<1>8. /\ emu' = en /\ heap' = IF a # Nil THEN h2 ELSE h1
      /\ a # Nil => h1[a] = h[a]
  <2>1. emu' = en
    BY DEF SetPerm
  <2>2. a # Nil => h1[a] = h[a]
    BY <1>4, <1>7
  <2>3. a # Nil => [h1 EXCEPT ![a].attr = perm] = h2
    BY <1>4, <1>7, <2>2
  <2> QED BY <2>1, <2>2, <2>3 DEF SetPerm
<1> HIDE DEF h, d, en, n, a, c, f, h1, h2
<1>9. d \in Has(h, en[m])
  BY <1>2, <1>4 DEF Has
<1>10. /\ Sound(en, h1) /\ Others(emu, heap, en, h1, m) /\ SameRest(heap, emu[m], h1, en[m])
       /\ Has(h1, en[m]) = Has(h, en[m])
  <2>1. h1 = [h EXCEPT ![d] = c]
    BY DEF h1
  <2>2. /\ d = en[m].dir /\ en[m].dir # Nil /\ c \in DirKind
        /\ \A q \in Page : c.page[q].attr = h[d].page[q].attr /\ EntryOK(h, c.page[q])
    BY <1>2, <1>4, <1>6
  <2>3. Sound(en, h) /\ Others(emu, heap, en, h, m) /\ SameRest(heap, emu[m], h, en[m])
    BY <1>2
  <2>4. en[m] # Gone /\ d \in Has(h, en[m])
    BY <1>4, <1>9
  <2> QED BY <2>1, <2>2, <2>3, <2>4, AfterMade, ZenonT(60)
<1>11. ASSUME a # Nil
       PROVE  /\ Sound(en, h2) /\ Others(emu, heap, en, h2, m)
              /\ SameRest(heap, emu[m], h2, en[m])
  <2>1. h2 = [h1 EXCEPT ![a] = f] /\ a \in Has(h1, en[m]) /\ h1[a] \in PageKind
    BY <1>7, <1>8, <1>10, <1>11 DEF h2
  <2> QED BY <1>4, <1>7, <1>10, <1>11, <2>1, AfterMade
<1> QED BY <1>4, <1>8, <1>10, <1>11 DEF Stays

-----------------------------------------------------------------------------
(* What the log holds *)
LogType == [size : Nat, used : Nat, flush : BOOLEAN, text : Seq(Nat)]

(* A text at the end of another, element by element *)
LEMMA EndsWithAt ==
  ASSUME NEW s \in Seq(Nat), NEW t \in Seq(Nat)
  PROVE  EndsWith(s, t) <=>
           Len(t) <= Len(s) /\ \A i \in 1 .. Len(t) : t[i] = s[Len(s) - Len(t) + i]
<1> DEFINE k == Len(s) - Len(t) + 1
           u == SubSeq(s, k, Len(s))
<1>1. Len(s) \in Nat /\ Len(t) \in Nat
  BY LenProperties
<1>2. SUFFICES ASSUME Len(t) <= Len(s)
               PROVE  u = t <=> \A i \in 1 .. Len(t) : t[i] = s[Len(s) - Len(t) + i]
  BY DEF EndsWith
<1>3. k \in Int /\ Len(s) \in Int /\ \A i \in k .. Len(s) : i \in 1 .. Len(s)
  BY <1>1, <1>2, SMT
<1>4. \A i \in k .. Len(s) : s[i] \in Nat
  BY <1>3, ElementOfSeq
<1>5. /\ u \in Seq(Nat)
      /\ Len(u) = IF k <= Len(s) THEN Len(s) - k + 1 ELSE 0
      /\ \A i \in 1 .. Len(s) - k + 1 : u[i] = s[k + i - 1]
  <2> HIDE DEF k
  <2> QED BY <1>3, <1>4, SubSeqProperties
<1>6. Len(u) = Len(t) /\ \A i \in 1 .. Len(t) : u[i] = s[Len(s) - Len(t) + i]
  <2>1. Len(u) = Len(t)
    BY <1>1, <1>2, <1>5, SMT
  <2>2. ASSUME NEW i \in 1 .. Len(t) PROVE u[i] = s[Len(s) - Len(t) + i]
    <3>1. i \in 1 .. Len(s) - k + 1 /\ k + i - 1 = Len(s) - Len(t) + i
      BY <1>1, <1>2, SMT
    <3> QED BY <1>5, <3>1
  <2> QED BY <2>1, <2>2
<1> HIDE DEF u, k
<1>7. ASSUME \A i \in 1 .. Len(t) : t[i] = s[Len(s) - Len(t) + i] PROVE u = t
  <2>1. \A i \in 1 .. Len(u) : u[i] = t[i]
    BY <1>6, <1>7
  <2> QED BY <1>5, <1>6, <2>1, SeqEqual
<1> QED BY <1>6, <1>7

(* What is appended to both keeps one at the end of the other. *)
LEMMA EndsWithAppend ==
  ASSUME NEW s \in Seq(Nat), NEW t \in Seq(Nat), NEW n \in Nat, EndsWith(s, t)
  PROVE  EndsWith(Append(s, n), Append(t, n))
<1> DEFINE sn == Append(s, n)
           tn == Append(t, n)
<1>1. Len(s) \in Nat /\ Len(t) \in Nat
  BY LenProperties
<1>2. /\ sn \in Seq(Nat) /\ Len(sn) = Len(s) + 1
      /\ \A i \in 1 .. Len(s) : sn[i] = s[i]
      /\ sn[Len(s) + 1] = n
      /\ tn \in Seq(Nat) /\ Len(tn) = Len(t) + 1
      /\ \A i \in 1 .. Len(t) : tn[i] = t[i]
      /\ tn[Len(t) + 1] = n
  BY AppendProperties
<1>3. Len(t) <= Len(s) /\ \A i \in 1 .. Len(t) : t[i] = s[Len(s) - Len(t) + i]
  BY EndsWithAt
<1> HIDE DEF sn, tn
<1>4. ASSUME NEW i \in 1 .. Len(tn) PROVE tn[i] = sn[Len(sn) - Len(tn) + i]
  <2>1. CASE i = Len(t) + 1
    <3>1. Len(sn) - Len(tn) + i = Len(s) + 1
      BY <1>1, <1>2, <2>1, SMT
    <3> QED BY <1>2, <2>1, <3>1
  <2>2. CASE i # Len(t) + 1
    <3>0. Len(sn) = Len(s) + 1 /\ Len(tn) = Len(t) + 1 /\ Len(t) <= Len(s) /\ i \in Int
      BY <1>2, <1>3
    <3>1. i \in 1 .. Len(t) /\ Len(s) - Len(t) + i \in 1 .. Len(s)
          /\ Len(sn) - Len(tn) + i = Len(s) - Len(t) + i
      BY <1>1, <2>2, <3>0, SMT
    <3> DEFINE j == Len(s) - Len(t) + i
    <3>2. tn[i] = t[i] /\ j \in 1 .. Len(s)
      BY <1>2, <3>1
    <3>3. t[i] = s[j]
      BY <1>3, <3>1
    <3> HIDE DEF j
    <3>4. sn[j] = s[j]
      BY <1>2, <3>2
    <3> QED BY <3>1, <3>2, <3>3, <3>4 DEF j
  <2> QED BY <2>1, <2>2
<1>5. Len(tn) <= Len(sn)
  BY <1>1, <1>2, <1>3, SMT
<1>6. EndsWith(sn, tn)
  BY <1>2, <1>4, <1>5, EndsWithAt
<1> QED BY <1>6 DEF sn, tn

(* An empty text is at the end of any. *)
LEMMA EndsWithNothing ==
  ASSUME NEW s \in Seq(Nat)
  PROVE  EndsWith(s, <<>>)
<1>1. <<>> \in Seq(Nat) /\ Len(<<>>) = 0 /\ Len(s) \in Nat
  BY EmptySeq, LenProperties
<1>2. Len(<<>>) <= Len(s) /\ \A i \in 1 .. Len(<<>>) : <<>>[i] = s[Len(s) - Len(<<>>) + i]
  BY <1>1, SMT
<1> QED BY <1>1, <1>2, EndsWithAt

(* The text with one more message *)
LEMMA AppendText ==
  ASSUME NEW s \in Seq(Nat), NEW t \in Seq(Nat), NEW n \in Nat
  PROVE  /\ Append(t, n) \in Seq(Nat) /\ s \o t \in Seq(Nat)
         /\ Append(s \o t, n) = s \o Append(t, n)
         /\ Append(<<>>, n) = <<n>> /\ Append(s, n) = s \o <<n>>
<1>1. <<n>> \in Seq(Nat) /\ <<>> \in Seq(Nat)
  OBVIOUS
<1>2. s \o t \in Seq(Nat)
  BY ConcatProperties
<1>3. Append(s \o t, n) = (s \o t) \o <<n>> /\ Append(t, n) = t \o <<n>>
      /\ Append(s, n) = s \o <<n>> /\ Append(<<>>, n) = <<>> \o <<n>>
  BY <1>1, <1>2, AppendIsConcat
<1>4. (s \o t) \o <<n>> = s \o (t \o <<n>>)
  BY <1>1, ConcatAssociative
<1>5. Append(t, n) \in Seq(Nat)
  BY AppendProperties
<1>6. <<>> \o <<n>> = <<n>>
  BY <1>1, ConcatEmptySeq
<1> QED BY <1>2, <1>3, <1>4, <1>5, <1>6

(* A log that is emptied: what the flush function gets and what is kept *)
LEMMA ClearedTold ==
  ASSUME NEW log \in LogType, NEW sent \in Seq(Nat)
  PROVE  /\ Cleared(log) \in LogType /\ Flushed(log) \in Seq(Nat)
         /\ sent \o Flushed(log) \in Seq(Nat)
         /\ Cleared(log).size = log.size /\ Cleared(log).used = 0
         /\ Cleared(log).flush = log.flush /\ Cleared(log).text = <<>>
<1>1. Flushed(log) \in Seq(Nat)
  BY EmptySeq DEF Flushed, LogType
<1>2. sent \o Flushed(log) \in Seq(Nat)
  BY <1>1, ConcatProperties
<1>3. /\ Cleared(log) \in LogType
      /\ Cleared(log).size = log.size /\ Cleared(log).used = 0
      /\ Cleared(log).flush = log.flush /\ Cleared(log).text = <<>>
  <2>1. <<>> \in Seq(Nat)
    OBVIOUS
  <2>2. ASSUME NEW e \in Seq(Nat)
        PROVE  [log EXCEPT !.used = 0, !.text = e] \in LogType
    BY DEF LogType
  <2>3. ASSUME NEW e \in Seq(Nat)
        PROVE  LET l == [log EXCEPT !.used = 0, !.text = e]
               IN  l.size = log.size /\ l.used = 0 /\ l.flush = log.flush /\ l.text = e
    BY DEF LogType
  <2> QED BY <2>1, <2>2, <2>3 DEF Cleared
<1> QED BY <1>1, <1>2, <1>3

(* A log a message is added to, in a buffer that has the room for it. *)
LEMMA AppendedTold ==
  ASSUME NEW log \in LogType, NEW said \in Seq(Nat), NEW sent \in Seq(Nat),
         NEW n \in Nat \ {0},
         log.flush => said = sent \o log.text,
         EndsWith(said, log.text)
  PROVE  LET l == Appended(log, n)
             s == Append(said, n)
         IN  /\ l \in LogType /\ s \in Seq(Nat)
             /\ l.size = log.size /\ l.flush = log.flush /\ l.used = log.used + n
             /\ l.flush => s = sent \o l.text
             /\ EndsWith(s, l.text)
             /\ l.used # 0
<1> DEFINE l == Appended(log, n)
           s == Append(said, n)
<1>1. log.text \in Seq(Nat) /\ n \in Nat
  BY DEF LogType
<1>2. /\ l.text = Append(log.text, n) /\ l.size = log.size /\ l.flush = log.flush
      /\ l.used = log.used + n /\ l \in LogType /\ l.used # 0
  <2>1. Append(log.text, n) \in Seq(Nat)
    BY <1>1, AppendProperties
  <2>2. log.used \in Nat /\ log.used + n \in Nat /\ log.used + n # 0
    BY SMT DEF LogType
  <2>4. /\ l.text = Append(log.text, n) /\ l.size = log.size /\ l.flush = log.flush
        /\ l.used = log.used + n
    BY DEF Appended, LogType
  <2>5. l \in LogType
    BY <2>1, <2>2 DEF Appended, LogType
  <2> QED BY <2>2, <2>4, <2>5
<1>3. s \in Seq(Nat) /\ EndsWith(s, l.text)
  <2>1. EndsWith(Append(said, n), Append(log.text, n))
    BY <1>1, EndsWithAppend
  <2> QED BY <1>1, <1>2, <2>1, AppendProperties
<1>4. ASSUME log.flush PROVE s = sent \o l.text
  <2>1. Append(sent \o log.text, n) = sent \o Append(log.text, n)
    BY <1>1, AppendText
  <2> QED BY <1>2, <1>4, <2>1
<1> QED BY <1>2, <1>3, <1>4

(* Emptied, and nothing else *)
LEMMA EmptyTold ==
  ASSUME NEW log \in LogType, NEW said \in Seq(Nat), NEW sent \in Seq(Nat),
         TextTold(log, said, sent)
  PROVE  TextTold(Cleared(log), said, sent \o Flushed(log))
<1> DEFINE l == Cleared(log)
           s == sent \o Flushed(log)
<1>1. /\ l \in LogType /\ s \in Seq(Nat)
      /\ l.used = 0 /\ l.flush = log.flush /\ l.text = <<>>
      /\ log.flush => said = s
  <2>1. (log.flush => said = sent \o log.text) /\ (log.used = 0 => log.text = <<>>)
    BY DEF TextTold
  <2>2. ASSUME log.flush PROVE said = s
    <3>1. Flushed(log) = log.text
      BY <2>1, <2>2 DEF Flushed
    <3> QED BY <2>1, <2>2, <3>1
  <2>3. l \in LogType /\ s \in Seq(Nat)
    BY ClearedTold
  <2>4. l.used = 0 /\ l.flush = log.flush /\ l.text = <<>>
    BY ClearedTold
  <2> QED BY <2>2, <2>3, <2>4
<1>2. s \o <<>> = s
  BY <1>1, ConcatEmptySeq
<1>3. EndsWith(said, <<>>)
  BY EndsWithNothing
<1> HIDE DEF l, s
<1>4. TextTold(l, said, s)
  BY <1>1, <1>2, <1>3 DEF TextTold
<1> QED BY <1>4 DEF l, s

(* A message that fits is told and in the buffer. *)
LEMMA AddedTold ==
  ASSUME NEW log \in LogType, NEW said \in Seq(Nat), NEW sent \in Seq(Nat),
         NEW n \in Nat \ {0}, TextTold(log, said, sent)
  PROVE  /\ Appended(log, n) \in LogType /\ Append(said, n) \in Seq(Nat)
         /\ TextTold(Appended(log, n), Append(said, n), sent)
         /\ Appended(log, n).size = log.size /\ Appended(log, n).used = log.used + n
         /\ Appended(log, n).flush = log.flush
<1> DEFINE l == Appended(log, n)
           s == Append(said, n)
<1>1. /\ l \in LogType /\ s \in Seq(Nat)
      /\ l.size = log.size /\ l.flush = log.flush /\ l.used = log.used + n
      /\ l.flush => s = sent \o l.text
      /\ EndsWith(s, l.text)
      /\ l.used # 0
  BY AppendedTold DEF TextTold
<1> HIDE DEF l, s
<1>2. TextTold(l, s, sent)
  BY <1>1 DEF TextTold
<1> QED BY <1>1, <1>2 DEF l, s

(* What one of the writers leaves: r is its result. *)
Written(log, r, n, said, sent) ==
  LET now == IF r.lost THEN said ELSE Append(said, n)
  IN  /\ r.log \in LogType /\ r.sent \in Seq(Nat)
      /\ now \in Seq(Nat) /\ sent \o r.sent \in Seq(Nat)
      /\ TextTold(r.log, now, sent \o r.sent)
      /\ r.log.size = log.size /\ r.log.flush = log.flush

(* Kept as it is, emptied, added to, emptied and added to *)
LEMMA FourOutcomes ==
  ASSUME NEW log \in LogType, NEW said \in Seq(Nat), NEW sent \in Seq(Nat),
         NEW n \in Nat \ {0}, TextTold(log, said, sent)
  PROVE  /\ Written(log, [log |-> log, sent |-> <<>>, lost |-> TRUE], n, said, sent)
         /\ Written(log, [log |-> Cleared(log), sent |-> Flushed(log), lost |-> TRUE],
                    n, said, sent)
         /\ Written(log, [log |-> Appended(log, n), sent |-> <<>>, lost |-> FALSE],
                    n, said, sent)
         /\ Written(log, [log |-> Appended(Cleared(log), n), sent |-> Flushed(log),
                          lost |-> FALSE], n, said, sent)
<1>1. sent \o <<>> = sent /\ <<>> \in Seq(Nat)
  BY ConcatEmptySeq
<1>2. /\ Cleared(log) \in LogType /\ Flushed(log) \in Seq(Nat)
      /\ sent \o Flushed(log) \in Seq(Nat) /\ Cleared(log).size = log.size
      /\ Cleared(log).flush = log.flush
  BY ClearedTold
<1>3. TextTold(Cleared(log), said, sent \o Flushed(log))
  BY EmptyTold
<1>4. /\ Appended(log, n) \in LogType /\ Append(said, n) \in Seq(Nat)
      /\ TextTold(Appended(log, n), Append(said, n), sent)
      /\ Appended(log, n).size = log.size /\ Appended(log, n).flush = log.flush
  BY AddedTold
<1>5. /\ Appended(Cleared(log), n) \in LogType
      /\ TextTold(Appended(Cleared(log), n), Append(said, n), sent \o Flushed(log))
      /\ Appended(Cleared(log), n).size = log.size
      /\ Appended(Cleared(log), n).flush = log.flush
  <2> DEFINE l == Cleared(log)
             s == sent \o Flushed(log)
  <2>1. l \in LogType /\ s \in Seq(Nat) /\ TextTold(l, said, s) /\ l.size = log.size
        /\ l.flush = log.flush
    BY <1>2, <1>3
  <2> HIDE DEF l, s
  <2>2. /\ Appended(l, n) \in LogType /\ TextTold(Appended(l, n), Append(said, n), s)
        /\ Appended(l, n).size = l.size /\ Appended(l, n).flush = l.flush
    BY <2>1, AddedTold
  <2> QED BY <2>1, <2>2 DEF l, s
<1>6. Written(log, [log |-> log, sent |-> <<>>, lost |-> TRUE], n, said, sent)
  BY <1>1 DEF Written
<1>7. Written(log, [log |-> Cleared(log), sent |-> Flushed(log), lost |-> TRUE], n, said, sent)
  BY <1>2, <1>3 DEF Written
<1>8. Written(log, [log |-> Appended(log, n), sent |-> <<>>, lost |-> FALSE], n, said, sent)
  BY <1>1, <1>4 DEF Written
<1>9. Written(log, [log |-> Appended(Cleared(log), n), sent |-> Flushed(log), lost |-> FALSE],
              n, said, sent)
  BY <1>2, <1>4, <1>5 DEF Written
<1> QED BY <1>6, <1>7, <1>8, <1>9

(* x86emu_log(): write, look, clear, write again *)
LEMMA SaidTold ==
  ASSUME NEW log \in LogType, NEW said \in Seq(Nat), NEW sent \in Seq(Nat),
         NEW n \in Nat \ {0}, TextTold(log, said, sent)
  PROVE  Written(log, Said(log, n), n, said, sent)
BY FourOutcomes DEF Said

(* LOG_FREE() and a flush before the message is written *)
LEMMA NotedTold ==
  ASSUME NEW log \in LogType, NEW said \in Seq(Nat), NEW sent \in Seq(Nat),
         NEW guard, NEW n \in Nat \ {0}, TextTold(log, said, sent)
  PROVE  Written(log, Noted(log, guard, n), n, said, sent)
<1>1. \/ Noted(log, guard, n) = [log |-> log, sent |-> <<>>, lost |-> TRUE]
      \/ Noted(log, guard, n) = [log |-> Cleared(log), sent |-> Flushed(log), lost |-> TRUE]
      \/ Noted(log, guard, n) = [log |-> Appended(log, n), sent |-> <<>>, lost |-> FALSE]
      \/ Noted(log, guard, n) = [log |-> Appended(Cleared(log), n), sent |-> Flushed(log),
                                 lost |-> FALSE]
  BY DEF Noted
<1> QED BY <1>1, FourOutcomes

(* No writer goes beyond the end of the buffer if it asked for enough, and *)
(* none beyond what it asked too little.                                   *)
LEMMA WritersFit ==
  ASSUME NEW log \in LogType, log.used + 1 <= log.size, NEW n \in Nat \ {0}
  PROVE  /\ Said(log, n).log.used + 1 <= log.size
         /\ \A guard \in Nat :
              LET used == Noted(log, guard, n).log.used
              IN  used + 1 <= log.size \/ (guard <= n /\ used - log.size <= n - guard)
         /\ Cleared(log).used + 1 <= log.size
<1>1. Cleared(log).used = 0 /\ Cleared(log).size = log.size /\ Cleared(log) \in LogType
  <2>1. <<>> \in Seq(Nat)
    OBVIOUS
  <2> QED BY <2>1, ClearedTold
<1>2. log.used \in Nat /\ log.size \in Nat
  BY DEF LogType
<1>3. Appended(log, n).used = log.used + n /\ Appended(Cleared(log), n).used = 0 + n
  <2> DEFINE l == Cleared(log)
  <2>1. l \in LogType /\ l.used = 0
    BY <1>1
  <2> HIDE DEF l
  <2>2. Appended(log, n).used = log.used + n /\ Appended(l, n).used = l.used + n
    BY <2>1 DEF Appended, LogType
  <2> QED BY <2>1, <2>2 DEF l
<1>4. Said(log, n).log.used + 1 <= log.size
  <2>1. CASE n < Room(log)
    <3>1. Said(log, n).log.used = log.used + n
      BY <1>3, <2>1 DEF Said
    <3> QED BY <1>2, <2>1, <3>1, SMT DEF Room
  <2>2. CASE ~(n < Room(log)) /\ n < log.size
    <3>1. Said(log, n).log.used = n
      BY <1>3, <2>2, SMT DEF Said
    <3> QED BY <1>2, <2>2, <3>1, SMT
  <2>3. CASE ~(n < Room(log)) /\ ~(n < log.size)
    <3>1. Said(log, n).log.used = 0
      BY <1>1, <2>3 DEF Said
    <3> QED BY <1>2, <3>1, SMT
  <2> QED BY <2>1, <2>2, <2>3
<1>5. ASSUME NEW guard \in Nat
      PROVE  LET used == Noted(log, guard, n).log.used
             IN  used + 1 <= log.size \/ (guard <= n /\ used - log.size <= n - guard)
  <2>1. CASE Room(log) < guard /\ Room(Cleared(log)) < guard
    <3>1. Noted(log, guard, n).log.used = 0
      BY <1>1, <2>1 DEF Noted
    <3> QED BY <1>2, <3>1, SMT
  <2>2. CASE Room(log) < guard /\ ~(Room(Cleared(log)) < guard)
    <3>1. Noted(log, guard, n).log.used = 0 + n
      BY <1>3, <2>2 DEF Noted
    <3>2. ~(log.size - 0 < guard)
      BY <1>1, <2>2 DEF Room
    <3> QED BY <1>2, <1>5, <3>1, <3>2, SMT
  <2>3. CASE ~(Room(log) < guard)
    <3>1. Noted(log, guard, n).log.used = log.used + n
      BY <1>3, <2>3 DEF Noted
    <3> QED BY <1>2, <1>5, <2>3, <3>1, SMT DEF Room
  <2> QED BY <2>1, <2>2, <2>3
<1> QED BY <1>1, <1>2, <1>4, <1>5, SMT

-----------------------------------------------------------------------------
(* Ports *)

LEMMA CountHit ==
  ASSUME NEW hit, NEW p
  PROVE  Cardinality(hit \cap {p}) = IF p \in hit THEN 1 ELSE 0
<1>1. CASE p \in hit
  <2>1. hit \cap {p} = {p}
    BY <1>1
  <2> QED BY <1>1, <2>1, FS_Singleton
<1>2. CASE p \notin hit
  <2>1. hit \cap {p} = {}
    BY <1>2
  <2> QED BY <1>2, <2>1, FS_EmptySet
<1> QED BY <1>1, <1>2

(* x86emu_set_io_perm() is what is granted. *)
LEMMA SetIoPermTold ==
  ASSUME NEW io \in Io, NEW start, NEW end, NEW perm \in SUBSET IoPerm, NEW level \in BOOLEAN,
         NEW t \in Told, PortsTold(io, t, level)
  PROVE  LET now == SetIoPerm(io, start, end, perm, level)
             tn  == [t EXCEPT !.granted =
                       [p \in Port |-> IF p \in start .. end THEN perm \cap IoPerm ELSE @[p]]]
         IN  now \in Io /\ tn \in Told /\ tn.said = t.said /\ tn.sent = t.sent
             /\ PortsTold(now, tn, level)
<1> DEFINE map == [p \in Port |-> IF p \in start .. end THEN perm ELSE io.map[p]]
           granted == [p \in Port |-> IF p \in start .. end THEN perm \cap IoPerm
                                      ELSE t.granted[p]]
           ok == ~(WithIopl /\ \E p \in Port : map[p] \cap IoPerm # {}) \/ level
           now == [io EXCEPT !.map = map, !.iopl_ok = ok]
           tn == [t EXCEPT !.granted = granted]
<1>1. now = SetIoPerm(io, start, end, perm, level)
  BY DEF SetIoPerm
<1>2. map \in [Port -> SUBSET IoFlag] /\ granted \in [Port -> SUBSET IoPerm]
  BY DEF Io, IoFlag, Told
<1>3. ok \in BOOLEAN
  OBVIOUS
<1>4. /\ now \in Io /\ now.map = map /\ now.iopl_ok = ok
      /\ now.stats_i = io.stats_i /\ now.stats_o = io.stats_o
  <2> HIDE DEF map, ok
  <2> QED BY <1>2, <1>3 DEF Io
<1>5. /\ tn \in Told /\ tn.granted = granted /\ tn.in = t.in /\ tn.out = t.out
      /\ tn.said = t.said /\ tn.sent = t.sent
  <2> HIDE DEF granted
  <2> QED BY <1>2 DEF Told
<1>6. ASSUME NEW p \in Port PROVE map[p] \cap IoPerm = granted[p]
  BY DEF PortsTold
<1>7. ASSUME NEW p \in Port, granted[p] # {} PROVE ok = (level \/ ~WithIopl)
  BY <1>6, <1>7
<1> HIDE DEF map, granted, ok
<1>8. PortsTold(now, tn, level)
  BY <1>4, <1>5, <1>6, <1>7 DEF PortsTold
<1> QED BY <1>1, <1>4, <1>5, <1>8 DEF granted

(* An access that wraps stays within the ports. *)
LEMMA SpanInPorts ==
  ASSUME NEW a \in Port, NEW n \in Width
  PROVE  SpanOf(a, n) \subseteq Port
<1> SUFFICES ASSUME NEW i \in 0 .. (n - 1) PROVE NthPort(a, i) \in Port
  BY DEF SpanOf
<1>1. a \in Int /\ i \in Int /\ Ports \in Nat /\ Ports > 0
  BY PortAssumption, SMT DEF Port, Width
<1> QED BY <1>1, SMT DEF NthPort, Port

(* In one piece or byte by byte, a port is reached if it is open. *)
LEMMA ReachedIsOpen ==
  ASSUME NEW io, NEW a, NEW n, NEW dir
  PROVE  Reached(io, a, n, dir) = {p \in SpanOf(a, n) : Open(io, p, dir)}
BY DEF Reached, Together

(* vm_i_byte() lets through what is granted and the process may do. *)
LEMMA OpenIsGranted ==
  ASSUME NEW io, NEW level \in BOOLEAN, NEW t, PortsTold(io, t, level),
         NEW p \in Port, NEW dir \in IoPerm
  PROVE  Open(io, p, dir) <=> dir \in t.granted[p] /\ (level \/ ~WithIopl)
<1>1. dir \in io.map[p] <=> dir \in t.granted[p]
  BY DEF PortsTold
<1>2. dir \in t.granted[p] => io.iopl_ok = (level \/ ~WithIopl)
  BY DEF PortsTold
<1> QED BY <1>1, <1>2 DEF Open

(* Access flags are no permissions. *)
LEMMA MarkedTold ==
  ASSUME NEW io \in Io, NEW a, NEW n, NEW hit, NEW flag \in {"accR", "accW"}
  PROVE  LET map == Marked(io, a, n, hit, flag)
         IN  /\ map \in [Port -> SUBSET IoFlag]
             /\ \A p \in Port : map[p] \cap IoPerm = io.map[p] \cap IoPerm
             /\ \A p \in Port : p \in SpanOf(a, n) \ hit => "accINVALID" \in map[p]
BY DEF Marked, Io, IoFlag, IoPerm

(* An access is counted once for each port it reaches. *)
LEMMA CountedTold ==
  ASSUME NEW stats \in [Port -> Nat], NEW hit, NEW a
  PROVE  /\ Counted(stats, hit, a) \in [Port -> Nat]
         /\ Counted(stats, hit, a) = [p \in Port |-> stats[p] + Cardinality(hit \cap {p})]
<1>1. \A p \in Port : Cardinality(hit \cap {p}) = IF p \in hit THEN 1 ELSE 0
  BY CountHit
<1> QED BY <1>1 DEF Counted

(* vm_i_byte(), vm_i_word(), vm_i_dword() *)
LEMMA InTold ==
  ASSUME NEW io \in Io, NEW a, NEW n, NEW level, NEW t \in Told, PortsTold(io, t, level)
  PROVE  LET hit == Reached(io, a, n, "R")
             now == In(io, a, n)
             tn  == [t EXCEPT !.in = [p \in Port |-> @[p] + Cardinality(hit \cap {p})]]
         IN  now \in Io /\ tn \in Told /\ tn.said = t.said /\ tn.sent = t.sent
             /\ tn.granted = t.granted /\ PortsTold(now, tn, level)
             /\ \A p \in Port : p \in SpanOf(a, n) \ hit => "accINVALID" \in now.map[p]
<1> DEFINE hit == Reached(io, a, n, "R")
           map == Marked(io, a, n, hit, "accR")
           st  == Counted(io.stats_i, hit, a)
           tin == [p \in Port |-> t.in[p] + Cardinality(hit \cap {p})]
           now == [io EXCEPT !.map = map, !.stats_i = st]
           tn  == [t EXCEPT !.in = tin]
<1>1. now = In(io, a, n)
  BY DEF In
<1>2. /\ map \in [Port -> SUBSET IoFlag]
      /\ \A p \in Port : map[p] \cap IoPerm = io.map[p] \cap IoPerm
      /\ \A p \in Port : p \in SpanOf(a, n) \ hit => "accINVALID" \in map[p]
  BY MarkedTold
<1>3. st \in [Port -> Nat] /\ st = tin
  <2>1. io.stats_i \in [Port -> Nat] /\ io.stats_i = t.in
    BY DEF Io, PortsTold
  <2> HIDE DEF hit
  <2>2. st \in [Port -> Nat] /\ st = [p \in Port |-> io.stats_i[p] + Cardinality(hit \cap {p})]
    <3> HIDE DEF st
    <3>1. \A f \in [Port -> Nat] :
            /\ Counted(f, hit, a) \in [Port -> Nat]
            /\ Counted(f, hit, a) = [p \in Port |-> f[p] + Cardinality(hit \cap {p})]
      BY CountedTold, ZenonT(60)
    <3> QED BY <2>1, <3>1, Zenon DEF st
  <2> HIDE DEF st
  <2> QED BY <2>1, <2>2, ZenonT(60)
<1> HIDE DEF map, st, tin, hit
<1>4. /\ now \in Io /\ now.map = map /\ now.iopl_ok = io.iopl_ok
      /\ now.stats_i = st /\ now.stats_o = io.stats_o
  BY <1>2, <1>3 DEF Io
<1>5. /\ tn \in Told /\ tn.granted = t.granted /\ tn.in = tin /\ tn.out = t.out
      /\ tn.said = t.said /\ tn.sent = t.sent
  BY <1>3 DEF Told
<1>6. PortsTold(now, tn, level)
  BY <1>2, <1>3, <1>4, <1>5 DEF PortsTold
<1> QED BY <1>1, <1>2, <1>4, <1>5, <1>6 DEF tin, hit

(* vm_o_byte(), vm_o_word(), vm_o_dword() *)
LEMMA OutTold ==
  ASSUME NEW io \in Io, NEW a, NEW n, NEW level, NEW t \in Told, PortsTold(io, t, level)
  PROVE  LET hit == Reached(io, a, n, "W")
             now == Out(io, a, n)
             tn  == [t EXCEPT !.out = [p \in Port |-> @[p] + Cardinality(hit \cap {p})]]
         IN  now \in Io /\ tn \in Told /\ tn.said = t.said /\ tn.sent = t.sent
             /\ tn.granted = t.granted /\ PortsTold(now, tn, level)
             /\ \A p \in Port : p \in SpanOf(a, n) \ hit => "accINVALID" \in now.map[p]
<1> DEFINE hit == Reached(io, a, n, "W")
           map == Marked(io, a, n, hit, "accW")
           st  == Counted(io.stats_o, hit, a)
           tout == [p \in Port |-> t.out[p] + Cardinality(hit \cap {p})]
           now == [io EXCEPT !.map = map, !.stats_o = st]
           tn  == [t EXCEPT !.out = tout]
<1>1. now = Out(io, a, n)
  BY DEF Out
<1>2. /\ map \in [Port -> SUBSET IoFlag]
      /\ \A p \in Port : map[p] \cap IoPerm = io.map[p] \cap IoPerm
      /\ \A p \in Port : p \in SpanOf(a, n) \ hit => "accINVALID" \in map[p]
  BY MarkedTold
<1>3. st \in [Port -> Nat] /\ st = tout
  <2>1. io.stats_o \in [Port -> Nat] /\ io.stats_o = t.out
    BY DEF Io, PortsTold
  <2> HIDE DEF hit
  <2>2. st \in [Port -> Nat] /\ st = [p \in Port |-> io.stats_o[p] + Cardinality(hit \cap {p})]
    <3> HIDE DEF st
    <3>1. \A f \in [Port -> Nat] :
            /\ Counted(f, hit, a) \in [Port -> Nat]
            /\ Counted(f, hit, a) = [p \in Port |-> f[p] + Cardinality(hit \cap {p})]
      BY CountedTold, ZenonT(60)
    <3> QED BY <2>1, <3>1, Zenon DEF st
  <2> HIDE DEF st
  <2> QED BY <2>1, <2>2, ZenonT(60)
<1> HIDE DEF map, st, tout, hit
<1>4. /\ now \in Io /\ now.map = map /\ now.iopl_ok = io.iopl_ok
      /\ now.stats_o = st /\ now.stats_i = io.stats_i
  BY <1>2, <1>3 DEF Io
<1>5. /\ tn \in Told /\ tn.granted = t.granted /\ tn.out = tout /\ tn.in = t.in
      /\ tn.said = t.said /\ tn.sent = t.sent
  BY <1>3 DEF Told
<1>6. PortsTold(now, tn, level)
  BY <1>2, <1>3, <1>4, <1>5 DEF PortsTold
<1> QED BY <1>1, <1>2, <1>4, <1>5, <1>6 DEF tout, hit

(* The byte of a denied port is ff. *)
LEMMA IthOfNth ==
  ASSUME NEW a \in Port, NEW i \in 0 .. 3
  PROVE  Ith(a, NthPort(a, i)) = i
<1>1. a \in Int /\ i \in Int /\ Ports \in Int /\ Ports >= 4 /\ 0 <= a /\ a < Ports
      /\ 0 <= i /\ i < 4
  BY PortAssumption, SMT DEF Port
<1>2. CASE a + i < Ports
  <2>1. NthPort(a, i) = a + i
    BY <1>1, <1>2, SMT DEF NthPort
  <2> QED BY <1>1, <2>1, SMT DEF Ith
<1>3. CASE a + i >= Ports
  <2>1. NthPort(a, i) = a + i - Ports
    BY <1>1, <1>3, SMT DEF NthPort
  <2>2. (i - Ports) % Ports = i
    BY <1>1, SMT
  <2>3. NthPort(a, i) - a = i - Ports
    BY <1>1, <2>1, SMT
  <2> QED BY <2>2, <2>3 DEF Ith
<1> QED BY <1>1, <1>2, <1>3, SMT

(* A port that is not reached reads as ff. *)
LEMMA DeniedReadsFf ==
  ASSUME NEW io, NEW a \in Port, NEW n \in Width,
         NEW p \in SpanOf(a, n) \ Reached(io, a, n, "R")
  PROVE  InValue(io, a, n)[Ith(a, p) + 1] = Ff
<1>1. PICK i \in 0 .. (n - 1) : p = NthPort(a, i)
  BY DEF SpanOf
<1>2. i \in 0 .. 3 /\ i + 1 \in 1 .. n /\ (i + 1) - 1 = i
  BY SMT DEF Width
<1>3. Ith(a, p) = i
  BY <1>1, <1>2, IthOfNth
<1> QED BY <1>1, <1>2, <1>3 DEF InValue

(* Values are as wide as the access. *)
LEMMA ValueLengths ==
  ASSUME NEW io, NEW a, NEW n \in Width
  PROVE  Len(InValue(io, a, n)) = n /\ Len(OutArg[n]) = n
<1>1. Len(OutArg[n]) = n
  BY ArgAssumption
<1>2. n \in Nat
  BY SMT DEF Width
<1>3. DOMAIN InValue(io, a, n) = 1 .. n
  BY DEF InValue
<1>4. InValue(io, a, n) \in Seq({Device[NthPort(a, i - 1)] : i \in 1 .. n} \cup {Ff})
  <2> DEFINE V == {Device[NthPort(a, i - 1)] : i \in 1 .. n} \cup {Ff}
  <2>1. InValue(io, a, n) \in [1 .. n -> V]
    BY DEF InValue
  <2> HIDE DEF V
  <2>2. InValue(io, a, n) \in Seq(V)
    BY <1>2, <2>1, SeqDef
  <2> QED BY <2>2 DEF V
<1>5. Len(InValue(io, a, n)) \in Nat /\ DOMAIN InValue(io, a, n) = 1 .. Len(InValue(io, a, n))
  BY <1>4, LenProperties
<1>6. Len(InValue(io, a, n)) = n
  BY <1>2, <1>3, <1>5, SMT
<1> QED BY <1>1, <1>6

-----------------------------------------------------------------------------
(* What a request to machine m does to the things that are written down,   *)
(* and to the things they are about                                        *)
ToldStays(m) ==
  /\ told' \in [Id -> Told \cup {Gone}]
  /\ \A k \in Id : k # m => told'[k] = told[k]
  /\ emu'[m] = Gone <=> told'[m] = Gone

PortsStay(m) ==
  emu'[m] # Gone => PortsTold(heap'[emu'[m].io].io, told'[m], iopl)

TextStays(m) ==
  emu'[m] # Gone => TextTold(LogIn(heap', emu'[m]), told'[m].said, told'[m].sent)

SameLog(m) ==
  /\ emu'[m].buf = emu[m].buf /\ LogIn(heap', emu'[m]) = LogIn(heap, emu[m])
  /\ told'[m].said = told[m].said /\ told'[m].sent = told[m].sent

SamePorts(m) ==
  /\ heap'[emu'[m].io].io = heap[emu[m].io].io
  /\ told'[m].in = told[m].in /\ told'[m].out = told[m].out
  /\ told'[m].granted = told[m].granted

(* A request that leaves the log alone *)
LEMMA LogQuiet ==
  ASSUME NEW m \in Id, emu[m] # Gone, SameLog(m), TextInv
  PROVE  TextStays(m) /\ (FitIn(heap, emu[m]) => FitIn(heap', emu'[m]))
<1>1. TextTold(LogIn(heap, emu[m]), told[m].said, told[m].sent)
  BY DEF TextInv
<1>2. TextStays(m)
  BY <1>1 DEF SameLog, TextStays
<1>3. ASSUME FitIn(heap, emu[m]) PROVE FitIn(heap', emu'[m])
  BY <1>3 DEF SameLog, FitIn
<1> QED BY <1>2, <1>3

(* A request that leaves the ports alone *)
LEMMA PortsQuiet ==
  ASSUME NEW m \in Id, emu[m] # Gone, SamePorts(m), PortsInv
  PROVE  PortsStay(m)
<1>1. PortsTold(heap[emu[m].io].io, told[m], iopl)
  BY DEF PortsInv
<1> QED BY <1>1 DEF SamePorts, PortsStay, PortsTold

(* Nothing of this is asked for: memory, registers, handlers *)
LEMMA ToldUnchanged ==
  ASSUME ToldOK, NEW m \in Id, emu[m] # Gone, emu'[m] # Gone, UNCHANGED told
  PROVE  ToldStays(m)
BY DEF ToldOK, ToldStays

(* One block gets new contents of its kind, one machine new plain fields. *)
LEMMA BlockStays ==
  ASSUME Sound(emu, heap), NEW m \in Id, emu[m] # Gone,
         NEW b \in Has(heap, emu[m]), NEW c,
         \/ heap[b] \in PageKind /\ c \in PageKind
         \/ heap[b] \in IoKind /\ c \in IoKind
         \/ heap[b] \in MsrKind /\ c \in MsrKind
         \/ heap[b] \in LogKind /\ c \in LogKind,
         NEW g, g = [heap EXCEPT ![b] = c],
         NEW n \in Emu, n.io = emu[m].io, n.msr = emu[m].msr, n.dir = emu[m].dir,
         n.buf = emu[m].buf, n.ptr.in = emu[m].ptr.in,
         NEW en, en = [emu EXCEPT ![m] = n]
  PROVE  /\ Sound(en, g) /\ Others(emu, heap, en, g, m) /\ en[m] = n /\ n # Gone
         /\ g[b] = c /\ \A x \in Block : x # b => g[x] = heap[x]
<1> DEFINE e == emu[m]
<1>1. /\ e \in Emu /\ PointersOK(heap, e) /\ heap \in [Block -> AnyKind]
      /\ emu \in [Id -> Emu \cup {Gone}]
  BY DEF Sound
<1>2. b \in Block
  BY <1>1, HasBlocks
<1>4. g \in [Block -> AnyKind] /\ PointersOK(g, e) /\ Has(g, e) = Has(heap, e)
  BY <1>1, SameKind, ZenonT(60)
<1>5. PointersOK(g, n) /\ Has(g, n) = Has(heap, e)
  BY <1>1, <1>4, PlainFields
<1>6. g[b] = c /\ \A x \in Block : x # b => g[x] = heap[x]
  BY <1>1, <1>2
<1>7. Sound(en, g) /\ Others(emu, heap, en, g, m)
  <2>1. \A x \in Block : x \notin Has(heap, emu[m]) => g[x] = heap[x]
    BY <1>6
  <2> QED BY <1>4, <1>5, <2>1, SameBlocks
<1>8. en[m] = n /\ n # Gone
  BY <1>1, KindsApart
<1> QED BY <1>6, <1>7, <1>8

(* What the pointers of a machine lead to *)
LEMMA KindsOf ==
  ASSUME Sound(emu, heap), NEW m \in Id, emu[m] # Gone
  PROVE  LET e == emu[m]
         IN  /\ e \in Emu /\ PointersOK(heap, e) /\ emu \in [Id -> Emu \cup {Gone}]
             /\ heap \in [Block -> AnyKind]
             /\ e.io \in Block /\ e.io \in Has(heap, e) /\ heap[e.io] \in IoKind
             /\ heap[e.io].io \in Io
             /\ e.msr \in Block /\ e.msr \in Has(heap, e) /\ heap[e.msr] \in MsrKind
             /\ e.msr # e.io
             /\ e.ptr.in = e.buf
             /\ e.buf # Nil => /\ e.buf \in Block /\ e.buf \in Has(heap, e)
                               /\ heap[e.buf] \in LogKind /\ e.buf # e.io /\ e.buf # e.msr
<1> DEFINE e == emu[m]
<1>1. /\ e \in Emu /\ PointersOK(heap, e) /\ emu \in [Id -> Emu \cup {Gone}]
      /\ heap \in [Block -> AnyKind] /\ e # Gone
  BY DEF Sound
<1>2. e.io \in Block /\ e.msr \in Block /\ (e.buf # Nil => e.buf \in Block)
  BY <1>1, HasBlocks
<1>3. e.io \in Has(heap, e) /\ e.msr \in Has(heap, e) /\ (e.buf # Nil => e.buf \in Has(heap, e))
  BY <1>1 DEF Has
<1>4. /\ heap[e.io] \in IoKind /\ heap[e.msr] \in MsrKind
      /\ e.buf # Nil => heap[e.buf] \in LogKind
  BY <1>1 DEF PointersOK
<1>5. heap[e.io].io \in Io
  BY <1>4 DEF IoKind
<1>6. e.msr # e.io /\ (e.buf # Nil => e.buf # e.io /\ e.buf # e.msr)
  BY <1>4, KindsApart
<1>7. e.ptr.in = e.buf
  BY <1>1 DEF PointersOK
<1> QED BY <1>1, <1>2, <1>3, <1>4, <1>5, <1>6, <1>7

(* The requests that change only the ports *)
LEMMA IoStays ==
  ASSUME Sound(emu, heap), ToldOK, NEW m \in Id, emu[m] # Gone,
         NEW now \in Io, heap' = With(heap, emu[m].io, IoBlock(now)), UNCHANGED emu,
         NEW tn \in Told, told' = [told EXCEPT ![m] = tn],
         tn.said = told[m].said, tn.sent = told[m].sent, PortsTold(now, tn, iopl)
  PROVE  /\ Stays(m) /\ ToldStays(m) /\ PortsStay(m) /\ SameLog(m)
         /\ emu'[m] = emu[m] /\ heap'[emu[m].io].io = now /\ told'[m] = tn
         /\ \A x \in Block : x # emu[m].io => heap'[x] = heap[x]
<1> DEFINE e == emu[m]
           b == e.io
           c == IoBlock(now)
<1>1. /\ e \in Emu /\ emu \in [Id -> Emu \cup {Gone}]
      /\ b \in Block /\ b \in Has(heap, e) /\ heap[b] \in IoKind
      /\ e.buf # Nil => e.buf \in Block /\ e.buf # b
      /\ heap \in [Block -> AnyKind]
  BY KindsOf
<1>2. c \in IoKind /\ c.io = now
  BY DEF IoBlock, IoKind
<1>3. heap' = [heap EXCEPT ![b] = c]
  BY DEF With
<1> HIDE DEF c, b, e
<1>4. /\ Stays(m) /\ emu'[m] = e /\ e # Gone /\ heap'[b] = c
      /\ \A x \in Block : x # b => heap'[x] = heap[x]
  <2>1. /\ b \in Has(heap, emu[m]) /\ e.io = emu[m].io /\ e.msr = emu[m].msr /\ e.dir = emu[m].dir
        /\ e.buf = emu[m].buf /\ e.ptr.in = emu[m].ptr.in /\ e = emu[m]
    BY <1>1 DEF e
  <2>2. PICK g : g = heap'
    OBVIOUS
  <2>3. PICK en : en = emu'
    OBVIOUS
  <2>4. g = [heap EXCEPT ![b] = c] /\ en = [emu EXCEPT ![m] = e]
    <3>1. [emu EXCEPT ![m] = e] = emu
      BY <1>1, <2>1
    <3> QED BY <1>3, <2>2, <2>3, <3>1
  <2>5. /\ Sound(en, g) /\ Others(emu, heap, en, g, m) /\ en[m] = e /\ e # Gone
        /\ g[b] = c /\ \A x \in Block : x # b => g[x] = heap[x]
    BY <1>1, <1>2, <2>1, <2>4, BlockStays
  <2> QED BY <2>2, <2>3, <2>5 DEF Stays
<1>5. told'[m] = tn /\ tn # Gone /\ ToldStays(m)
  <2>1. tn # Gone
    <3>1. DOMAIN tn = {"granted", "in", "out", "said", "sent"} /\ DOMAIN Gone = {"is"}
      BY DEF Told, Gone
    <3> QED BY <3>1
  <2> QED BY <1>4, <2>1 DEF ToldOK, ToldStays
<1>6. PortsStay(m)
  BY <1>2, <1>4, <1>5 DEF PortsStay, b
<1>7. SameLog(m)
  BY <1>1, <1>4, <1>5 DEF SameLog, LogIn, e
<1> QED BY <1>2, <1>4, <1>5, <1>6, <1>7 DEF b, e

-----------------------------------------------------------------------------
(* What a request to machine m keeps, by its action *)
Agree == IInv /\ PortsInv /\ TextInv

KeepsTo(m) == Stays(m) /\ ToldStays(m) /\ PortsStay(m) /\ TextStays(m)

FitStays(m) ==
  FitInv => (emu'[m] # Gone => FitsBut(heap, emu[m], m)')

(* Neither ports nor log are concerned. *)
LEMMA QuietStep ==
  ASSUME Agree, NEW m \in Id, emu[m] # Gone, emu'[m] # Gone, Stays(m),
         SameRest(heap, emu[m], heap', emu'[m]), UNCHANGED told
  PROVE  KeepsTo(m) /\ FitStays(m)
<1>1. Sound(emu, heap) /\ ToldOK /\ PortsInv /\ TextInv
  BY DEF Agree, IInv
<1>2. ToldStays(m)
  BY <1>1, ToldUnchanged
<1>3. SamePorts(m) /\ SameLog(m)
  BY DEF SameRest, SamePorts, SameLog
<1>4. PortsStay(m)
  BY <1>1, <1>3, PortsQuiet
<1>5. TextStays(m) /\ (FitIn(heap, emu[m]) => FitIn(heap', emu'[m]))
  BY <1>1, <1>3, LogQuiet
<1>6. FitStays(m)
  BY <1>5 DEF FitStays, FitInv, FitsBut
<1> QED BY <1>2, <1>4, <1>5, <1>6 DEF KeepsTo

(* Memory *)
LEMMA MemoryKeeps ==
  ASSUME Agree, NEW m \in Id, Memory(m)
  PROVE  emu[m] # Gone /\ emu'[m] # Gone /\ KeepsTo(m) /\ FitStays(m)
<1>1. Sound(emu, heap)
  BY DEF Agree, IInv
<1>2. ASSUME NEW p \in Page, NEW v \in ValueArg, WriteCell(m, p, v)
      PROVE  Stays(m) /\ emu'[m] # Gone /\ SameRest(heap, emu[m], heap', emu'[m])
  BY <1>1, <1>2, WriteCellStays
<1>3. ASSUME NEW p \in Page, NEW perm \in PermArg, SetPerm(m, p, perm)
      PROVE  Stays(m) /\ emu'[m] # Gone /\ SameRest(heap, emu[m], heap', emu'[m])
  BY <1>1, <1>3, SetPermStays
<1>4. ASSUME NEW p \in Page, NEW hp \in HostPage, SetPage(m, p, hp)
      PROVE  Stays(m) /\ emu'[m] # Gone /\ SameRest(heap, emu[m], heap', emu'[m])
  BY <1>1, <1>4, SetPageStays
<1>5. ASSUME NEW p \in Page, ClearPage(m, p)
      PROVE  Stays(m) /\ emu'[m] # Gone /\ SameRest(heap, emu[m], heap', emu'[m])
  BY <1>1, <1>5, ClearPageStays
<1>6. Stays(m) /\ emu'[m] # Gone /\ SameRest(heap, emu[m], heap', emu'[m])
  BY <1>2, <1>3, <1>4, <1>5 DEF Memory
<1>7. emu[m] # Gone /\ UNCHANGED told
  BY DEF Memory, WriteCell, SetPerm, SetPage, ClearPage, Live
<1> QED BY <1>6, <1>7, QuietStep

(* x86emu_wrmsr(), x86emu_rdmsr() *)
LEMMA MsrStays ==
  ASSUME Agree, NEW m \in Id, emu[m] # Gone, NEW c \in MsrKind,
         heap' = [heap EXCEPT ![emu[m].msr] = c], UNCHANGED emu
  PROVE  /\ Stays(m) /\ emu'[m] # Gone
         /\ SameRest(heap, emu[m], heap', emu'[m])
<1> DEFINE e == emu[m]
           b == e.msr
<1>1. /\ e \in Emu /\ emu \in [Id -> Emu \cup {Gone}]
      /\ b \in Block /\ b \in Has(heap, e) /\ heap[b] \in MsrKind
      /\ e.buf # Nil => e.buf \in Block /\ e.buf # b
      /\ e.io \in Block /\ e.io # b
      /\ heap \in [Block -> AnyKind]
  <2>1. Sound(emu, heap)
    BY DEF Agree, IInv
  <2> QED BY <2>1, KindsOf
<1>2. heap' = [heap EXCEPT ![b] = c] /\ Sound(emu, heap)
  BY DEF Agree, IInv
<1> HIDE DEF b, e
<1>3. /\ b \in Has(heap, emu[m]) /\ e.io = emu[m].io /\ e.msr = emu[m].msr /\ e.dir = emu[m].dir
      /\ e.buf = emu[m].buf /\ e.ptr.in = emu[m].ptr.in /\ e = emu[m]
  BY <1>1 DEF e
<1>4. PICK g : g = heap'
  OBVIOUS
<1>5. PICK en : en = emu'
  OBVIOUS
<1>6. g = [heap EXCEPT ![b] = c] /\ en = [emu EXCEPT ![m] = e]
  <2>1. [emu EXCEPT ![m] = e] = emu
    BY <1>1, <1>3
  <2> QED BY <1>2, <1>4, <1>5, <2>1
<1>7. /\ Sound(en, g) /\ Others(emu, heap, en, g, m) /\ en[m] = e /\ e # Gone
      /\ g[b] = c /\ \A x \in Block : x # b => g[x] = heap[x]
  BY <1>1, <1>2, <1>3, <1>6, BlockStays
<1>8. SameRest(heap, e, g, e)
  BY <1>1, <1>7 DEF SameRest, LogIn
<1> QED BY <1>4, <1>5, <1>7, <1>8 DEF Stays, e

(* x86emu_wrmsr(), x86emu_rdmsr() *)
LEMMA MsrKeeps ==
  ASSUME Agree, NEW m \in Id, NEW u \in Msr,
         (\E v \in ValueArg : WriteMsr(m, u, v)) \/ ReadMsr(m, u)
  PROVE  emu[m] # Gone /\ emu'[m] # Gone /\ KeepsTo(m) /\ FitStays(m)
<1>1. Sound(emu, heap) /\ emu[m] # Gone /\ UNCHANGED <<emu, told>>
  BY DEF Agree, IInv, WriteMsr, ReadMsr, Live
<1> DEFINE b == emu[m].msr
<1>2. heap[b] \in MsrKind /\ b \in Block /\ heap \in [Block -> AnyKind]
  BY <1>1, KindsOf
<1>3. \E c \in MsrKind : heap' = [heap EXCEPT ![b] = c]
  <2>1. ASSUME NEW v \in ValueArg, WriteMsr(m, u, v)
        PROVE  \E c \in MsrKind : heap' = [heap EXCEPT ![b] = c]
    <3> DEFINE c == [heap[b] EXCEPT !.msr[u] = v, !.perm[u] = @ \cup {"accW"}]
    <3>1. c \in MsrKind
      BY <1>2 DEF MsrKind, Value, Flags, IoFlag
    <3>2. heap' = [heap EXCEPT ![b] = c]
      BY <1>2, <2>1 DEF WriteMsr, MsrKind
    <3> QED BY <3>1, <3>2
  <2>2. CASE ReadMsr(m, u)
    <3> DEFINE c == [heap[b] EXCEPT !.perm[u] = @ \cup {"accR"}]
    <3>1. c \in MsrKind
      BY <1>2 DEF MsrKind, Value, Flags, IoFlag
    <3>2. heap' = [heap EXCEPT ![b] = c]
      BY <1>2, <2>2 DEF ReadMsr, MsrKind
    <3> QED BY <3>1, <3>2
  <2> QED BY <2>1, <2>2
<1>4. Stays(m) /\ emu'[m] # Gone /\ SameRest(heap, emu[m], heap', emu'[m])
  BY <1>1, <1>3, MsrStays
<1> QED BY <1>1, <1>4, QuietStep

-----------------------------------------------------------------------------
(* Ports *)
LEMMA IoKeeps ==
  ASSUME Agree, NEW m \in Id, emu[m] # Gone,
         NEW now \in Io, heap' = With(heap, emu[m].io, IoBlock(now)), UNCHANGED emu,
         NEW tn \in Told, told' = [told EXCEPT ![m] = tn],
         tn.said = told[m].said, tn.sent = told[m].sent, PortsTold(now, tn, iopl)
  PROVE  /\ emu'[m] # Gone /\ KeepsTo(m) /\ FitStays(m)
         /\ emu'[m] = emu[m] /\ heap'[emu[m].io].io = now /\ told'[m] = tn
<1>1. Sound(emu, heap) /\ ToldOK /\ TextInv
  BY DEF Agree, IInv
<1>2. /\ Stays(m) /\ ToldStays(m) /\ PortsStay(m) /\ SameLog(m)
      /\ emu'[m] = emu[m] /\ heap'[emu[m].io].io = now /\ told'[m] = tn
  BY <1>1, IoStays
<1>3. TextStays(m) /\ (FitIn(heap, emu[m]) => FitIn(heap', emu'[m]))
  BY <1>1, <1>2, LogQuiet
<1>4. FitStays(m)
  BY <1>3 DEF FitStays, FitInv, FitsBut
<1> QED BY <1>2, <1>3, <1>4 DEF KeepsTo

(* x86emu_set_io_perm() *)
LEMMA SetPortsKeeps ==
  ASSUME Agree, NEW m \in Id, NEW r \in RangeArg, NEW perm \in IoPermArg,
         SetPorts(m, r, perm)
  PROVE  emu[m] # Gone /\ emu'[m] # Gone /\ KeepsTo(m) /\ FitStays(m)
<1> DEFINE io  == IoOf(m)
           t   == told[m]
           now == SetIoPerm(io, r[1], r[2], perm, iopl)
           tn  == [t EXCEPT !.granted =
                     [p \in Port |-> IF p \in r[1] .. r[2] THEN perm \cap IoPerm ELSE @[p]]]
<1>1. Sound(emu, heap) /\ ToldOK /\ PortsInv /\ iopl \in BOOLEAN /\ emu[m] # Gone
  BY DEF Agree, IInv, Counts, SetPorts, Live
<1>2. io \in Io /\ t \in Told /\ PortsTold(io, t, iopl)
  <2>1. io \in Io
    BY <1>1, KindsOf DEF IoOf
  <2>2. t \in Told
    BY <1>1 DEF ToldOK
  <2> QED BY <1>1, <2>1, <2>2 DEF PortsInv, IoOf
<1>3. perm \in SUBSET IoPerm
  BY ArgAssumption
<1>4. now \in Io /\ tn \in Told /\ tn.said = t.said /\ tn.sent = t.sent
      /\ PortsTold(now, tn, iopl)
  BY <1>1, <1>2, <1>3, SetIoPermTold
<1>5. heap' = With(heap, emu[m].io, IoBlock(now)) /\ UNCHANGED emu
  BY DEF SetPorts, IoNow
<1>6. told' = [told EXCEPT ![m] = tn]
  BY <1>1 DEF SetPorts, ToldOK
<1> HIDE DEF now, tn, t, io
<1>7. tn.said = told[m].said /\ tn.sent = told[m].sent
  BY <1>4 DEF t
<1> QED BY <1>1, <1>4, <1>5, <1>6, <1>7, IoKeeps

(* A read from a port *)
LEMMA InPortKeeps ==
  ASSUME Agree, NEW m \in Id, NEW a \in PortArg, NEW n \in Width, InPort(m, a, n)
  PROVE  /\ emu[m] # Gone /\ emu'[m] # Gone /\ KeepsTo(m) /\ FitStays(m)
         /\ emu'[m] = emu[m] /\ heap'[emu[m].io].io = In(IoOf(m), a, n)
         /\ told'[m].granted = told[m].granted
         /\ \A p \in Port : p \in SpanOf(a, n) \ Reached(IoOf(m), a, n, "R") =>
              "accINVALID" \in heap'[emu[m].io].io.map[p]
<1> DEFINE io  == IoOf(m)
           t   == told[m]
           hit == Reached(io, a, n, "R")
           now == In(io, a, n)
           tn  == [t EXCEPT !.in = [p \in Port |-> @[p] + Cardinality(hit \cap {p})]]
<1>1. Sound(emu, heap) /\ ToldOK /\ PortsInv /\ emu[m] # Gone
  BY DEF Agree, IInv, InPort, Live
<1>2. io \in Io /\ t \in Told /\ PortsTold(io, t, iopl)
  <2>1. io \in Io
    BY <1>1, KindsOf DEF IoOf
  <2>2. t \in Told
    BY <1>1 DEF ToldOK
  <2> QED BY <1>1, <2>1, <2>2 DEF PortsInv, IoOf
<1>3. /\ now \in Io /\ tn \in Told /\ tn.said = t.said /\ tn.sent = t.sent
      /\ tn.granted = t.granted /\ PortsTold(now, tn, iopl)
      /\ \A p \in Port : p \in SpanOf(a, n) \ hit => "accINVALID" \in now.map[p]
  <2> HIDE DEF io, t
  <2>1. LET h == Reached(io, a, n, "R")
            w == In(io, a, n)
            s == [t EXCEPT !.in = [p \in Port |-> @[p] + Cardinality(h \cap {p})]]
        IN  w \in Io /\ s \in Told /\ s.said = t.said /\ s.sent = t.sent
            /\ s.granted = t.granted /\ PortsTold(w, s, iopl)
            /\ \A p \in Port : p \in SpanOf(a, n) \ h => "accINVALID" \in w.map[p]
    BY <1>2, InTold
  <2> QED BY <2>1
<1>4. heap' = With(heap, emu[m].io, IoBlock(now)) /\ UNCHANGED emu
  BY DEF InPort, IoNow
<1>5. told' = [told EXCEPT ![m] = tn]
  BY <1>1 DEF InPort, ToldOK
<1> HIDE DEF now, tn, t, io, hit
<1>6. tn.said = told[m].said /\ tn.sent = told[m].sent
  BY <1>3 DEF t
<1>7. /\ emu'[m] # Gone /\ KeepsTo(m) /\ FitStays(m)
      /\ emu'[m] = emu[m] /\ heap'[emu[m].io].io = now /\ told'[m] = tn
  BY <1>1, <1>3, <1>4, <1>5, <1>6, IoKeeps
<1>8. told'[m].granted = told[m].granted
  BY <1>3, <1>7 DEF t
<1>9. \A p \in Port : p \in SpanOf(a, n) \ hit => "accINVALID" \in heap'[emu[m].io].io.map[p]
  BY <1>3, <1>7
<1> QED BY <1>1, <1>7, <1>8, <1>9 DEF now, io, hit

(* A write to a port *)
LEMMA OutPortKeeps ==
  ASSUME Agree, NEW m \in Id, NEW a \in PortArg, NEW n \in Width, NEW val, OutPort(m, a, n, val)
  PROVE  /\ emu[m] # Gone /\ emu'[m] # Gone /\ KeepsTo(m) /\ FitStays(m)
         /\ emu'[m] = emu[m] /\ heap'[emu[m].io].io = Out(IoOf(m), a, n)
         /\ told'[m].granted = told[m].granted
         /\ \A p \in Port : p \in SpanOf(a, n) \ Reached(IoOf(m), a, n, "W") =>
              "accINVALID" \in heap'[emu[m].io].io.map[p]
<1> DEFINE io  == IoOf(m)
           t   == told[m]
           hit == Reached(io, a, n, "W")
           now == Out(io, a, n)
           tn  == [t EXCEPT !.out = [p \in Port |-> @[p] + Cardinality(hit \cap {p})]]
<1>1. Sound(emu, heap) /\ ToldOK /\ PortsInv /\ emu[m] # Gone
  BY DEF Agree, IInv, OutPort, Live
<1>2. io \in Io /\ t \in Told /\ PortsTold(io, t, iopl)
  <2>1. io \in Io
    BY <1>1, KindsOf DEF IoOf
  <2>2. t \in Told
    BY <1>1 DEF ToldOK
  <2> QED BY <1>1, <2>1, <2>2 DEF PortsInv, IoOf
<1>3. /\ now \in Io /\ tn \in Told /\ tn.said = t.said /\ tn.sent = t.sent
      /\ tn.granted = t.granted /\ PortsTold(now, tn, iopl)
      /\ \A p \in Port : p \in SpanOf(a, n) \ hit => "accINVALID" \in now.map[p]
  <2> HIDE DEF io, t
  <2>1. LET h == Reached(io, a, n, "W")
            w == Out(io, a, n)
            s == [t EXCEPT !.out = [p \in Port |-> @[p] + Cardinality(h \cap {p})]]
        IN  w \in Io /\ s \in Told /\ s.said = t.said /\ s.sent = t.sent
            /\ s.granted = t.granted /\ PortsTold(w, s, iopl)
            /\ \A p \in Port : p \in SpanOf(a, n) \ h => "accINVALID" \in w.map[p]
    BY <1>2, OutTold
  <2> QED BY <2>1
<1>4. heap' = With(heap, emu[m].io, IoBlock(now)) /\ UNCHANGED emu
  BY DEF OutPort, IoNow
<1>5. told' = [told EXCEPT ![m] = tn]
  BY <1>1 DEF OutPort, ToldOK
<1> HIDE DEF now, tn, t, io, hit
<1>6. tn.said = told[m].said /\ tn.sent = told[m].sent
  BY <1>3 DEF t
<1>7. /\ emu'[m] # Gone /\ KeepsTo(m) /\ FitStays(m)
      /\ emu'[m] = emu[m] /\ heap'[emu[m].io].io = now /\ told'[m] = tn
  BY <1>1, <1>3, <1>4, <1>5, <1>6, IoKeeps
<1>8. told'[m].granted = told[m].granted
  BY <1>3, <1>7 DEF t
<1>9. \A p \in Port : p \in SpanOf(a, n) \ hit => "accINVALID" \in heap'[emu[m].io].io.map[p]
  BY <1>3, <1>7
<1> QED BY <1>1, <1>7, <1>8, <1>9 DEF now, io, hit

-----------------------------------------------------------------------------
(* The log *)
LEMMA LogOfIs ==
  ASSUME Sound(emu, heap), ToldOK, NEW m \in Id, emu[m] # Gone, emu[m].ptr.in # Nil
  PROVE  /\ LogOf(m) = LogIn(heap, emu[m]) /\ LogOf(m) \in LogType
         /\ LogOf(m).size = emu[m].size /\ LogOf(m).flush = emu[m].flush
         /\ LogOf(m).used = emu[m].ptr.used
         /\ emu[m].buf # Nil
         /\ told[m] \in Told /\ told[m].said \in Seq(Nat) /\ told[m].sent \in Seq(Nat)
<1>1. /\ emu[m] \in Emu /\ emu[m].ptr.in = emu[m].buf
      /\ heap[emu[m].buf] \in LogKind
  BY KindsOf
<1>2. LogOf(m) = LogIn(heap, emu[m])
  BY <1>1 DEF LogOf, LogIn
<1>3. /\ emu[m].size \in Nat /\ emu[m].flush \in BOOLEAN /\ emu[m].ptr.used \in Nat
      /\ heap[emu[m].buf].text \in Seq(Nat)
  BY <1>1 DEF Emu, LogKind
<1>4. LogOf(m) = [size |-> emu[m].size, used |-> emu[m].ptr.used, flush |-> emu[m].flush,
                  text |-> heap[emu[m].buf].text]
  BY <1>1 DEF LogOf
<1>5. LogOf(m) \in LogType
  BY <1>3, <1>4 DEF LogType
<1>6. told[m] \in Told
  BY DEF ToldOK
<1>7. told[m].said \in Seq(Nat) /\ told[m].sent \in Seq(Nat)
  BY <1>6 DEF Told
<1> QED BY <1>1, <1>2, <1>4, <1>5, <1>6, <1>7

(* Whatever is written to the log, with its text and fill level *)
LEMMA LogKeeps ==
  ASSUME Agree, NEW m \in Id, emu[m] # Gone, emu[m].ptr.in # Nil,
         NEW l \in LogType, LogNow(m, l),
         l.size = LogOf(m).size, l.flush = LogOf(m).flush,
         NEW tn \in Told, told' = [told EXCEPT ![m] = tn],
         tn.in = told[m].in, tn.out = told[m].out, tn.granted = told[m].granted,
         TextTold(l, tn.said, tn.sent)
  PROVE  /\ emu'[m] # Gone /\ KeepsTo(m) /\ (l.used + 1 <= l.size => FitStays(m))
         /\ (\A w : LastNote(w, m) /\ Short(w, l.used, l.size) => FitStays(m))
<1> DEFINE e == emu[m]
           b == e.buf
           c == LogBlock(l.text)
           n == [e EXCEPT !.ptr.used = l.used]
<1>1. /\ e \in Emu /\ emu \in [Id -> Emu \cup {Gone}] /\ heap \in [Block -> AnyKind]
      /\ b # Nil /\ b \in Block /\ b \in Has(heap, e) /\ heap[b] \in LogKind
      /\ e.io # b /\ e.io \in Block /\ e.ptr.in = b
      /\ Sound(emu, heap) /\ ToldOK /\ PortsInv
  <2>1. Sound(emu, heap) /\ ToldOK /\ PortsInv
    BY DEF Agree, IInv
  <2>2. b # Nil
    BY <2>1, LogOfIs
  <2> QED BY <2>1, <2>2, KindsOf
<1>2. c \in LogKind /\ c.text = l.text /\ l.used \in Nat /\ l.size \in Nat
  BY DEF LogBlock, LogKind, LogType
<1>3. /\ n \in Emu /\ n.io = e.io /\ n.msr = e.msr /\ n.dir = e.dir
      /\ n.buf = e.buf /\ n.ptr.in = e.ptr.in /\ n.ptr.used = l.used /\ n.size = e.size
      /\ n.flush = e.flush
  BY <1>1, <1>2 DEF Emu
<1>4. heap' = [heap EXCEPT ![b] = c] /\ emu' = [emu EXCEPT ![m] = n]
  BY <1>1 DEF LogNow
<1>5. e.size = l.size /\ e.flush = l.flush
  BY <1>1, LogOfIs
<1>6. e = emu[m]
  OBVIOUS
<1> HIDE DEF e, b, c, n
<1>7. PICK g : g = heap'
  OBVIOUS
<1>8. PICK en : en = emu'
  OBVIOUS
<1>9. /\ Sound(en, g) /\ Others(emu, heap, en, g, m) /\ en[m] = n /\ n # Gone
      /\ g[b] = c /\ \A x \in Block : x # b => g[x] = heap[x]
  <2>1. /\ n.io = emu[m].io /\ n.msr = emu[m].msr /\ n.dir = emu[m].dir
        /\ n.buf = emu[m].buf /\ n.ptr.in = emu[m].ptr.in /\ b \in Has(heap, emu[m])
    BY <1>1, <1>3, <1>6
  <2>2. g = [heap EXCEPT ![b] = c] /\ en = [emu EXCEPT ![m] = n]
    BY <1>4, <1>7, <1>8
  <2>3. heap[b] \in LogKind /\ c \in LogKind /\ n \in Emu /\ Sound(emu, heap)
    BY <1>1, <1>2, <1>3
  <2>4. Sound(en, g) /\ Others(emu, heap, en, g, m)
    <3>1. /\ heap \in [Block -> AnyKind] /\ e \in Emu /\ PointersOK(heap, e)
          /\ b \in Has(heap, e)
      BY <1>1, <1>6 DEF Sound
    <3>2. g \in [Block -> AnyKind] /\ PointersOK(g, e) /\ Has(g, e) = Has(heap, e)
      BY <2>2, <2>3, <3>1, SameKind, ZenonT(60)
    <3>3. PointersOK(g, n) /\ Has(g, n) = Has(g, e)
      BY <1>3, <3>1, <3>2, PlainFields
    <3>4. \A x \in Block : x \notin Has(heap, emu[m]) => g[x] = heap[x]
      BY <1>1, <2>1, <2>2
    <3>5. Has(g, n) = Has(heap, emu[m])
      BY <3>2, <3>3, <1>6
    <3> QED BY <2>2, <2>3, <3>2, <3>3, <3>4, <3>5, SameBlocks
  <2>5. en[m] = n /\ n # Gone
    BY <1>1, <1>3, <2>2, KindsApart
  <2>6. g[b] = c /\ \A x \in Block : x # b => g[x] = heap[x]
    BY <1>1, <2>2
  <2> QED BY <2>4, <2>5, <2>6
<1>10. tn # Gone /\ told'[m] = tn /\ ToldStays(m)
  <2>1. tn # Gone
    <3>1. DOMAIN tn = {"granted", "in", "out", "said", "sent"} /\ DOMAIN Gone = {"is"}
      BY DEF Told, Gone
    <3> QED BY <3>1
  <2> QED BY <1>1, <1>8, <1>9, <2>1 DEF ToldOK, ToldStays
<1>11. SamePorts(m)
  BY <1>1, <1>3, <1>6, <1>7, <1>8, <1>9, <1>10 DEF SamePorts
<1>12. PortsStay(m)
  BY <1>1, <1>11, PortsQuiet
<1>13. /\ LogIn(g, n).size = l.size /\ LogIn(g, n).used = l.used
       /\ LogIn(g, n).text = l.text /\ LogIn(g, n).flush = l.flush
  <2>1. LogIn(g, n) = [size |-> n.size, used |-> n.ptr.used, flush |-> n.flush,
                       text |-> g[n.buf].text]
    BY <1>1, <1>3 DEF LogIn, b
  <2>2. g[n.buf].text = l.text
    BY <1>2, <1>3, <1>9 DEF b
  <2> QED BY <2>1, <2>2, <1>3, <1>5
<1>14. TextTold(LogIn(g, n), tn.said, tn.sent)
  BY <1>13 DEF TextTold
<1>15. TextStays(m)
  BY <1>7, <1>8, <1>9, <1>10, <1>14 DEF TextStays
<1>16. l.used + 1 <= l.size => FitStays(m)
  BY <1>7, <1>8, <1>9, <1>13 DEF FitStays, FitIn, FitsBut
<1>17. \A w : LastNote(w, m) /\ Short(w, l.used, l.size) => FitStays(m)
  BY <1>7, <1>8, <1>9, <1>13 DEF FitStays, FitsBut, JustBeyond, LastNote, Short
<1> QED BY <1>7, <1>8, <1>9, <1>10, <1>12, <1>15, <1>16, <1>17 DEF KeepsTo, Stays

(* A message of n bytes, or none when it was lost *)
LEMMA WroteKeeps ==
  ASSUME Agree, NEW m \in Id, emu[m] # Gone, emu[m].ptr.in # Nil, NEW r, NEW n,
         Written(LogOf(m), r, n, told[m].said, told[m].sent), Wrote(m, r, n)
  PROVE  /\ emu'[m] # Gone /\ KeepsTo(m)
         /\ (r.log.used + 1 <= LogOf(m).size => FitStays(m))
         /\ (\A w : LastNote(w, m) /\ Short(w, r.log.used, LogOf(m).size) => FitStays(m))
<1> DEFINE t   == told[m]
           now == IF r.lost THEN t.said ELSE Append(t.said, n)
           tn  == [t EXCEPT !.said = now, !.sent = t.sent \o r.sent]
<1>1. /\ t \in Told /\ told \in [Id -> Told \cup {Gone}]
  <2>1. Sound(emu, heap) /\ ToldOK
    BY DEF Agree, IInv
  <2> QED BY <2>1, LogOfIs DEF ToldOK
<1>2. /\ r.log \in LogType /\ now \in Seq(Nat) /\ t.sent \o r.sent \in Seq(Nat)
      /\ TextTold(r.log, now, t.sent \o r.sent)
      /\ r.log.size = LogOf(m).size /\ r.log.flush = LogOf(m).flush
  BY DEF Written
<1>3. told' = [told EXCEPT ![m] = tn] /\ LogNow(m, r.log)
  BY <1>1 DEF Wrote, Told
<1> HIDE DEF now
<1>4. /\ tn \in Told /\ tn.said = now /\ tn.sent = t.sent \o r.sent
      /\ tn.in = t.in /\ tn.out = t.out /\ tn.granted = t.granted
  BY <1>1, <1>2 DEF Told
<1>5. TextTold(r.log, tn.said, tn.sent)
  BY <1>2, <1>4
<1> HIDE DEF tn
<1>6. tn.in = told[m].in /\ tn.out = told[m].out /\ tn.granted = told[m].granted
  BY <1>4
<1> QED BY <1>2, <1>3, <1>4, <1>5, <1>6, LogKeeps

(* x86emu_log(), and the writers that check for guard bytes first *)
LEMMA SayKeeps ==
  ASSUME Agree, NEW m \in Id, NEW n \in SayArg, Say(m, n)
  PROVE  emu[m] # Gone /\ emu'[m] # Gone /\ KeepsTo(m) /\ FitStays(m)
<1> DEFINE log == LogOf(m)
           r   == Said(log, n)
<1>1. /\ emu[m] # Gone /\ emu[m].ptr.in # Nil /\ Sound(emu, heap) /\ ToldOK /\ TextInv
      /\ Wrote(m, r, n) /\ n \in Nat \ {0}
  BY ArgAssumption DEF Say, Live, Agree, IInv
<1>2. /\ log \in LogType /\ log = LogIn(heap, emu[m]) /\ emu[m].buf # Nil
      /\ told[m].said \in Seq(Nat) /\ told[m].sent \in Seq(Nat)
  BY <1>1, LogOfIs
<1>3. TextTold(log, told[m].said, told[m].sent)
  BY <1>1, <1>2 DEF TextInv
<1> HIDE DEF log
<1>4. Written(log, r, n, told[m].said, told[m].sent)
  BY <1>1, <1>2, <1>3, SaidTold
<1>5. emu'[m] # Gone /\ KeepsTo(m) /\ (r.log.used + 1 <= log.size => FitStays(m))
  BY <1>1, <1>4, WroteKeeps DEF log
<1>6. CASE FitInv
  <2>1. log.used + 1 <= log.size
    BY <1>1, <1>2, <1>6 DEF FitInv, FitIn
  <2>2. r.log.used + 1 <= log.size
    BY <1>1, <1>2, <2>1, WritersFit
  <2> QED BY <1>1, <1>5, <2>2
<1>7. CASE ~FitInv
  BY <1>1, <1>5, <1>7 DEF FitStays
<1> QED BY <1>6, <1>7

(* log_regs(), log_code() and the like *)
LEMMA NoteKeeps ==
  ASSUME Agree, NEW m \in Id, NEW w \in NoteArg, Note(m, w.guard, w.n)
  PROVE  emu[m] # Gone /\ emu'[m] # Gone /\ KeepsTo(m) /\ FitStays(m)
<1> DEFINE log == LogOf(m)
           r   == Noted(log, w.guard, w.n)
<1>1. /\ emu[m] # Gone /\ emu[m].ptr.in # Nil /\ Sound(emu, heap) /\ ToldOK /\ TextInv
      /\ Wrote(m, r, w.n) /\ w.n \in Nat \ {0} /\ w.guard \in Nat
  BY ArgAssumption DEF Note, Live, Agree, IInv
<1>2. /\ log \in LogType /\ log = LogIn(heap, emu[m]) /\ emu[m].buf # Nil
      /\ told[m].said \in Seq(Nat) /\ told[m].sent \in Seq(Nat)
  BY <1>1, LogOfIs
<1>3. TextTold(log, told[m].said, told[m].sent)
  BY <1>1, <1>2 DEF TextInv
<1> HIDE DEF log
<1>4. Written(log, r, w.n, told[m].said, told[m].sent)
  BY <1>1, <1>2, <1>3, NotedTold
<1>5. /\ emu'[m] # Gone /\ KeepsTo(m)
      /\ (LastNote(w, m) /\ Short(w, r.log.used, log.size) => FitStays(m))
      /\ (r.log.used + 1 <= log.size => FitStays(m))
  BY <1>1, <1>4, WroteKeeps DEF log
<1>6. LastNote(w, m)
  <2>1. req' = [what |-> "note", of |-> m, answer |-> [guard |-> w.guard, n |-> w.n]]
    BY DEF Note, Asked
  <2>2. w \in [guard : Nat, n : Nat \ {0}]
    BY ArgAssumption
  <2> QED BY <2>1, <2>2 DEF LastNote
<1>7. CASE FitInv
  <2>1. log.used + 1 <= log.size
    BY <1>1, <1>2, <1>7 DEF FitInv, FitIn
  <2>2. r.log.used + 1 <= log.size \/ Short(w, r.log.used, log.size)
    BY <1>1, <1>2, <2>1, WritersFit DEF Short
  <2> QED BY <1>1, <1>5, <1>6, <2>2
<1>8. CASE ~FitInv
  BY <1>1, <1>5, <1>8 DEF FitStays
<1> QED BY <1>7, <1>8

(* x86emu_clear_log() *)
LEMMA ClearLogKeeps ==
  ASSUME Agree, NEW m \in Id, NEW flush \in BOOLEAN, ClearLog(m, flush)
  PROVE  emu[m] # Gone /\ emu'[m] # Gone /\ KeepsTo(m) /\ FitStays(m)
<1> DEFINE log  == LogOf(m)
           t    == told[m]
           more == IF flush THEN Flushed(log) ELSE <<>>
           sent == t.sent \o more
           tn   == [t EXCEPT !.said = sent, !.sent = sent]
<1>1. /\ emu[m] # Gone /\ emu[m].ptr.in # Nil /\ Sound(emu, heap) /\ ToldOK
      /\ LogNow(m, Cleared(log))
  BY DEF ClearLog, Live, Agree, IInv
<1>2. /\ log \in LogType /\ log = LogIn(heap, emu[m]) /\ emu[m].buf # Nil
      /\ t \in Told /\ t.sent \in Seq(Nat)
  BY <1>1, LogOfIs
<1>3. sent \in Seq(Nat)
  <2>1. t.sent \o Flushed(log) \in Seq(Nat)
    BY <1>2, ClearedTold
  <2>2. t.sent \o <<>> = t.sent
    BY <1>2, ConcatEmptySeq
  <2> QED BY <1>2, <2>1, <2>2
<1>4. /\ Cleared(log) \in LogType /\ Cleared(log).size = log.size /\ Cleared(log).used = 0
      /\ Cleared(log).flush = log.flush /\ Cleared(log).text = <<>>
  BY <1>2, ClearedTold
<1>5. told' = [told EXCEPT ![m] = tn]
  BY <1>1, <1>2 DEF ClearLog, ToldOK, Told
<1> HIDE DEF sent
<1>6. /\ tn \in Told /\ tn.said = sent /\ tn.sent = sent
      /\ tn.in = t.in /\ tn.out = t.out /\ tn.granted = t.granted
  BY <1>2, <1>3 DEF Told
<1>7. TextTold(Cleared(log), tn.said, tn.sent)
  <2>1. sent \o <<>> = sent
    BY <1>3, ConcatEmptySeq
  <2>2. EndsWith(sent, <<>>)
    BY <1>3, EndsWithNothing
  <2> QED BY <1>4, <1>6, <2>1, <2>2 DEF TextTold
<1> HIDE DEF tn, log
<1>8. /\ tn.in = told[m].in /\ tn.out = told[m].out /\ tn.granted = told[m].granted
      /\ Cleared(log).size = LogOf(m).size /\ Cleared(log).flush = LogOf(m).flush
  BY <1>4, <1>6 DEF log
<1>9. /\ emu'[m] # Gone /\ KeepsTo(m)
      /\ Cleared(log).used + 1 <= Cleared(log).size => FitStays(m)
  BY <1>1, <1>4, <1>5, <1>6, <1>7, <1>8, LogKeeps
<1>10. ASSUME FitInv PROVE FitStays(m)
  <2>1. log.used + 1 <= log.size
    BY <1>1, <1>2, <1>10 DEF FitInv, FitIn
  <2>2. Cleared(log).used + 1 <= Cleared(log).size
    BY <1>2, <1>4, <2>1, SMT DEF LogType
  <2> QED BY <1>9, <2>2
<1>11. ASSUME ~FitInv PROVE FitStays(m)
  BY <1>11 DEF FitStays
<1> QED BY <1>1, <1>9, <1>10, <1>11

-----------------------------------------------------------------------------
(* Handlers *)
LEMMA HandlerKeeps ==
  ASSUME Agree, NEW m \in Id, NEW new \in {"vm", "own"}, SetHandler(m, new)
  PROVE  emu[m] # Gone /\ emu'[m] # Gone /\ KeepsTo(m) /\ FitStays(m)
<1> DEFINE e == emu[m]
           n == [e EXCEPT !.handler = new]
<1>1. /\ e \in Emu /\ emu \in [Id -> Emu \cup {Gone}] /\ heap \in [Block -> AnyKind]
      /\ PointersOK(heap, e) /\ e # Gone /\ Sound(emu, heap)
  BY DEF Agree, IInv, Sound, SetHandler, Live
<1>2. /\ n \in Emu /\ n.io = e.io /\ n.msr = e.msr /\ n.dir = e.dir /\ n.buf = e.buf
      /\ n.ptr = e.ptr /\ n.size = e.size /\ n.flush = e.flush
  BY <1>1 DEF Emu
<1>3. emu' = [emu EXCEPT ![m] = n] /\ heap' = heap /\ told' = told
  BY DEF SetHandler
<1> HIDE DEF n
<1>4. PointersOK(heap, n) /\ Has(heap, n) = Has(heap, e)
  BY <1>1, <1>2, PlainFields
<1>5. LET en == [emu EXCEPT ![m] = n] IN Sound(en, heap) /\ Others(emu, heap, en, heap, m)
  BY <1>1, <1>2, <1>4, SameBlocks
<1>6. Stays(m) /\ emu'[m] = n /\ n # Gone
  BY <1>1, <1>2, <1>3, <1>5, KindsApart DEF Stays
<1>7. LogIn(heap, n) = LogIn(heap, e)
  BY <1>2 DEF LogIn
<1>8. SameRest(heap, emu[m], heap', emu'[m])
  BY <1>2, <1>3, <1>6, <1>7 DEF SameRest
<1> QED BY <1>1, <1>3, <1>6, <1>8, QuietStep

-----------------------------------------------------------------------------
(* free() of what pointer old of machine e leads to, and calloc() of new:  *)
(* machine n in heap g                                                     *)
Swap(h, e, old, new, n, g) ==
  /\ new \in Block \cup {Nil} /\ (new = Nil \/ new = old \/ h[new] = Free)
  /\ n \in Emu /\ n.io = e.io /\ n.dir = e.dir /\ g \in [Block -> AnyKind]
  /\ \A x \in Block : x # old /\ x # new => g[x] = h[x]
  /\ \A x \in Block : x = old /\ x # new => g[x] = Free
  /\ \/ /\ old = e.buf /\ new = n.buf /\ n.ptr.in = n.buf /\ n.msr = e.msr
        /\ new # Nil => g[new] \in LogKind
     \/ /\ old = e.msr /\ new = n.msr /\ n.ptr.in = e.ptr.in
        /\ n.buf = e.buf /\ g[new] \in MsrKind

KeptBy(h, e, old, n, g) ==
  /\ g[e.io] = h[e.io]
  /\ n.buf = e.buf /\ n.buf # Nil /\ old # e.buf => g[n.buf] = h[n.buf]

(* One block is freed and another one taken: the machine is whole. *)
LEMMA Swapped ==
  ASSUME Sound(emu, heap), NEW m \in Id, emu[m] # Gone,
         NEW old, NEW new, NEW n, NEW g, Swap(heap, emu[m], old, new, n, g)
  PROVE  /\ LET en == [emu EXCEPT ![m] = n]
            IN  Sound(en, g) /\ Others(emu, heap, en, g, m)
         /\ KeptBy(heap, emu[m], old, n, g)
<1> USE DEF Swap
<1> DEFINE e == emu[m]
           d == e.dir
           H == Has(heap, e)
<1>1. /\ e \in Emu /\ PointersOK(heap, e) /\ heap \in [Block -> AnyKind] /\ e # Gone
  BY DEF Sound
<1>2. /\ H \subseteq Block /\ \A b \in H : heap[b] # Free
      /\ e.io \in Block /\ e.msr \in Block /\ e.buf \in Block \cup {Nil}
      /\ d \in Block \cup {Nil} /\ \A p \in Page : d # Nil => heap[d].page[p] \in Entry
  BY <1>1, HasBlocks
<1>3. /\ e.io \in H /\ e.msr \in H /\ (e.buf # Nil => e.buf \in H) /\ (d # Nil => d \in H)
      /\ d # Nil => \A p \in Page : heap[d].page[p].attr # Nil => heap[d].page[p].attr \in H
  BY <1>1 DEF Has, PagesIn
<1>4. /\ heap[e.io] \in IoKind /\ heap[e.msr] \in MsrKind
      /\ e.buf # Nil => heap[e.buf] \in LogKind
      /\ d # Nil => DirOK(heap, d) /\ heap[d] \in DirKind
      /\ e.ptr.in = e.buf
  BY <1>1 DEF PointersOK, DirOK
<1>5. \A x \in H : x # old => g[x] = heap[x] /\ x # new
  BY <1>2, NilIsNoBlock
<1>6. /\ e.io # old /\ (d # Nil => d # old)
      /\ old = e.buf => e.msr # old
      /\ old = e.msr /\ e.buf # Nil => e.buf # old
  BY <1>2, <1>4, KindsApart, NilIsNoBlock
<1>7. d # Nil => \A p \in Page : heap[d].page[p].attr # Nil =>
         heap[heap[d].page[p].attr] \in PageKind /\ heap[d].page[p].attr # old
  <2>1. SUFFICES ASSUME d # Nil, NEW p \in Page, heap[d].page[p].attr # Nil
                 PROVE  heap[heap[d].page[p].attr] \in PageKind /\ heap[d].page[p].attr # old
    OBVIOUS
  <2>2. heap[heap[d].page[p].attr] \in PageKind
    BY <1>4, <2>1 DEF DirOK, EntryOK
  <2>3. heap[d].page[p].attr # old
    BY <1>4, <2>1, <2>2, KindsApart
  <2> QED BY <2>2, <2>3
<1>8. ASSUME d # Nil PROVE DirOK(g, d) /\ g[d] = heap[d]
  <2>1. g[d] = heap[d]
    BY <1>3, <1>5, <1>6, <1>8
  <2>2. ASSUME NEW p \in Page PROVE EntryOK(g, g[d].page[p])
    <3>1. EntryOK(heap, heap[d].page[p])
      BY <1>4, <1>8 DEF DirOK
    <3>2. heap[d].page[p].attr # Nil => g[heap[d].page[p].attr] = heap[heap[d].page[p].attr]
      BY <1>3, <1>5, <1>7, <1>8
    <3> QED BY <2>1, <3>1, <3>2 DEF EntryOK
  <2>3. DirOK(heap, d)
    BY <1>4, <1>8
  <2>4. /\ g[d] \in DirKind
        /\ \A p, q \in Page :
             p # q /\ g[d].page[p].attr # Nil => g[d].page[p].attr # g[d].page[q].attr
    BY <2>1, <2>3 DEF DirOK
  <2> QED BY <2>1, <2>2, <2>4, Zenon DEF DirOK
<1>9. PagesIn(g, d) = PagesIn(heap, d) /\ old \notin PagesIn(heap, d)
  <2> HIDE DEF d
  <2>1. CASE d = Nil
    BY <2>1 DEF PagesIn
  <2>2. CASE d # Nil
    <3>1. g[d] = heap[d]
      BY <1>8, <2>2
    <3>2. PagesIn(g, d) = PagesIn(heap, d)
      BY <3>1 DEF PagesIn
    <3>3. ASSUME NEW b \in PagesIn(heap, d) PROVE b # old
      BY <1>7, <2>2, <3>3 DEF PagesIn
    <3> QED BY <3>2, <3>3
  <2> QED BY <2>1, <2>2
<1>10. g[e.io] = heap[e.io]
  BY <1>3, <1>5, <1>6
<1>11. /\ old = e.buf => g[e.msr] = heap[e.msr]
       /\ old = e.msr /\ e.buf # Nil => g[e.buf] = heap[e.buf]
  BY <1>3, <1>5, <1>6
<1>12. PointersOK(g, n)
  <2>1. g[n.io] \in IoKind /\ n.ptr.in = n.buf /\ (n.dir # Nil => DirOK(g, n.dir))
    BY <1>4, <1>8, <1>10
  <2>2. g[n.msr] \in MsrKind /\ (n.buf # Nil => g[n.buf] \in LogKind)
    BY <1>4, <1>11
  <2> QED BY <2>1, <2>2 DEF PointersOK
<1>13. n # Gone
  BY KindsApart
<1>14. \A b : b \in Has(g, n) <=> (b \in H /\ b # old) \/ (b = new /\ b # Nil)
  <2>1. \A b : b \in H <=> b \in {e.io, e.msr} \cup ({d, e.buf} \ {Nil}) \cup PagesIn(heap, d)
    BY <1>1 DEF Has
  <2>2. \A b : b \in Has(g, n) <=>
           b \in {e.io, n.msr} \cup ({d, n.buf} \ {Nil}) \cup PagesIn(heap, d)
    BY <1>9, <1>13 DEF Has
  <2>3. n.msr # Nil /\ e.msr # Nil /\ e.io # Nil
    BY <1>2, NilIsNoBlock DEF Emu
  <2> HIDE DEF H, d
  <2>4. CASE old = e.buf /\ new = n.buf /\ n.msr = e.msr
    BY <2>1, <2>2, <2>3, <2>4, <1>6, <1>9
  <2>5. CASE old = e.msr /\ new = n.msr /\ n.buf = e.buf
    BY <2>1, <2>2, <2>3, <2>5, <1>6, <1>9
  <2> QED BY <2>4, <2>5
<1>15. /\ \A b \in Has(g, n) : b \in H \/ heap[b] = Free
       /\ \A b \in Block : b \notin H /\ b \notin Has(g, n) => g[b] = heap[b]
       /\ \A b \in Block : b \in H /\ b \notin Has(g, n) => g[b] = Free
  <2> HIDE DEF H, d
  <2>1. old \in H \/ old = Nil
    BY <1>3
  <2>2. ASSUME NEW b \in Has(g, n) PROVE b \in H \/ heap[b] = Free
    BY <1>14, <2>1
  <2>3. ASSUME NEW b \in Block, b \notin H, b \notin Has(g, n) PROVE g[b] = heap[b]
    BY <1>14, <2>1, <2>3, NilIsNoBlock
  <2>4. ASSUME NEW b \in Block, b \in H, b \notin Has(g, n) PROVE g[b] = Free
    BY <1>14, <2>4, NilIsNoBlock
  <2> QED BY <2>2, <2>3, <2>4
<1>16. LET en == [emu EXCEPT ![m] = n] IN Sound(en, g) /\ Others(emu, heap, en, g, m)
  <2>1. n \in Emu \cup {Gone}
    OBVIOUS
  <2> QED BY <1>12, <1>15, <2>1, LocalStep
<1>17. n.buf = emu[m].buf /\ n.buf # Nil /\ old # emu[m].buf => g[n.buf] = heap[n.buf]
  BY <1>3, <1>5
<1> QED BY <1>10, <1>16, <1>17 DEF KeptBy

(* What is given back is there for the next calloc(). *)
LEMMA FreedThenNew ==
  ASSUME NEW h, NEW f, NEW old, \A x \in Block : x = old => f[x] = Free,
         \A x \in Block : x # old => f[x] = h[x],
         old \in Block \/ FreeIn(h) # {}
  PROVE  New(f) \in Block /\ (New(f) = old \/ h[New(f)] = Free)
<1>1. FreeIn(f) # {}
  BY DEF FreeIn
<1>2. New(f) \in Block /\ f[New(f)] = Free
  BY <1>1, NewFree
<1> QED BY <1>2

(* x86emu_reset() *)
LEMMA ResetKeeps ==
  ASSUME Agree, NEW m \in Id, Reset(m)
  PROVE  emu[m] # Gone /\ emu'[m] # Gone /\ KeepsTo(m) /\ FitStays(m)
<1> DEFINE e   == emu[m]
           old == e.msr
           h   == Freed(heap, {old})
           b   == New(h)
           n   == [e EXCEPT !.msr = b]
           g   == With(h, b, MsrBlock)
<1>1. /\ e \in Emu /\ emu \in [Id -> Emu \cup {Gone}] /\ heap \in [Block -> AnyKind]
      /\ e # Gone /\ Sound(emu, heap) /\ old \in Block
      /\ e.io \in Block /\ e.ptr.in = e.buf
  <2>1. Sound(emu, heap) /\ emu[m] # Gone
    BY DEF Agree, IInv, Reset, Live
  <2> QED BY <2>1, KindsOf
<1>2. heap' = g /\ emu' = [emu EXCEPT ![m] = n] /\ told' = told
  BY DEF Reset
<1>0. /\ h = [x \in Block |-> IF x \in {old} THEN Free ELSE heap[x]]
      /\ b = New(h)
  BY DEF Freed
<1> HIDE DEF h, b
<1>3. /\ h \in [Block -> AnyKind] /\ b \in Block /\ (b = old \/ heap[b] = Free)
      /\ \A x \in Block : (x # old => h[x] = heap[x]) /\ (x = old => h[x] = Free)
  <2>1. /\ h \in [Block -> AnyKind]
        /\ \A x \in Block : (x # old => h[x] = heap[x]) /\ (x = old => h[x] = Free)
    BY <1>0, <1>1 DEF AnyKind, FreeKind
  <2>2. New(h) \in Block /\ (New(h) = old \/ heap[New(h)] = Free)
    BY <1>1, <2>1, FreedThenNew
  <2> QED BY <1>0, <2>1, <2>2
<1>4. MsrBlock \in MsrKind
  BY LifeAssumption DEF MsrBlock, MsrKind, Value, Flags, MemFlag
<1>5. /\ g \in [Block -> AnyKind] /\ g[b] = MsrBlock
      /\ \A x \in Block : x # b => g[x] = h[x]
  BY <1>3, <1>4 DEF With, AnyKind
<1>6. /\ n \in Emu /\ n.io = e.io /\ n.msr = b /\ n.dir = e.dir /\ n.buf = e.buf
      /\ n.ptr = e.ptr /\ n.size = e.size /\ n.flush = e.flush
  BY <1>1, <1>3 DEF Emu
<1>7. /\ \A x \in Block : x # old /\ x # b => g[x] = heap[x]
      /\ \A x \in Block : x = old /\ x # b => g[x] = Free
  BY <1>3, <1>5
<1> HIDE DEF n, g
<1>8. old # e.buf
  BY <1>1, KindsOf, NilIsNoBlock
<1>14. /\ LET en == [emu EXCEPT ![m] = n] IN Sound(en, g) /\ Others(emu, heap, en, g, m)
       /\ g[e.io] = heap[e.io]
       /\ n.buf = e.buf /\ n.buf # Nil /\ old # e.buf => g[n.buf] = heap[n.buf]
  <2>1. /\ n.io = emu[m].io /\ n.dir = emu[m].dir /\ old = emu[m].msr /\ b = n.msr
        /\ n.ptr.in = emu[m].ptr.in /\ n.buf = emu[m].buf /\ g[b] \in MsrKind
        /\ b \in Block \cup {Nil} /\ (b = Nil \/ b = old \/ heap[b] = Free)
        /\ emu[m] # Gone /\ n \in Emu /\ g \in [Block -> AnyKind] /\ Sound(emu, heap)
    BY <1>1, <1>3, <1>4, <1>5, <1>6
  <2>2. Swap(heap, emu[m], old, b, n, g)
    BY <1>7, <2>1 DEF Swap
  <2> HIDE DEF old, e
  <2>3. Sound(emu, heap) /\ emu[m] # Gone
    BY <2>1
  <2>4. LET en == [emu EXCEPT ![m] = n] IN Sound(en, g) /\ Others(emu, heap, en, g, m)
    BY <2>2, <2>3, Swapped
  <2>5. KeptBy(heap, emu[m], old, n, g)
    BY <2>2, <2>3, Swapped
  <2> QED BY <2>4, <2>5 DEF e, KeptBy
<1>10. Stays(m) /\ emu'[m] = n /\ n # Gone
  BY <1>1, <1>2, <1>6, <1>14, KindsApart DEF Stays
<1>11. LogIn(g, n) = LogIn(heap, e)
  BY <1>6, <1>8, <1>14 DEF LogIn
<1>12. SameRest(heap, emu[m], heap', emu'[m])
  BY <1>2, <1>6, <1>10, <1>11, <1>14 DEF SameRest
<1>13. emu[m] # Gone /\ emu'[m] # Gone /\ UNCHANGED told
  BY <1>1, <1>2, <1>10
<1> QED BY <1>10, <1>12, <1>13, QuietStep

(* x86emu_set_log() *)
LEMMA SetLogKeeps ==
  ASSUME Agree, NEW m \in Id, NEW size \in Nat, NEW flush \in BOOLEAN, SetLog(m, size, flush)
  PROVE  emu[m] # Gone /\ emu'[m] # Gone /\ KeepsTo(m) /\ FitStays(m)
<1> DEFINE e   == emu[m]
           old == e.buf
           h   == Freed(heap, {old})
           b   == IF size = 0 THEN Nil ELSE New(h)
           n   == [e EXCEPT !.buf = b, !.ptr = [in |-> b, used |-> 0], !.size = size,
                            !.flush = flush]
           g   == IF b = Nil THEN h ELSE With(h, b, LogBlock(<<>>))
           tn  == [told[m] EXCEPT !.said = <<>>, !.sent = <<>>]
<1>1. /\ e \in Emu /\ emu \in [Id -> Emu \cup {Gone}] /\ heap \in [Block -> AnyKind]
      /\ e # Gone /\ Sound(emu, heap) /\ ToldOK /\ PortsInv /\ old \in Block \cup {Nil}
      /\ e.io \in Block /\ e.ptr.in = e.buf
  <2>1. Sound(emu, heap) /\ emu[m] # Gone /\ ToldOK /\ PortsInv
    BY DEF Agree, IInv, SetLog, Live
  <2> QED BY <2>1, KindsOf
<1>2. heap' = g /\ emu' = [emu EXCEPT ![m] = n]
  BY DEF SetLog
<1>3. told[m] \in Told /\ told' = [told EXCEPT ![m] = tn]
  BY <1>1 DEF SetLog, ToldOK, Told
<1>0. h = [x \in Block |-> IF x \in {old} THEN Free ELSE heap[x]]
  BY DEF Freed
<1> HIDE DEF h, b
<1>4. /\ h \in [Block -> AnyKind]
      /\ \A x \in Block : (x # old => h[x] = heap[x]) /\ (x = old => h[x] = Free)
  BY <1>0, <1>1 DEF AnyKind, FreeKind
<1>5. b \in Block \cup {Nil} /\ (b = Nil \/ b = old \/ heap[b] = Free)
  <2>1. CASE size = 0
    BY <2>1 DEF b
  <2>2. CASE size # 0
    <3>1. old \in Block \/ FreeIn(heap) # {}
      <4>1. CASE old = Nil
        <5>1. <<"own", "buf">> \in Slot
          BY DEF Slot, OwnSlot
        <5>2. Unused(emu, heap, <<m, <<"own", "buf">>>>)
          BY <4>1 DEF Unused, Pointer
        <5>3. New(heap) \in Block /\ heap[New(heap)] = Free
          BY <1>1, <5>1, <5>2, RoomForOne
        <5> QED BY <5>3 DEF FreeIn
      <4> QED BY <1>1, <4>1
    <3>2. New(h) \in Block /\ (New(h) = old \/ heap[New(h)] = Free)
      BY <1>4, <3>1, FreedThenNew
    <3> QED BY <2>2, <3>2 DEF b
  <2> QED BY <2>1, <2>2
<1>6. LogBlock(<<>>) \in LogKind /\ LogBlock(<<>>).text = <<>>
  BY DEF LogBlock, LogKind
<1>7. /\ g \in [Block -> AnyKind] /\ (b # Nil => g[b] = LogBlock(<<>>))
      /\ \A x \in Block : x # b => g[x] = h[x]
  BY <1>4, <1>5, <1>6 DEF With, AnyKind
<1>8. /\ n \in Emu /\ n.io = e.io /\ n.msr = e.msr /\ n.dir = e.dir /\ n.buf = b
      /\ n.ptr.in = b /\ n.ptr.used = 0 /\ n.size = size /\ n.flush = flush
  BY <1>1, <1>5 DEF Emu
<1>9. /\ \A x \in Block : x # old /\ x # b => g[x] = heap[x]
      /\ \A x \in Block : x = old /\ x # b => g[x] = Free
  BY <1>4, <1>7
<1> HIDE DEF n, g
<1>10. /\ LET en == [emu EXCEPT ![m] = n] IN Sound(en, g) /\ Others(emu, heap, en, g, m)
       /\ g[e.io] = heap[e.io]
  <2>1. /\ n.io = emu[m].io /\ n.dir = emu[m].dir /\ old = emu[m].buf /\ b = n.buf
        /\ n.ptr.in = n.buf /\ n.msr = emu[m].msr /\ (b # Nil => g[b] \in LogKind)
        /\ emu[m] # Gone /\ n \in Emu /\ g \in [Block -> AnyKind] /\ Sound(emu, heap)
    BY <1>1, <1>6, <1>7, <1>8
  <2>2. Swap(heap, emu[m], old, b, n, g)
    BY <1>5, <1>9, <2>1 DEF Swap
  <2> HIDE DEF old, e
  <2>3. Sound(emu, heap) /\ emu[m] # Gone
    BY <2>1
  <2>4. LET en == [emu EXCEPT ![m] = n] IN Sound(en, g) /\ Others(emu, heap, en, g, m)
    BY <2>2, <2>3, Swapped
  <2>5. KeptBy(heap, emu[m], old, n, g)
    BY <2>2, <2>3, Swapped
  <2> QED BY <2>4, <2>5 DEF e, KeptBy
<1>11. Stays(m) /\ emu'[m] = n /\ n # Gone
  BY <1>1, <1>2, <1>8, <1>10, KindsApart DEF Stays
<1>12. /\ tn \in Told /\ tn.said = <<>> /\ tn.sent = <<>> /\ tn # Gone
       /\ tn.in = told[m].in /\ tn.out = told[m].out /\ tn.granted = told[m].granted
  <2>1. <<>> \in Seq(Nat)
    BY EmptySeq
  <2>2. /\ tn \in Told /\ tn.said = <<>> /\ tn.sent = <<>>
        /\ tn.in = told[m].in /\ tn.out = told[m].out /\ tn.granted = told[m].granted
    BY <1>3, <2>1 DEF Told
  <2>3. DOMAIN tn = {"granted", "in", "out", "said", "sent"} /\ DOMAIN Gone = {"is"}
    BY <2>2 DEF Told, Gone
  <2> QED BY <2>2, <2>3
<1> HIDE DEF tn
<1>13. told'[m] = tn /\ ToldStays(m)
  BY <1>1, <1>3, <1>11, <1>12 DEF ToldOK, ToldStays
<1>14. PortsStay(m)
  <2>1. SamePorts(m)
    BY <1>2, <1>8, <1>10, <1>11, <1>12, <1>13 DEF SamePorts
  <2> QED BY <1>1, <2>1, PortsQuiet
<1>15. LogIn(g, n).text = <<>> /\ LogIn(g, n).used = 0 /\ (n.buf # Nil => LogIn(g, n).size = size)
  BY <1>5, <1>6, <1>7, <1>8 DEF LogIn, NoLog
<1>16. TextStays(m)
  <2>1. <<>> \in Seq(Nat) /\ <<>> \o <<>> = <<>>
    BY EmptySeq, ConcatEmptySeq
  <2>2. EndsWith(<<>>, <<>>)
    BY <2>1, EndsWithNothing
  <2>3. TextTold(LogIn(g, n), tn.said, tn.sent)
    BY <1>12, <1>15, <2>1, <2>2 DEF TextTold
  <2> QED BY <1>2, <1>11, <1>13, <2>3 DEF TextStays
<1>17. FitStays(m)
  <2>1. n.buf # Nil => size # 0
    BY <1>8 DEF b
  <2>2. FitIn(g, n)
    BY <1>15, <2>1, SMT DEF FitIn
  <2> QED BY <1>2, <1>11, <2>2 DEF FitStays, FitsBut
<1>18. emu[m] # Gone /\ emu'[m] # Gone
  BY <1>1, <1>11
<1> QED BY <1>11, <1>13, <1>14, <1>16, <1>17, <1>18 DEF KeepsTo

-----------------------------------------------------------------------------
(* x86emu_done() frees all the machine has. *)
LEMMA OwnedIsHas ==
  ASSUME NEW e \in Emu, PointersOK(heap, e)
  PROVE  Owned(e) = Has(heap, e)
<1>1. e # Gone /\ e.io # Nil /\ e.msr # Nil
  BY KindsApart, HasBlocks, NilIsNoBlock
<1>2. Owned(e) = ({e.dir, e.io, e.msr, e.buf} \ {Nil}) \cup (PagesOf(e) \ {Nil})
  BY DEF Owned
<1>3. PagesOf(e) \ {Nil} = PagesIn(heap, e.dir)
  BY DEF PagesOf, PagesIn
<1>4. Has(heap, e) = {e.io, e.msr} \cup ({e.dir, e.buf} \ {Nil}) \cup PagesIn(heap, e.dir)
  BY <1>1 DEF Has
<1> QED BY <1>1, <1>2, <1>3, <1>4

(* x86emu_done() frees all the machine has, and nothing else. *)
LEMMA DoneKeeps ==
  ASSUME Agree, NEW m \in Id, Done(m)
  PROVE  emu[m] # Gone /\ emu'[m] = Gone /\ KeepsTo(m) /\ FitStays(m)
<1> DEFINE H == Has(heap, emu[m])
           g == Freed(heap, H)
<1>1. /\ emu[m] \in Emu /\ emu \in [Id -> Emu \cup {Gone}] /\ heap \in [Block -> AnyKind]
      /\ emu[m] # Gone /\ PointersOK(heap, emu[m]) /\ Sound(emu, heap) /\ ToldOK
  BY DEF Agree, IInv, Sound, Done, Live
<1>2. H \subseteq Block /\ Owned(emu[m]) = H
  BY <1>1, HasBlocks, OwnedIsHas
<1>3. heap' = g /\ emu' = [emu EXCEPT ![m] = Gone] /\ told' = [told EXCEPT ![m] = Gone]
  BY <1>2 DEF Done
<1>4. /\ g \in [Block -> AnyKind] /\ \A b \in Block : b \in H => g[b] = Free
      /\ \A b \in Block : b \notin H => g[b] = heap[b]
  BY <1>1 DEF Freed, AnyKind, FreeKind
<1>5. Has(g, Gone) = {}
  BY DEF Has
<1> HIDE DEF g
<1>6. LET en == [emu EXCEPT ![m] = Gone] IN Sound(en, g) /\ Others(emu, heap, en, g, m)
  <2>1. /\ \A b \in Has(g, Gone) : b \in Has(heap, emu[m]) \/ heap[b] = Free
        /\ \A b \in Block : b \notin Has(heap, emu[m]) /\ b \notin Has(g, Gone) => g[b] = heap[b]
        /\ \A b \in Block : b \in Has(heap, emu[m]) /\ b \notin Has(g, Gone) => g[b] = Free
    BY <1>4, <1>5
  <2>2. Gone \in Emu \cup {Gone} /\ (Gone # Gone => PointersOK(g, Gone))
    OBVIOUS
  <2> QED BY <1>1, <1>4, <2>1, <2>2, LocalStep
<1>7. Stays(m) /\ emu'[m] = Gone
  BY <1>1, <1>3, <1>6 DEF Stays
<1>8. ToldStays(m)
  BY <1>1, <1>3, <1>7 DEF ToldOK, ToldStays
<1> QED BY <1>1, <1>7, <1>8 DEF KeepsTo, FitStays, PortsStay, TextStays

(* x86emu_new(): the ports it starts with *)
LEMMA NewPorts ==
  ASSUME NEW level \in BOOLEAN
  PROVE  LET io == IF IoPermOf = {} THEN NoPorts
                   ELSE SetIoPerm(NoPorts, 0, Ports - 1, IoPermOf, level)
             t == [granted |-> [p \in Port |-> IoPermOf], in |-> Silence, out |-> Silence,
                   said |-> <<>>, sent |-> <<>>]
         IN  io \in Io /\ t \in Told /\ PortsTold(io, t, level)
<1> DEFINE t0 == [granted |-> [p \in Port |-> {}], in |-> Silence, out |-> Silence,
                  said |-> <<>>, sent |-> <<>>]
           t == [granted |-> [p \in Port |-> IoPermOf], in |-> Silence, out |-> Silence,
                 said |-> <<>>, sent |-> <<>>]
           tn == [t0 EXCEPT !.granted =
                    [p \in Port |-> IF p \in 0 .. (Ports - 1) THEN IoPermOf \cap IoPerm ELSE @[p]]]
           now == SetIoPerm(NoPorts, 0, Ports - 1, IoPermOf, level)
<1>1. IoPermOf \in SUBSET IoPerm
  BY ArgAssumption
<1>2. NoPorts \in Io
  BY DEF NoPorts, Io
<1>3. Silence \in [Port -> Nat] /\ <<>> \in Seq(Nat)
  BY EmptySeq DEF Silence
<1>4. t \in Told /\ t0 \in Told
  BY <1>1, <1>3 DEF Told
<1>5. PortsTold(NoPorts, t0, level)
  BY DEF PortsTold, NoPorts, Silence
<1>6. CASE IoPermOf = {}
  <2>1. t = t0
    BY <1>6
  <2> QED BY <1>2, <1>4, <1>5, <1>6, <2>1
<1>7. CASE IoPermOf # {}
  <2>1. tn = t
    <3>1. [p \in Port |-> IF p \in 0 .. (Ports - 1) THEN IoPermOf \cap IoPerm ELSE t0.granted[p]]
            = [p \in Port |-> IoPermOf]
      BY <1>1 DEF Port
    <3>2. tn = [t0 EXCEPT !.granted = [p \in Port |->
                  IF p \in 0 .. (Ports - 1) THEN IoPermOf \cap IoPerm ELSE t0.granted[p]]]
      OBVIOUS
    <3>3. \A f : [t0 EXCEPT !.granted = f] =
                  [granted |-> f, in |-> Silence, out |-> Silence, said |-> <<>>, sent |-> <<>>]
      OBVIOUS
    <3> QED BY <3>1, <3>2, <3>3
  <2>2. now \in Io /\ tn \in Told /\ PortsTold(now, tn, level)
    <3> HIDE DEF t0
    <3> QED BY <1>1, <1>2, <1>4, <1>5, SetIoPermTold, SMTT(60)
  <2> HIDE DEF now, tn, t
  <2>3. now \in Io /\ t \in Told /\ PortsTold(now, t, level)
    BY <2>1, <2>2
  <2> QED BY <1>7, <2>3 DEF now, t
<1> QED BY <1>6, <1>7

(* x86emu_new() finds two blocks. *)
LEMMA TwoRooms ==
  ASSUME Sound(emu, heap), NEW m \in Id, emu[m] = Gone, NEW c, c # Free
  PROVE  LET b  == New(heap)
             h1 == With(heap, b, c)
             d  == New(h1)
         IN  b \in Block /\ heap[b] = Free /\ d \in Block /\ d # b /\ heap[d] = Free
<1> DEFINE u == <<m, <<"own", "io">>>>
           w == <<m, <<"own", "msr">>>>
           U == {u} \cup {w}
           S == FreeIn(heap)
           b == New(heap)
           h1 == With(heap, b, c)
<1>0. heap \in [Block -> AnyKind]
  BY DEF Sound
<1>1. /\ U \in SUBSET (Id \X Slot) /\ \A x \in U : Unused(emu, heap, x)
  BY DEF Slot, OwnSlot, Unused
<1>2. IsFiniteSet(U) /\ Cardinality(U) = 2
  <2>1. IsFiniteSet({u}) /\ Cardinality({u}) = 1
    BY FS_Singleton
  <2>2. w \notin {u}
    OBVIOUS
  <2> HIDE DEF u, w
  <2>3. IsFiniteSet({u} \cup {w}) /\ Cardinality({u} \cup {w}) = 1 + 1
    BY <2>1, <2>2, FS_AddElement
  <2> QED BY <2>3
<1> HIDE DEF U
<1>3. IsFiniteSet(S) /\ Cardinality(S) \in Nat /\ 2 <= Cardinality(S)
  BY <1>1, <1>2, FreeRoom
<1>4. S # {}
  BY <1>3, FS_EmptySet
<1>5. b \in Block /\ heap[b] = Free
  BY <1>4, NewFree
<1>6. /\ \A x \in Block : x # b => h1[x] = heap[x]
      /\ h1[b] = c
  BY <1>0, <1>5 DEF With
<1>7. IsFiniteSet(S \ {b}) /\ Cardinality(S \ {b}) = Cardinality(S) - 1
  <2>1. b \in S
    BY <1>5 DEF FreeIn
  <2> QED BY <1>3, <2>1, FS_RemoveElement
<1>8. S \ {b} # {}
  <2>1. Cardinality(S \ {b}) # 0
    BY <1>3, <1>7, SMT
  <2> QED BY <2>1, FS_EmptySet
<1> HIDE DEF b, h1
<1>9. FreeIn(h1) # {}
  BY <1>5, <1>6, <1>8 DEF FreeIn
<1>10. New(h1) \in Block /\ h1[New(h1)] = Free
  BY <1>9, NewFree
<1>11. New(h1) # b
  BY <1>6, <1>10
<1> QED BY <1>5, <1>6, <1>10, <1>11 DEF b, h1

(* x86emu_new() *)
LEMMA CreateKeeps ==
  ASSUME Agree, NEW m \in Id, Create(m)
  PROVE  emu[m] = Gone /\ emu'[m] # Gone /\ KeepsTo(m) /\ FitStays(m)
<1> DEFINE io == IF IoPermOf = {} THEN NoPorts
                 ELSE SetIoPerm(NoPorts, 0, Ports - 1, IoPermOf, iopl)
           t == [granted |-> [p \in Port |-> IoPermOf], in |-> Silence, out |-> Silence,
                 said |-> <<>>, sent |-> <<>>]
           c  == IoBlock(io)
           b  == New(heap)
           h1 == With(heap, b, c)
           d  == New(h1)
           g  == With(h1, d, MsrBlock)
           n  == [is |-> "emu", dir |-> Nil, def_attr |-> MemPerm, io |-> b, msr |-> d,
                  buf |-> Nil, ptr |-> [in |-> Nil, used |-> 0], size |-> 0, flush |-> FALSE,
                  handler |-> "vm"]
<1>1. /\ emu[m] = Gone /\ emu \in [Id -> Emu \cup {Gone}] /\ heap \in [Block -> AnyKind]
      /\ Sound(emu, heap) /\ ToldOK /\ iopl \in BOOLEAN
  BY DEF Agree, IInv, Sound, Counts, Create, Live
<1>2. io \in Io /\ t \in Told /\ PortsTold(io, t, iopl)
  BY <1>1, NewPorts
<1>3. heap' = g /\ emu' = [emu EXCEPT ![m] = n] /\ told' = [told EXCEPT ![m] = t]
  BY DEF Create
<1> HIDE DEF io
<1>4. c \in IoKind /\ c.io = io /\ c # Free
  <2>1. c \in IoKind /\ c.io = io
    BY <1>2 DEF IoBlock, IoKind
  <2> QED BY <2>1, KindsApart
<1> HIDE DEF c
<1>5. b \in Block /\ heap[b] = Free /\ d \in Block /\ d # b /\ heap[d] = Free
  BY <1>1, <1>4, TwoRooms
<1>6. MsrBlock \in MsrKind
  BY LifeAssumption DEF MsrBlock, MsrKind, Value, Flags, MemFlag
<1> HIDE DEF d, b
<1>7. /\ g \in [Block -> AnyKind] /\ g[b] = c /\ g[d] = MsrBlock
      /\ \A x \in Block : x # b /\ x # d => g[x] = heap[x]
  BY <1>1, <1>4, <1>5, <1>6 DEF With, AnyKind
<1>8. /\ n \in Emu /\ n.io = b /\ n.msr = d /\ n.dir = Nil /\ n.buf = Nil /\ n.ptr.in = Nil
  BY <1>5, LifeAssumption DEF Emu
<1> HIDE DEF n, g, t
<1>9. n # Gone
  BY <1>8, KindsApart
<1>10. Has(g, n) = {b, d}
  BY <1>8, <1>9 DEF Has, PagesIn
<1>11. PointersOK(g, n)
  BY <1>4, <1>6, <1>7, <1>8 DEF PointersOK
<1>12. Has(heap, emu[m]) = {}
  BY <1>1 DEF Has
<1>13. LET en == [emu EXCEPT ![m] = n] IN Sound(en, g) /\ Others(emu, heap, en, g, m)
  <2>1. /\ \A x \in Has(g, n) : x \in Has(heap, emu[m]) \/ heap[x] = Free
        /\ \A x \in Block : x \notin Has(heap, emu[m]) /\ x \notin Has(g, n) => g[x] = heap[x]
        /\ \A x \in Block : x \in Has(heap, emu[m]) /\ x \notin Has(g, n) => g[x] = Free
    BY <1>5, <1>7, <1>10, <1>12
  <2>2. n \in Emu \cup {Gone}
    BY <1>8
  <2> QED BY <1>1, <1>7, <1>11, <2>1, <2>2, LocalStep
<1>14. Stays(m) /\ emu'[m] = n
  BY <1>1, <1>3, <1>13 DEF Stays
<1>15. t # Gone /\ t.said = <<>> /\ t.sent = <<>>
  <2>1. t.said = <<>> /\ t.sent = <<>>
    BY DEF t
  <2>2. DOMAIN t = {"granted", "in", "out", "said", "sent"} /\ DOMAIN Gone = {"is"}
    BY DEF t, Gone
  <2> QED BY <2>1, <2>2
<1>16. ToldStays(m) /\ told'[m] = t
  BY <1>1, <1>2, <1>3, <1>9, <1>14, <1>15 DEF ToldOK, ToldStays
<1>17. PortsStay(m)
  BY <1>2, <1>3, <1>4, <1>7, <1>8, <1>14, <1>16 DEF PortsStay
<1>18. LogIn(g, n) = NoLog
  BY <1>8 DEF LogIn
<1>19. TextStays(m)
  <2>1. <<>> \in Seq(Nat) /\ <<>> \o <<>> = <<>>
    BY EmptySeq, ConcatEmptySeq
  <2>2. EndsWith(<<>>, <<>>)
    BY <2>1, EndsWithNothing
  <2>3. TextTold(NoLog, <<>>, <<>>)
    BY <2>1, <2>2 DEF TextTold, NoLog
  <2> QED BY <1>3, <1>14, <1>15, <1>16, <1>18, <2>3 DEF TextStays
<1>20. FitStays(m)
  BY <1>8, <1>14 DEF FitStays, FitIn, FitsBut
<1> QED BY <1>1, <1>9, <1>14, <1>16, <1>17, <1>19, <1>20 DEF KeepsTo

-----------------------------------------------------------------------------
(* x86emu_clone(): the blocks of a machine are no more than the free ones  *)
(* when another machine is not there.                                      *)
LEMMA HasIsSmall ==
  ASSUME NEW h, NEW e \in Emu, PointersOK(h, e)
  PROVE  /\ IsFiniteSet(Has(h, e)) /\ Cardinality(Has(h, e)) \in Nat
         /\ Cardinality(Has(h, e)) <= Cardinality(Slot)
<1> DEFINE H == Has(h, e)
           W == {s \in Slot : Pointer(h, e, s) # Nil}
           f == [s \in W |-> Pointer(h, e, s)]
<1>1. \A b : b \in H <=> \E s \in Slot : b = Pointer(h, e, s) /\ b # Nil
  BY HasIsPointed
<1>2. f \in Surjection(W, H)
  <2>1. ASSUME NEW s \in W PROVE f[s] \in H
    BY <1>1
  <2>2. ASSUME NEW b \in H PROVE \E s \in W : f[s] = b
    BY <1>1
  <2>3. f \in [W -> H]
    BY <2>1
  <2> HIDE DEF f, W, H
  <2> QED BY <2>2, <2>3 DEF Surjection
<1>3. IsFiniteSet(W) /\ Cardinality(W) <= Cardinality(Slot)
  <2>1. W \in SUBSET Slot
    OBVIOUS
  <2> QED BY <2>1, SlotCount, FS_Subset
<1> HIDE DEF W, f, H
<1>4. IsFiniteSet(H) /\ Cardinality(H) <= Cardinality(W)
  BY <1>2, <1>3, FS_Surjection
<1>5. Cardinality(H) \in Nat /\ Cardinality(W) \in Nat
  BY <1>3, <1>4, FS_CardinalityType
<1>6. Cardinality(H) <= Cardinality(Slot)
  BY <1>3, <1>4, <1>5, SlotCount, SMT
<1> QED BY <1>4, <1>5, <1>6 DEF H

(* For a machine to be created there is room for all it may get. *)
LEMMA RoomForAll ==
  ASSUME NEW em, NEW h, Sound(em, h), NEW k \in Id, em[k] = Gone
  PROVE  /\ IsFiniteSet(FreeIn(h)) /\ Cardinality(FreeIn(h)) \in Nat
         /\ Cardinality(Slot) <= Cardinality(FreeIn(h))
<1> DEFINE U == {k} \X Slot
<1>1. U \in SUBSET (Id \X Slot) /\ \A u \in U : Unused(em, h, u)
  BY DEF Unused
<1>2. Cardinality(U) = Cardinality(Slot)
  <2>1. IsFiniteSet({k}) /\ Cardinality({k}) = 1
    BY FS_Singleton
  <2>2. Cardinality(U) = Cardinality({k}) * Cardinality(Slot)
    BY <2>1, SlotCount, FS_Product
  <2> QED BY <2>1, <2>2, SlotCount, SMT
<1> HIDE DEF U
<1> QED BY <1>1, <1>2, FreeRoom

(* The i-th block goes to the i-th free one: two never to the same. *)
Into(cp, H, F) ==
  /\ cp \in [H -> F]
  /\ \A b, d \in H : b # d => cp[b] # cp[d]

(* The blocks of a copy are free ones, one for each copied. *)
LEMMA CopiedApart ==
  ASSUME NEW H \in SUBSET Int, IsFiniteSet(H), NEW F \in SUBSET Int, IsFiniteSet(F),
         Cardinality(H) \in Nat, Cardinality(F) \in Nat, Cardinality(H) <= Cardinality(F)
  PROVE  Into([b \in H |-> Nth(F, Rank(H, b))], H, F)
<1> DEFINE r(b) == Rank(H, b)
           cp == [b \in H |-> Nth(F, r(b))]
<1>1. ASSUME NEW b \in H PROVE Nth(F, r(b)) \in F /\ Rank(F, Nth(F, r(b))) = r(b)
  <2>1. r(b) \in 0 .. (Cardinality(H) - 1)
    BY RankBounded
  <2> HIDE DEF r
  <2>2. r(b) \in 0 .. (Cardinality(F) - 1)
    BY <2>1, SMT
  <2> QED BY <2>2, NthExists
<1>2. ASSUME NEW b \in H, NEW d \in H, b # d PROVE r(b) # r(d)
  <2>1. b < d \/ d < b
    BY <1>2, SMT
  <2>2. CASE b < d
    <3>1. r(b) \in Nat /\ r(d) \in Nat /\ r(b) < r(d)
      BY <2>2, RankGrows
    <3> QED BY <3>1, SMT
  <2>3. CASE d < b
    <3>1. r(b) \in Nat /\ r(d) \in Nat /\ r(d) < r(b)
      BY <2>3, RankGrows
    <3> QED BY <3>1, SMT
  <2> QED BY <2>1, <2>2, <2>3
<1> HIDE DEF r
<1>3. ASSUME NEW b \in H, NEW d \in H, b # d PROVE cp[b] # cp[d]
  <2>1. Nth(F, r(b)) # Nth(F, r(d))
    BY <1>1, <1>2, <1>3
  <2> QED BY <2>1
<1>4. cp \in [H -> F]
  BY <1>1
<1>5. Into(cp, H, F)
  <2> HIDE DEF cp
  <2> QED BY <1>3, <1>4 DEF Into
<1> QED BY <1>5 DEF r

(* x86emu_clone() copies to such blocks. *)
LEMMA CopiedInto ==
  ASSUME Sound(emu, heap), NEW m \in Id, NEW k \in Id, emu[m] # Gone, emu[k] = Gone
  PROVE  Into(Copied(emu[m]), Has(heap, emu[m]), FreeIn(heap))
<1> DEFINE e == emu[m]
           H == Has(heap, e)
           F == FreeIn(heap)
<1>1. e \in Emu /\ PointersOK(heap, e)
  BY DEF Sound
<1>2. H \subseteq Block /\ Owned(e) = H
  BY <1>1, HasBlocks, OwnedIsHas
<1>3. H \in SUBSET Int /\ F \in SUBSET Int
  BY <1>2, NilIsNoBlock DEF FreeIn
<1>4. IsFiniteSet(H) /\ Cardinality(H) \in Nat /\ Cardinality(H) <= Cardinality(Slot)
  BY <1>1, HasIsSmall
<1>5. IsFiniteSet(F) /\ Cardinality(F) \in Nat /\ Cardinality(Slot) <= Cardinality(F)
  BY RoomForAll
<1>6. Copied(e) = [b \in H |-> Nth(F, Rank(H, b))]
  BY <1>2 DEF Copied
<1> HIDE DEF e, H, F
<1>7. Cardinality(H) <= Cardinality(F)
  BY <1>4, <1>5, SlotCount, SMT
<1>8. Into([b \in H |-> Nth(F, Rank(H, b))], H, F)
  BY <1>3, <1>4, <1>5, <1>7, CopiedApart
<1> QED BY <1>6, <1>8 DEF e, H, F

(* Machine n in heap g is machine e of heap h, block c of which was copied *)
(* to block cp[c].                                                         *)
CopyOf(cp, h, e, g, n) ==
  /\ Into(cp, Has(h, e), FreeIn(h))
  /\ \A c \in Has(h, e) : g[cp[c]] = BlockMoved(cp, h[c])
  /\ \A b \in Block : (\A c \in Has(h, e) : cp[c] # b) => g[b] = h[b]
  /\ n.io = Moved(cp, e.io) /\ n.msr = Moved(cp, e.msr) /\ n.dir = Moved(cp, e.dir)
  /\ n.buf = Moved(cp, e.buf) /\ n.ptr.in = Moved(cp, e.ptr.in)
  /\ n \in Emu
  /\ n.def_attr = e.def_attr /\ n.ptr.used = e.ptr.used /\ n.size = e.size
  /\ n.flush = e.flush /\ n.handler = e.handler

(* x86emu_clone() makes such a copy. *)
LEMMA CloneCopies ==
  ASSUME Sound(emu, heap), NEW m \in Id, NEW k \in Id, Clone(m, k)
  PROVE  /\ emu[m] # Gone /\ emu[k] = Gone
         /\ \E cp, g, n : /\ CopyOf(cp, heap, emu[m], g, n)
                          /\ heap' = g /\ DOMAIN g = Block /\ emu' = [emu EXCEPT ![k] = n]
<1> DEFINE e  == emu[m]
           cp == Copied(e)
           H  == Has(heap, e)
           F  == FreeIn(heap)
           g  == [b \in Block |-> IF \E c \in DOMAIN cp : cp[c] = b
                    THEN BlockMoved(cp, heap[CHOOSE c \in DOMAIN cp : cp[c] = b]) ELSE heap[b]]
           n  == [e EXCEPT !.dir = Moved(cp, e.dir), !.io = Moved(cp, e.io),
                           !.msr = Moved(cp, e.msr), !.buf = Moved(cp, e.buf),
                           !.ptr.in = Moved(cp, e.ptr.in)]
<1>1. emu[m] # Gone /\ emu[k] = Gone
  BY DEF Clone, Live
<1>2. heap' = g /\ emu' = [emu EXCEPT ![k] = n]
  BY DEF Clone
<1>3. /\ e \in Emu /\ PointersOK(heap, e) /\ H \subseteq Block
      /\ e.io \in H /\ e.msr \in H /\ e.dir \in H \cup {Nil} /\ e.buf \in H \cup {Nil}
      /\ e.ptr.in = e.buf
  <2>1. e \in Emu /\ PointersOK(heap, e) /\ e # Gone
    BY <1>1 DEF Sound
  <2>2. e.ptr.in = e.buf
    BY <2>1 DEF PointersOK
  <2>3. H \subseteq Block
    BY <2>1, HasBlocks
  <2>4. e.io \in H /\ e.msr \in H /\ e.dir \in H \cup {Nil} /\ e.buf \in H \cup {Nil}
    BY <2>1 DEF Has
  <2> QED BY <2>1, <2>2, <2>3, <2>4
<1>4. Into(cp, H, F)
  BY <1>1, CopiedInto
<1>5. DOMAIN cp = H /\ \A c \in H : cp[c] \in Block
  <2> HIDE DEF cp, H
  <2> QED BY <1>4 DEF Into, FreeIn
<1> HIDE DEF cp
<1>6. ASSUME NEW c \in H PROVE g[cp[c]] = BlockMoved(cp, heap[c])
  <2> DEFINE b == cp[c]
             x == CHOOSE y \in DOMAIN cp : cp[y] = b
  <2>1. \E y \in DOMAIN cp : cp[y] = b
    BY <1>5
  <2>2. x \in H /\ cp[x] = b
    BY <1>5, <2>1
  <2>3. x = c
    BY <1>4, <2>2 DEF Into
  <2>4. b \in Block
    BY <1>5
  <2>5. g[b] = BlockMoved(cp, heap[x])
    <3> HIDE DEF b
    <3> QED BY <2>1, <2>4
  <2> HIDE DEF x
  <2> QED BY <2>3, <2>5
<1>7. ASSUME NEW b \in Block, \A c \in H : cp[c] # b PROVE g[b] = heap[b]
  BY <1>5, <1>7
<1>8. /\ Moved(cp, e.io) \in Block /\ Moved(cp, e.msr) \in Block
      /\ Moved(cp, e.dir) \in Block \cup {Nil} /\ Moved(cp, e.buf) \in Block \cup {Nil}
      /\ Moved(cp, e.ptr.in) \in Block \cup {Nil}
  <2>1. Nil \notin H
    BY <1>3, NilIsNoBlock
  <2> QED BY <1>3, <1>5, <2>1 DEF Moved
<1>9. /\ n \in Emu /\ n.io = Moved(cp, e.io) /\ n.msr = Moved(cp, e.msr)
      /\ n.dir = Moved(cp, e.dir) /\ n.buf = Moved(cp, e.buf)
      /\ n.ptr.in = Moved(cp, e.ptr.in) /\ n.def_attr = e.def_attr
      /\ n.ptr.used = e.ptr.used /\ n.size = e.size /\ n.flush = e.flush
      /\ n.handler = e.handler
  BY <1>3, <1>8 DEF Emu
<1>10. DOMAIN g = Block
  OBVIOUS
<1> HIDE DEF g, n
<1>11. CopyOf(cp, heap, e, g, n)
  BY <1>4, <1>6, <1>7, <1>9 DEF CopyOf
<1> QED BY <1>1, <1>2, <1>10, <1>11

(* The entries of the copied directory *)
EntryCopied(h, e, cp, g, x, y) ==
  /\ y \in Entry /\ EntryOK(g, y) /\ y.def = x.def
  /\ x.attr = Nil => y.attr = Nil /\ y.data = Nil
  /\ x.attr # Nil => /\ x.attr \in Has(h, e) /\ y.attr = cp[x.attr]
                     /\ g[y.attr] = h[x.attr] /\ y.attr \in Block
                     /\ x.data = x.attr => y.data = y.attr
                     /\ x.data # x.attr => y.data = x.data /\ x.data \in HostPage

LEMMA CopiedEntry ==
  ASSUME NEW h, NEW e \in Emu, PointersOK(h, e), NEW cp, NEW g, NEW n,
         CopyOf(cp, h, e, g, n), e.dir # Nil, NEW p \in Page
  PROVE  EntryCopied(h, e, cp, g, h[e.dir].page[p], EntryMoved(cp, h[e.dir].page[p]))
<1> DEFINE x == h[e.dir].page[p]
           y == EntryMoved(cp, x)
<1>1. /\ x \in Entry /\ EntryOK(h, x)
  BY HasBlocks DEF PointersOK, DirOK
<1>2. DOMAIN cp = Has(h, e) /\ \A c \in Has(h, e) : cp[c] \in Block
  BY DEF CopyOf, Into, FreeIn
<1>3. Nil \notin Has(h, e)
  BY HasBlocks, NilIsNoBlock
<1>4. /\ y.attr = Moved(cp, x.attr) /\ y.def = x.def
      /\ y.data = IF x.data = x.attr THEN Moved(cp, x.attr) ELSE x.data
      /\ Moved(cp, x.attr) \in Block \cup {Nil} => y \in Entry
  <2> HIDE DEF x
  <2> QED BY <1>1 DEF EntryMoved, Entry
<1>5. CASE x.attr = Nil
  <2>1. x.data = Nil
    BY <1>1, <1>5 DEF EntryOK
  <2>2. y.attr = Nil /\ y.data = Nil
    BY <1>2, <1>3, <1>4, <1>5, <2>1 DEF Moved
  <2>3. y \in Entry /\ EntryOK(g, y)
    BY <1>4, <2>2 DEF EntryOK
  <2> HIDE DEF x, y
  <2>4. EntryCopied(h, e, cp, g, x, y)
    BY <1>4, <1>5, <2>2, <2>3 DEF EntryCopied
  <2> QED BY <2>4 DEF x, y
<1>6. CASE x.attr # Nil
  <2>1. x.attr \in Has(h, e) /\ h[x.attr] \in PageKind /\ x.data \in {x.attr} \cup HostPage
    <3>1. e # Gone
      BY KindsApart
    <3> QED BY <1>1, <1>6, <3>1 DEF EntryOK, Has, PagesIn
  <2>2. y.attr = cp[x.attr] /\ y.attr \in Block
    BY <1>2, <1>4, <2>1 DEF Moved
  <2>3. g[y.attr] = h[x.attr]
    <3>1. g[y.attr] = BlockMoved(cp, h[x.attr])
      BY <2>1, <2>2 DEF CopyOf
    <3>2. h[x.attr].is # "dir"
      BY <2>1, KindsApart
    <3> HIDE DEF x, y
    <3> QED BY <3>1, <3>2 DEF BlockMoved
  <2>4. /\ x.data = x.attr => y.data = y.attr
        /\ x.data # x.attr => y.data = x.data /\ x.data \in HostPage
    BY <1>4, <2>1
  <2>5. y \in Entry
    BY <1>4, <2>2
  <2>6. EntryOK(g, y)
    <3>1. y.attr # Nil
      BY <2>2, NilIsNoBlock
    <3> HIDE DEF x, y
    <3> QED BY <2>1, <2>3, <2>4, <3>1 DEF EntryOK
  <2> HIDE DEF x, y
  <2>7. EntryCopied(h, e, cp, g, x, y)
    BY <1>4, <1>6, <2>1, <2>2, <2>3, <2>4, <2>5, <2>6 DEF EntryCopied
  <2> QED BY <2>7 DEF x, y
<1> QED BY <1>5, <1>6

(* Where a pointer of a copy leads to *)
LEMMA CopiedBlocks ==
  ASSUME NEW h, NEW e \in Emu, PointersOK(h, e), NEW cp, NEW g, NEW n,
         CopyOf(cp, h, e, g, n)
  PROVE  /\ n.io = cp[e.io] /\ n.msr = cp[e.msr] /\ g[n.io] = h[e.io] /\ g[n.msr] = h[e.msr]
         /\ e.buf = Nil <=> n.buf = Nil
         /\ e.buf # Nil => n.buf = cp[e.buf] /\ g[n.buf] = h[e.buf]
         /\ n.ptr.in = n.buf
         /\ e.dir = Nil <=> n.dir = Nil
         /\ e.dir # Nil => /\ n.dir = cp[e.dir] /\ g[n.dir] \in DirKind
                           /\ \A p \in Page : g[n.dir].page[p] = EntryMoved(cp, h[e.dir].page[p])
<1> DEFINE H == Has(h, e)
<1>1. /\ e.io \in H /\ e.msr \in H /\ (e.buf # Nil => e.buf \in H) /\ (e.dir # Nil => e.dir \in H)
      /\ Nil \notin H
  <2>1. Nil \notin H
    BY HasBlocks, NilIsNoBlock
  <2> QED BY <2>1, KindsApart DEF Has
<1>2. DOMAIN cp = H /\ \A c \in H : cp[c] \in Block /\ cp[c] # Nil
  BY NilIsNoBlock DEF CopyOf, Into, FreeIn
<1>3. /\ h[e.io] \in IoKind /\ h[e.msr] \in MsrKind /\ e.ptr.in = e.buf
      /\ e.buf # Nil => h[e.buf] \in LogKind
      /\ e.dir # Nil => h[e.dir] \in DirKind
  BY DEF PointersOK, DirOK
<1>4. /\ n.io = Moved(cp, e.io) /\ n.msr = Moved(cp, e.msr) /\ n.dir = Moved(cp, e.dir)
      /\ n.buf = Moved(cp, e.buf) /\ n.ptr.in = Moved(cp, e.ptr.in)
      /\ \A c \in H : g[cp[c]] = BlockMoved(cp, h[c])
  BY DEF CopyOf
<1> HIDE DEF H
<1>5. /\ n.io = cp[e.io] /\ n.msr = cp[e.msr] /\ n.ptr.in = n.buf
      /\ n.buf = IF e.buf = Nil THEN Nil ELSE cp[e.buf]
      /\ n.dir = IF e.dir = Nil THEN Nil ELSE cp[e.dir]
  BY <1>1, <1>2, <1>3, <1>4 DEF Moved
<1>6. ASSUME NEW c \in H, h[c].is # "dir" PROVE g[cp[c]] = h[c]
  <2>1. BlockMoved(cp, h[c]) = h[c]
    BY <1>6 DEF BlockMoved
  <2> QED BY <1>4, <2>1
<1>7. g[n.io] = h[e.io] /\ g[n.msr] = h[e.msr]
  BY <1>1, <1>3, <1>5, <1>6, KindsApart
<1>8. e.buf # Nil => g[n.buf] = h[e.buf]
  BY <1>1, <1>3, <1>5, <1>6, KindsApart
<1>9. ASSUME e.dir # Nil
      PROVE  /\ g[n.dir] \in DirKind
             /\ \A p \in Page : g[n.dir].page[p] = EntryMoved(cp, h[e.dir].page[p])
  <2> DEFINE c == h[e.dir]
             f == [p \in Page |-> EntryMoved(cp, c.page[p])]
  <2>1. c \in DirKind /\ c.is = "dir"
    BY <1>3, <1>9, KindsApart
  <2>2. ASSUME NEW p \in Page PROVE EntryMoved(cp, c.page[p]) \in Entry
    BY <1>9, CopiedEntry DEF EntryCopied
  <2> HIDE DEF c
  <2>3. f \in [Page -> Entry] /\ \A p \in Page : f[p] = EntryMoved(cp, c.page[p])
    BY <2>2
  <2>4. BlockMoved(cp, c) = [c EXCEPT !.page = f]
    BY <2>1 DEF BlockMoved
  <2> HIDE DEF f
  <2>5. [c EXCEPT !.page = f] \in DirKind /\ [c EXCEPT !.page = f].page = f
    BY <2>1, <2>3 DEF DirKind
  <2>6. g[n.dir] = BlockMoved(cp, c)
    BY <1>1, <1>4, <1>5, <1>9 DEF c
  <2>7. g[n.dir] \in DirKind /\ g[n.dir].page = f
    BY <2>4, <2>5, <2>6
  <2> QED BY <2>3, <2>7 DEF c
<1> QED BY <1>1, <1>2, <1>5, <1>7, <1>8, <1>9

(* The copy is a sound machine and answers what the original does. *)
LEMMA CopySound ==
  ASSUME NEW h, NEW e \in Emu, PointersOK(h, e), NEW cp, NEW g, NEW n,
         CopyOf(cp, h, e, g, n)
  PROVE  PointersOK(g, n) /\ Has(g, n) = {cp[c] : c \in Has(h, e)}
<1>1. /\ n.io = cp[e.io] /\ n.msr = cp[e.msr] /\ g[n.io] = h[e.io] /\ g[n.msr] = h[e.msr]
      /\ e.buf = Nil <=> n.buf = Nil
      /\ e.buf # Nil => n.buf = cp[e.buf] /\ g[n.buf] = h[e.buf]
      /\ n.ptr.in = n.buf
      /\ e.dir = Nil <=> n.dir = Nil
      /\ e.dir # Nil => /\ n.dir = cp[e.dir] /\ g[n.dir] \in DirKind
                        /\ \A p \in Page : g[n.dir].page[p] = EntryMoved(cp, h[e.dir].page[p])
  BY CopiedBlocks
<1>2. /\ h[e.io] \in IoKind /\ h[e.msr] \in MsrKind
      /\ e.buf # Nil => h[e.buf] \in LogKind
      /\ e.dir # Nil => DirOK(h, e.dir)
  BY DEF PointersOK
<1>3. n \in Emu /\ n # Gone /\ e # Gone
  BY KindsApart DEF CopyOf
<1>4. ASSUME NEW p \in Page, e.dir # Nil
      PROVE  LET x == h[e.dir].page[p]
                 y == g[n.dir].page[p]
             IN  /\ EntryOK(g, y)
                 /\ x.attr = Nil => y.attr = Nil
                 /\ x.attr # Nil => /\ x.attr \in Has(h, e) /\ y.attr = cp[x.attr]
                                    /\ y.attr \in Block
  <2> DEFINE x == h[e.dir].page[p]
             y == g[n.dir].page[p]
  <2>1. EntryCopied(h, e, cp, g, x, EntryMoved(cp, x)) /\ y = EntryMoved(cp, x)
    BY <1>1, <1>4, CopiedEntry, Zenon
  <2> HIDE DEF x, y
  <2>2. EntryCopied(h, e, cp, g, x, y)
    BY <2>1, Zenon
  <2>3. /\ EntryOK(g, y)
        /\ x.attr = Nil => y.attr = Nil
        /\ x.attr # Nil => x.attr \in Has(h, e) /\ y.attr = cp[x.attr] /\ y.attr \in Block
    BY <2>2, Zenon DEF EntryCopied
  <2> QED BY <2>3, Zenon DEF x, y
<1>5. \A b, d \in Has(h, e) : b # d => cp[b] # cp[d]
  BY DEF CopyOf, Into
<1>6. ASSUME e.dir # Nil PROVE DirOK(g, n.dir)
  <2>1. ASSUME NEW p \in Page, NEW q \in Page, p # q, g[n.dir].page[p].attr # Nil
        PROVE  g[n.dir].page[p].attr # g[n.dir].page[q].attr
    <3>1. h[e.dir].page[p].attr # Nil
      BY <1>4, <1>6, <2>1
    <3>2. h[e.dir].page[p].attr # h[e.dir].page[q].attr
      BY <1>2, <1>6, <2>1, <3>1 DEF DirOK
    <3>3. CASE h[e.dir].page[q].attr = Nil
      BY <1>4, <1>6, <2>1, <3>3
    <3>4. CASE h[e.dir].page[q].attr # Nil
      BY <1>4, <1>5, <1>6, <3>1, <3>2, <3>4
    <3> QED BY <3>3, <3>4
  <2>2. g[n.dir] \in DirKind /\ \A p \in Page : EntryOK(g, g[n.dir].page[p])
    BY <1>1, <1>4, <1>6
  <2> QED BY <2>1, <2>2 DEF DirOK
<1>7. PointersOK(g, n)
  BY <1>1, <1>2, <1>3, <1>6 DEF PointersOK
<1>8. PagesIn(g, n.dir) = {cp[c] : c \in PagesIn(h, e.dir)}
  <2>1. CASE e.dir = Nil
    BY <1>1, <2>1 DEF PagesIn
  <2>2. CASE e.dir # Nil
    <3>0. n.dir # Nil
      BY <1>1, <2>2
    <3>1. ASSUME NEW b \in PagesIn(g, n.dir) PROVE b \in {cp[c] : c \in PagesIn(h, e.dir)}
      <4>1. PICK p \in Page : b = g[n.dir].page[p].attr /\ b # Nil
        BY <3>0, <3>1 DEF PagesIn
      <4>2. h[e.dir].page[p].attr # Nil /\ b = cp[h[e.dir].page[p].attr]
        BY <1>4, <2>2, <4>1
      <4>3. h[e.dir].page[p].attr \in PagesIn(h, e.dir)
        BY <2>2, <4>2 DEF PagesIn
      <4> QED BY <4>2, <4>3
    <3>2. ASSUME NEW c \in PagesIn(h, e.dir) PROVE cp[c] \in PagesIn(g, n.dir)
      <4>1. PICK p \in Page : c = h[e.dir].page[p].attr /\ c # Nil
        BY <2>2, <3>2 DEF PagesIn
      <4>2. g[n.dir].page[p].attr = cp[c] /\ cp[c] \in Block
        BY <1>4, <2>2, <4>1
      <4>3. cp[c] # Nil
        BY <4>2, NilIsNoBlock
      <4> QED BY <3>0, <4>2, <4>3 DEF PagesIn
    <3> QED BY <3>1, <3>2
  <2> QED BY <2>1, <2>2
<1>9. /\ n.dir # Nil => n.dir = cp[e.dir]
      /\ n.buf # Nil => n.buf = cp[e.buf]
  BY <1>1
<1>10. Has(g, n) = {cp[c] : c \in Has(h, e)}
  <2>1. ASSUME NEW b \in Has(g, n) PROVE \E c \in Has(h, e) : b = cp[c]
    <3>1. b \in {n.io, n.msr} \cup ({n.dir, n.buf} \ {Nil}) \cup PagesIn(g, n.dir)
      BY <1>3, <2>1 DEF Has
    <3>2. /\ e.io \in Has(h, e) /\ e.msr \in Has(h, e) /\ (e.buf # Nil => e.buf \in Has(h, e))
          /\ (e.dir # Nil => e.dir \in Has(h, e)) /\ PagesIn(h, e.dir) \subseteq Has(h, e)
      BY <1>3 DEF Has
    <3> QED BY <1>1, <1>8, <3>1, <3>2
  <2>2. ASSUME NEW c \in Has(h, e) PROVE cp[c] \in Has(g, n)
    <3>1. c \in {e.io, e.msr} \cup ({e.dir, e.buf} \ {Nil}) \cup PagesIn(h, e.dir)
      BY <1>3 DEF Has
    <3>2. /\ n.io \in Has(g, n) /\ n.msr \in Has(g, n) /\ (n.buf # Nil => n.buf \in Has(g, n))
          /\ (n.dir # Nil => n.dir \in Has(g, n)) /\ PagesIn(g, n.dir) \subseteq Has(g, n)
      BY <1>3 DEF Has
    <3> QED BY <1>1, <1>8, <3>1, <3>2
  <2> QED BY <2>1, <2>2
<1> QED BY <1>7, <1>10

(* The log is copied with what is in it. *)
LEMMA CopyLog ==
  ASSUME NEW h, NEW e \in Emu, PointersOK(h, e), NEW cp, NEW g, NEW n,
         CopyOf(cp, h, e, g, n)
  PROVE  /\ e.buf = Nil => LogIn(h, e) = NoLog /\ LogIn(g, n) = NoLog
         /\ e.buf # Nil => /\ LogIn(g, n).size = LogIn(h, e).size
                           /\ LogIn(g, n).used = LogIn(h, e).used
                           /\ LogIn(g, n).flush = LogIn(h, e).flush
                           /\ LogIn(g, n).text = LogIn(h, e).text
<1>1. /\ e.buf = Nil <=> n.buf = Nil
      /\ e.buf # Nil => g[n.buf] = h[e.buf]
  BY CopiedBlocks
<1>2. n.size = e.size /\ n.ptr.used = e.ptr.used /\ n.flush = e.flush
  BY DEF CopyOf
<1>3. CASE e.buf = Nil
  BY <1>1, <1>3 DEF LogIn
<1>4. CASE e.buf # Nil
  <2>1. LogIn(g, n) = [size |-> n.size, used |-> n.ptr.used, flush |-> n.flush,
                       text |-> g[n.buf].text]
    BY <1>1, <1>4 DEF LogIn
  <2>2. LogIn(h, e) = [size |-> e.size, used |-> e.ptr.used, flush |-> e.flush,
                       text |-> h[e.buf].text]
    BY <1>4 DEF LogIn
  <2>3. g[n.buf].text = h[e.buf].text
    BY <1>1, <1>4
  <2> QED BY <1>2, <1>4, <2>1, <2>2, <2>3
<1> QED BY <1>3, <1>4

(* The copy has blocks of its own, all others keep theirs. *)
LEMMA CloneStays ==
  ASSUME Sound(emu, heap), NEW m \in Id, NEW k \in Id, emu[m] # Gone, emu[k] = Gone,
         NEW cp, NEW g, NEW n, CopyOf(cp, heap, emu[m], g, n), DOMAIN g = Block,
         g = [b \in Block |-> g[b]]
  PROVE  LET en == [emu EXCEPT ![k] = n]
         IN  Sound(en, g) /\ Others(emu, heap, en, g, k)
<1> DEFINE e == emu[m]
           H == Has(heap, e)
<1>1. e \in Emu /\ PointersOK(heap, e) /\ heap \in [Block -> AnyKind]
  BY DEF Sound
<1>2. PointersOK(g, n) /\ Has(g, n) = {cp[c] : c \in H}
  BY <1>1, CopySound
<1>3. H \subseteq Block
  BY <1>1, HasBlocks
<1>4. \A c \in H : cp[c] \in Block /\ heap[cp[c]] = Free
  BY DEF CopyOf, Into, FreeIn
<1>5. /\ \A c \in H : g[cp[c]] = BlockMoved(cp, heap[c])
      /\ \A b \in Block : (\A c \in H : cp[c] # b) => g[b] = heap[b]
      /\ n \in Emu
  BY DEF CopyOf
<1>6. ASSUME NEW c \in H PROVE g[cp[c]] \in AnyKind
  <2>1. CASE heap[c].is = "dir"
    <3>1. heap[c] \in DirKind
      BY <1>1, <1>3, <2>1, KindsApart DEF AnyKind, FreeKind
    <3>2. c = e.dir /\ e.dir # Nil
      <4>1. e # Gone
        OBVIOUS
      <4>2. c \in {e.io, e.msr} \cup ({e.dir, e.buf} \ {Nil}) \cup PagesIn(heap, e.dir)
        BY <4>1 DEF Has
      <4>3. /\ heap[e.io] \in IoKind /\ heap[e.msr] \in MsrKind
            /\ e.buf # Nil => heap[e.buf] \in LogKind
        BY <1>1 DEF PointersOK
      <4>4. c \notin PagesIn(heap, e.dir)
        <5>1. SUFFICES ASSUME c \in PagesIn(heap, e.dir) PROVE FALSE
          OBVIOUS
        <5>2. e.dir # Nil
          BY <5>1 DEF PagesIn
        <5>3. PICK p \in Page : c = heap[e.dir].page[p].attr /\ c # Nil
          BY <5>1, <5>2 DEF PagesIn
        <5>4. EntryOK(heap, heap[e.dir].page[p])
          BY <1>1, <5>2 DEF PointersOK, DirOK
        <5>5. heap[c] \in PageKind
          BY <5>3, <5>4 DEF EntryOK
        <5> QED BY <3>1, <5>5, KindsApart
      <4> QED BY <2>1, <4>2, <4>3, <4>4, KindsApart
    <3>3. g[n.dir] \in DirKind /\ n.dir = cp[e.dir]
      BY <1>1, <3>2, CopiedBlocks
    <3> QED BY <3>2, <3>3 DEF AnyKind
  <2>2. CASE heap[c].is # "dir"
    <3>1. g[cp[c]] = heap[c]
      BY <1>5, <2>2 DEF BlockMoved
    <3> QED BY <1>1, <1>3, <3>1
  <2> QED BY <2>1, <2>2
<1>7. ASSUME NEW b \in Block PROVE g[b] \in AnyKind
  <2>1. CASE \E c \in H : cp[c] = b
    BY <1>6, <2>1
  <2>2. CASE \A c \in H : cp[c] # b
    BY <1>1, <1>5, <2>2
  <2> QED BY <2>1, <2>2
<1>8. g \in [Block -> AnyKind]
  BY <1>7
<1>9. Has(heap, emu[k]) = {}
  BY DEF Has
<1>10. /\ \A b \in Has(g, n) : b \in Has(heap, emu[k]) \/ heap[b] = Free
       /\ \A b \in Block : b \notin Has(heap, emu[k]) /\ b \notin Has(g, n) => g[b] = heap[b]
       /\ \A b \in Block : b \in Has(heap, emu[k]) /\ b \notin Has(g, n) => g[b] = Free
  BY <1>2, <1>4, <1>5, <1>9
<1>11. n \in Emu \cup {Gone}
  BY <1>5
<1> QED BY <1>2, <1>8, <1>10, <1>11, LocalStep

(* x86emu_clone() *)
LEMMA CloneKeeps ==
  ASSUME Agree, NEW m \in Id, NEW k \in Id, Clone(m, k)
  PROVE  /\ emu[m] # Gone /\ emu[k] = Gone /\ emu'[k] # Gone
         /\ KeepsTo(k) /\ FitStays(k)
<1>1. Sound(emu, heap) /\ ToldOK /\ PortsInv /\ TextInv /\ emu \in [Id -> Emu \cup {Gone}]
  BY DEF Agree, IInv, Sound
<1>2. emu[m] # Gone /\ emu[k] = Gone /\ told' = [told EXCEPT ![k] = told[m]]
  BY DEF Clone, Live
<1>3. PICK cp, g, n : /\ CopyOf(cp, heap, emu[m], g, n)
                      /\ heap' = g /\ DOMAIN g = Block /\ emu' = [emu EXCEPT ![k] = n]
  BY <1>1, CloneCopies
<1>4. g = [b \in Block |-> g[b]]
  <2>1. heap' = [b \in Block |-> heap'[b]]
    BY DEF Clone
  <2> QED BY <1>3, <2>1
<1>5. LET en == [emu EXCEPT ![k] = n] IN Sound(en, g) /\ Others(emu, heap, en, g, k)
  BY <1>1, <1>2, <1>3, <1>4, CloneStays
<1>6. Stays(k) /\ emu'[k] = n /\ n # Gone
  <2>1. n \in Emu
    BY <1>3 DEF CopyOf
  <2> QED BY <1>1, <1>3, <1>5, <2>1, KindsApart DEF Stays
<1>7. told[m] \in Told /\ told[m] # Gone /\ told'[k] = told[m]
  BY <1>1, <1>2 DEF ToldOK
<1>8. ToldStays(k)
  BY <1>1, <1>2, <1>6, <1>7 DEF ToldOK, ToldStays
<1>9. emu[m] \in Emu /\ PointersOK(heap, emu[m])
  BY <1>1, <1>2 DEF Sound
<1>10. g[n.io] = heap[emu[m].io] /\ (emu[m].buf = Nil <=> n.buf = Nil)
  BY <1>3, <1>9, CopiedBlocks
<1>11. PortsStay(k)
  <2>1. PortsTold(heap[emu[m].io].io, told[m], iopl)
    BY <1>1, <1>2 DEF PortsInv
  <2> QED BY <1>3, <1>6, <1>7, <1>10, <2>1 DEF PortsStay
<1>12. /\ emu[m].buf = Nil => LogIn(heap, emu[m]) = NoLog /\ LogIn(g, n) = NoLog
       /\ emu[m].buf # Nil => /\ LogIn(g, n).size = LogIn(heap, emu[m]).size
                              /\ LogIn(g, n).used = LogIn(heap, emu[m]).used
                              /\ LogIn(g, n).flush = LogIn(heap, emu[m]).flush
                              /\ LogIn(g, n).text = LogIn(heap, emu[m]).text
  BY <1>3, <1>9, CopyLog
<1>13. TextStays(k)
  <2>1. TextTold(LogIn(heap, emu[m]), told[m].said, told[m].sent)
    BY <1>1, <1>2 DEF TextInv
  <2>2. TextTold(LogIn(g, n), told[m].said, told[m].sent)
    BY <1>12, <2>1 DEF TextTold
  <2> QED BY <1>3, <1>6, <1>7, <2>2 DEF TextStays
<1>14. FitStays(k)
  <2>1. ASSUME FitInv PROVE FitIn(g, n)
    <3>1. FitIn(heap, emu[m])
      BY <1>2, <2>1 DEF FitInv
    <3> QED BY <1>10, <1>12, <3>1 DEF FitIn
  <2> QED BY <1>3, <1>6, <2>1 DEF FitStays, FitsBut
<1> QED BY <1>2, <1>6, <1>8, <1>11, <1>13, <1>14 DEF KeepsTo

-----------------------------------------------------------------------------
(* Every request: it is about one machine, and keeps what is said of it. *)
LEMMA RequestKeeps ==
  ASSUME Agree, NEW m \in Id, Memory(m) \/ InOut(m) \/ Logging(m) \/ Life(m)
  PROVE  \E x \in Id : /\ KeepsTo(x) /\ FitStays(x)
                       /\ x = m \/ emu[x] = Gone
<1>1. CASE Memory(m)
  BY <1>1, MemoryKeeps
<1>2. CASE InOut(m)
  <2>1. ASSUME NEW r \in RangeArg, NEW perm \in IoPermArg, SetPorts(m, r, perm)
        PROVE  KeepsTo(m) /\ FitStays(m)
    BY <2>1, SetPortsKeeps
  <2>2. ASSUME NEW a \in PortArg, NEW n \in Width, InPort(m, a, n)
        PROVE  KeepsTo(m) /\ FitStays(m)
    BY <2>2, InPortKeeps
  <2>3. ASSUME NEW a \in PortArg, NEW n \in Width, OutPort(m, a, n, OutArg[n])
        PROVE  KeepsTo(m) /\ FitStays(m)
    BY <2>3, OutPortKeeps
  <2> QED BY <1>2, <2>1, <2>2, <2>3 DEF InOut
<1>3. CASE Logging(m)
  <2>1. ASSUME NEW l \in LogArg, SetLog(m, l.size, l.flush)
        PROVE  KeepsTo(m) /\ FitStays(m)
    <3>1. l.size \in Nat /\ l.flush \in BOOLEAN
      BY ArgAssumption
    <3> QED BY <2>1, <3>1, SetLogKeeps
  <2>2. ASSUME NEW n \in SayArg, Say(m, n)
        PROVE  KeepsTo(m) /\ FitStays(m)
    BY <2>2, SayKeeps
  <2>3. ASSUME NEW w \in NoteArg, Note(m, w.guard, w.n)
        PROVE  KeepsTo(m) /\ FitStays(m)
    BY <2>3, NoteKeeps
  <2>4. ASSUME NEW flush \in BOOLEAN, ClearLog(m, flush)
        PROVE  KeepsTo(m) /\ FitStays(m)
    BY <2>4, ClearLogKeeps
  <2> QED BY <1>3, <2>1, <2>2, <2>3, <2>4 DEF Logging
<1>4. CASE Life(m)
  <2>1. CASE Create(m)
    BY <2>1, CreateKeeps
  <2>2. CASE Reset(m)
    BY <2>2, ResetKeeps
  <2>3. CASE Done(m)
    BY <2>3, DoneKeeps
  <2>4. ASSUME NEW k \in Id, Clone(m, k)
        PROVE  KeepsTo(k) /\ FitStays(k) /\ emu[k] = Gone
    BY <2>4, CloneKeeps
  <2>5. ASSUME NEW u \in Msr, NEW v \in ValueArg, WriteMsr(m, u, v)
        PROVE  KeepsTo(m) /\ FitStays(m)
    BY <2>5, MsrKeeps
  <2>6. ASSUME NEW u \in Msr, ReadMsr(m, u)
        PROVE  KeepsTo(m) /\ FitStays(m)
    BY <2>6, MsrKeeps
  <2>7. ASSUME NEW new \in {"vm", "own"}, SetHandler(m, new)
        PROVE  KeepsTo(m) /\ FitStays(m)
    BY <2>7, HandlerKeeps
  <2> QED BY <1>4, <2>1, <2>2, <2>3, <2>4, <2>5, <2>6, <2>7 DEF Life
<1> QED BY <1>1, <1>2, <1>3, <1>4

(* ... and counts. *)
LEMMA RequestCounts ==
  ASSUME Counts, NEW m \in Id, Memory(m) \/ InOut(m) \/ Logging(m) \/ Life(m)
  PROVE  Counts' /\ UNCHANGED iopl /\ calls' = calls + 1
<1>1. calls < MaxCalls /\ calls' = calls + 1 /\ UNCHANGED iopl
  BY DEF Memory, InOut, Logging, Life, WriteCell, SetPerm, SetPage, ClearPage, SetPorts, InPort,
         OutPort, SetLog, Say, Note, ClearLog, Create, Reset, Done, Clone, WriteMsr, ReadMsr,
         SetHandler, Asked
<1>2. calls' \in 0 .. MaxCalls
  <2>1. calls \in 0 .. MaxCalls /\ MaxCalls \in Nat
    BY ArgAssumption DEF Counts
  <2> QED BY <1>1, <2>1, SMT
<1>3. DOMAIN host' = HostPage
  <2>1. CASE \E p \in Page, v \in ValueArg : WriteCell(m, p, v)
    <3>1. PICK p \in Page, v \in ValueArg : WriteCell(m, p, v)
      BY <2>1
    <3>2. host' = host \/ \E d : host' = [host EXCEPT ![d] = v]
      BY <3>1 DEF WriteCell
    <3> QED BY <3>2 DEF Counts
  <2>2. CASE UNCHANGED host
    BY <2>2 DEF Counts
  <2>3. (\E p \in Page, v \in ValueArg : WriteCell(m, p, v)) \/ UNCHANGED host
    BY DEF Memory, InOut, Logging, Life, SetPerm, SetPage, ClearPage, SetPorts, InPort,
           OutPort, SetLog, Say, Note, ClearLog, Wrote, Create, Reset, Done, Clone, WriteMsr,
           ReadMsr, SetHandler
  <2> QED BY <2>1, <2>2, <2>3
<1> QED BY <1>1, <1>2, <1>3 DEF Counts

(* What holds of one machine, and of the others, holds of all. *)
LEMMA KeepsAll ==
  ASSUME Agree, Counts', UNCHANGED iopl, NEW x \in Id, KeepsTo(x)
  PROVE  Agree' /\ (FitInv /\ FitStays(x) => FitNear')
<1>1. /\ Sound(emu, heap) /\ ToldOK /\ PortsInv /\ TextInv
      /\ Sound(emu', heap') /\ Others(emu, heap, emu', heap', x)
      /\ ToldStays(x) /\ PortsStay(x) /\ TextStays(x)
  BY DEF Agree, IInv, KeepsTo, Stays
<1>2. ASSUME NEW m \in Id, m # x
      PROVE  emu'[m] = emu[m] /\ told'[m] = told[m]
  BY <1>1, <1>2 DEF Others, ToldStays
<1>3. ASSUME NEW m \in Id, m # x, emu[m] # Gone
      PROVE  /\ heap'[emu[m].io] = heap[emu[m].io]
             /\ LogIn(heap', emu[m]) = LogIn(heap, emu[m])
  <2>1. emu[m] \in Emu /\ PointersOK(heap, emu[m])
    BY <1>1, <1>3 DEF Sound
  <2>2. \A b \in Has(heap, emu[m]) : heap'[b] = heap[b]
    BY <1>1, <1>3 DEF Others
  <2>3. PICK g : g = heap'
    OBVIOUS
  <2>4. \A b \in Has(heap, emu[m]) : g[b] = heap[b]
    BY <2>2, <2>3
  <2>5. g[emu[m].io] = heap[emu[m].io] /\ LogIn(g, emu[m]) = LogIn(heap, emu[m])
    BY <2>1, <2>4, Frame
  <2> QED BY <2>3, <2>5
<1>4. ToldOK'
  BY <1>1, <1>2 DEF ToldOK, ToldStays
<1>5. PortsInv'
  <2>1. ASSUME NEW m \in Id, emu'[m] # Gone
        PROVE  PortsTold(heap'[emu'[m].io].io, told'[m], iopl')
    <3>1. CASE m = x
      BY <1>1, <2>1, <3>1 DEF PortsStay
    <3>2. CASE m # x
      BY <1>1, <1>2, <1>3, <2>1, <3>2 DEF PortsInv
    <3> QED BY <3>1, <3>2
  <2> QED BY <2>1 DEF PortsInv
<1>6. TextInv'
  <2>1. ASSUME NEW m \in Id, emu'[m] # Gone
        PROVE  TextTold(LogIn(heap', emu'[m]), told'[m].said, told'[m].sent)
    <3>1. CASE m = x
      BY <1>1, <2>1, <3>1 DEF TextStays
    <3>2. CASE m # x
      BY <1>1, <1>2, <1>3, <2>1, <3>2 DEF TextInv
    <3> QED BY <3>1, <3>2
  <2> QED BY <2>1 DEF TextInv
<1>7. ASSUME FitInv, FitStays(x) PROVE FitNear'
  <2>1. ASSUME NEW m \in Id, emu'[m] # Gone
        PROVE  FitsBut(heap, emu[m], m)'
    <3>1. CASE m = x
      BY <1>7, <2>1, <3>1 DEF FitStays
    <3>2. CASE m # x
      BY <1>2, <1>3, <1>7, <2>1, <3>2 DEF FitInv, FitIn, FitsBut
    <3> QED BY <3>1, <3>2
  <2> QED BY <2>1 DEF FitNear
<1> QED BY <1>1, <1>4, <1>5, <1>6, <1>7 DEF Agree, IInv

-----------------------------------------------------------------------------
(* Every text fits when a request is made. *)
LEMMA NothingOverrun == Agree /\ ~Overrun => FitInv
<1> SUFFICES ASSUME Agree, ~Overrun, NEW m \in Id, emu[m] # Gone, emu[m].buf # Nil
             PROVE  LogIn(heap, emu[m]).used + 1 <= LogIn(heap, emu[m]).size
  BY DEF FitInv, FitIn
<1>1. Sound(emu, heap) /\ m \in Live
  BY DEF Agree, IInv, Live
<1>2. emu[m] \in Emu /\ emu[m].ptr.in = emu[m].buf
  BY <1>1, KindsOf DEF Sound
<1>3. emu[m].ptr.used \in Nat /\ emu[m].size \in Nat
  BY <1>2 DEF Emu
<1>4. ~(emu[m].ptr.used >= emu[m].size)
  BY <1>1, <1>2 DEF Overrun
<1>5. LogIn(heap, emu[m]).used = emu[m].ptr.used /\ LogIn(heap, emu[m]).size = emu[m].size
  BY DEF LogIn
<1> QED BY <1>3, <1>4, <1>5, SMT

(* Before the first machine *)
LEMMA InitAgrees == Init => Agree /\ FitNear
<1> SUFFICES ASSUME Init PROVE Agree /\ FitNear
  OBVIOUS
<1>1. /\ emu = [m \in Id |-> Gone] /\ heap = [b \in Block |-> Free]
      /\ told = [m \in Id |-> Gone] /\ iopl \in Iopl /\ calls = 0 /\ host = HostInit
  BY DEF Init
<1>2. Sound(emu, heap)
  <2>1. emu \in [Id -> Emu \cup {Gone}] /\ heap \in [Block -> AnyKind]
    BY <1>1 DEF AnyKind, FreeKind
  <2>2. \A m \in Id : emu[m] = Gone /\ Has(heap, emu[m]) = {}
    BY <1>1 DEF Has
  <2> QED BY <1>1, <2>1, <2>2 DEF Sound
<1>3. ToldOK
  BY <1>1 DEF ToldOK
<1>4. Counts
  <2>1. 0 \in 0 .. MaxCalls
    BY ArgAssumption
  <2> QED BY <1>1, <2>1, ArgAssumption DEF Counts
<1>5. PortsInv /\ TextInv /\ FitNear
  BY <1>1 DEF PortsInv, TextInv, FitNear
<1> QED BY <1>2, <1>3, <1>4, <1>5 DEF Agree, IInv

(* Every request keeps all of it. *)
LEMMA StepAgrees == Agree /\ [Next]_vars => Agree'
<1> SUFFICES ASSUME Agree, [Next]_vars PROVE Agree'
  OBVIOUS
<1>1. CASE Next
  <2>1. PICK m \in Id : Memory(m) \/ InOut(m) \/ Logging(m) \/ Life(m)
    BY <1>1 DEF Next
  <2>2. Counts' /\ UNCHANGED iopl
    BY <2>1, RequestCounts DEF Agree, IInv
  <2>3. PICK x \in Id : KeepsTo(x)
    BY <2>1, RequestKeeps
  <2> QED BY <2>2, <2>3, KeepsAll
<1>2. CASE UNCHANGED vars
  BY <1>2 DEF vars, Agree, IInv, Counts, ToldOK, PortsInv, TextInv
<1> QED BY <1>1, <1>2

(* The inductive invariant *)
LEMMA AlwaysAgrees == Spec => []Agree
<1> QED BY InitAgrees, StepAgrees, PTL DEF Spec

(* Every block and every machine keeps to its type, whatever is asked.     *)
THEOREM LifeTypes == Spec => []TypeOK
<1>1. Agree => TypeOK
  <2> SUFFICES ASSUME Agree PROVE TypeOK
    OBVIOUS
  <2>1. Sound(emu, heap) /\ ToldOK /\ Counts
    BY DEF Agree, IInv
  <2>2. \A m \in Id : emu[m] = Gone \/ emu[m] \in Emu
    BY <2>1 DEF Sound
  <2>3. ASSUME NEW b \in Block PROVE Contents(heap[b])
    <3>1. heap[b] \in AnyKind
      BY <2>1 DEF Sound
    <3>2. CASE heap[b] = Free
      BY <3>2 DEF Contents, Free
    <3>3. CASE heap[b] \in DirKind
      BY <3>3, KindsApart DEF Contents, DirKind
    <3>4. CASE heap[b] \in PageKind
      BY <3>4, KindsApart DEF Contents, PageKind
    <3>5. CASE heap[b] \in IoKind
      BY <3>5, KindsApart DEF Contents, IoKind
    <3>6. CASE heap[b] \in MsrKind
      BY <3>6, KindsApart DEF Contents, MsrKind
    <3>7. CASE heap[b] \in LogKind
      <4>1. heap[b].text \in Seq(Nat) /\ heap[b].is = "log"
        BY <3>7, KindsApart DEF LogKind
      <4>2. \A i \in DOMAIN heap[b].text : heap[b].text[i] \in Nat
        BY <4>1
      <4> QED BY <4>1, <4>2 DEF Contents
    <3> QED BY <3>1, <3>2, <3>3, <3>4, <3>5, <3>6, <3>7 DEF AnyKind, FreeKind
  <2>4. iopl \in BOOLEAN /\ calls \in 0 .. MaxCalls /\ DOMAIN host = HostPage
    BY <2>1 DEF Counts
  <2>5. DOMAIN told = Id
    BY <2>1 DEF ToldOK
  <2> QED BY <2>2, <2>3, <2>4, <2>5 DEF TypeOK
<1> QED BY <1>1, AlwaysAgrees, PTL

(* Every block that is allocated belongs to exactly one machine and is of  *)
(* the kind its pointer expects, for any number of machines, pages and     *)
(* requests: x86emu_clone(), x86emu_done(), x86emu_reset() and             *)
(* x86emu_set_log() lose, share and keep nothing.                          *)
THEOREM BlocksAreOwned == Spec => []HeapSound
<1>1. Agree => HeapSound
  <2> SUFFICES ASSUME Agree PROVE HeapSound
    OBVIOUS
  <2>1. Sound(emu, heap)
    BY DEF Agree, IInv
  <2>2. ASSUME NEW m \in Live
        PROVE  /\ m \in Id /\ emu[m] # Gone /\ emu[m] \in Emu /\ PointersOK(heap, emu[m])
               /\ Owned(emu[m]) = Has(heap, emu[m]) /\ Has(heap, emu[m]) \subseteq Block
               /\ \A b \in Has(heap, emu[m]) : heap[b] # Free
    <3>1. m \in Id /\ emu[m] # Gone /\ emu[m] \in Emu /\ PointersOK(heap, emu[m])
      BY <2>1 DEF Sound, Live
    <3> QED BY <3>1, OwnedIsHas, HasBlocks
  <2>3. ASSUME NEW m \in Live PROVE Whole(emu[m])
    <3> DEFINE e == emu[m]
    <3>1. /\ e \in Emu /\ PointersOK(heap, e)
      BY <2>2
    <3>2. /\ e.io \in Block /\ e.msr \in Block /\ e.buf \in Block \cup {Nil}
          /\ e.dir \in Block \cup {Nil}
          /\ \A p \in Page : e.dir # Nil => heap[e.dir].page[p] \in Entry
      BY <3>1, HasBlocks
    <3>3. Is(e.io, "io") /\ Is(e.msr, "msr") /\ (e.buf # Nil => Is(e.buf, "log"))
          /\ e.ptr.in = e.buf /\ (e.dir # Nil => Is(e.dir, "dir"))
      BY <3>1, <3>2, KindsApart DEF PointersOK, DirOK, Is
    <3>4. ASSUME e.dir # Nil, NEW p \in Page
          PROVE  LET entry == heap[e.dir].page[p]
                 IN  /\ entry.attr # Nil => Is(entry.attr, "page")
                     /\ entry.data \in {entry.attr} \cup (IF entry.attr = Nil THEN {} ELSE HostPage)
                     /\ \A q \in Page \ {p} :
                          entry.attr = heap[e.dir].page[q].attr => entry.attr = Nil
      <4> DEFINE entry == heap[e.dir].page[p]
      <4>1. DirOK(heap, e.dir)
        BY <3>1, <3>4 DEF PointersOK
      <4>2. entry \in Entry /\ EntryOK(heap, entry)
        BY <3>2, <3>4, <4>1 DEF DirOK
      <4>3. \A q \in Page \ {p} : entry.attr = heap[e.dir].page[q].attr => entry.attr = Nil
        BY <4>1 DEF DirOK
      <4> HIDE DEF entry
      <4>4. entry.attr # Nil => Is(entry.attr, "page")
        BY <4>2, KindsApart DEF EntryOK, Entry, Is
      <4>5. entry.data \in {entry.attr} \cup (IF entry.attr = Nil THEN {} ELSE HostPage)
        BY <4>2 DEF EntryOK
      <4> QED BY <4>3, <4>4, <4>5 DEF entry
    <3> QED BY <3>3, <3>4 DEF Whole
  <2>4. ASSUME NEW m \in Live, NEW k \in Live, m # k
        PROVE  Owned(emu[m]) \cap Owned(emu[k]) = {}
    BY <2>1, <2>2, <2>4 DEF Sound
  <2>5. {b \in Block : heap[b] # Free} = UNION {Owned(emu[m]) : m \in Live}
    <3>1. ASSUME NEW b \in Block, heap[b] # Free PROVE \E m \in Live : b \in Owned(emu[m])
      <4>1. PICK m \in Id : b \in Has(heap, emu[m])
        BY <2>1, <3>1 DEF Sound
      <4>2. m \in Live
        BY <4>1 DEF Has, Live
      <4> QED BY <2>2, <4>1, <4>2
    <3>2. ASSUME NEW m \in Live, NEW b \in Owned(emu[m]) PROVE b \in Block /\ heap[b] # Free
      BY <2>2
    <3> QED BY <3>1, <3>2
  <2> QED BY <2>3, <2>4, <2>5 DEF HeapSound
<1> QED BY <1>1, AlwaysAgrees, PTL

(* With a flush function every message is flushed or in the buffer, in     *)
(* order and once; without one the buffer ends with the latest; and no     *)
(* text goes beyond the end of the buffer by more than its writer failed   *)
(* to ask for: for any messages, checks and buffers.                       *)
THEOREM LogIsTold == Spec => []LogTells
<1>1. Init => Agree /\ FitNear
  BY InitAgrees
<1>2. Agree /\ FitNear /\ [Next]_vars => Agree' /\ FitNear'
  <2> SUFFICES ASSUME Agree, FitNear, [Next]_vars PROVE Agree' /\ FitNear'
    OBVIOUS
  <2>1. CASE Next
    <3>1. PICK m \in Id : Memory(m) \/ InOut(m) \/ Logging(m) \/ Life(m)
      BY <2>1 DEF Next
    <3>2. Counts' /\ UNCHANGED iopl
      BY <3>1, RequestCounts DEF Agree, IInv
    <3>3. PICK x \in Id : KeepsTo(x) /\ FitStays(x)
      BY <3>1, RequestKeeps
    <3>4. FitInv
      BY <2>1, NothingOverrun DEF Next
    <3> QED BY <3>2, <3>3, <3>4, KeepsAll
  <2>2. CASE UNCHANGED vars
    <3>1. Agree'
      BY <2>2, StepAgrees
    <3>2. FitNear'
      BY <2>2 DEF vars, FitNear, FitsBut, JustBeyond
    <3> QED BY <3>1, <3>2
  <2> QED BY <2>1, <2>2
<1>3. Agree /\ FitNear => LogTells
  <2> SUFFICES ASSUME Agree, FitNear, NEW m \in Live
               PROVE  LET log == LogOf(m)
                      IN  /\ log.flush => told[m].said = told[m].sent \o log.text
                          /\ EndsWith(told[m].said, log.text)
                          /\ log.used + 1 <= log.size \/ log = NoLog \/ JustBeyond(m, log)
    BY DEF LogTells
  <2>1. m \in Id /\ emu[m] # Gone /\ Sound(emu, heap) /\ TextInv
    BY DEF Live, Agree, IInv
  <2>2. emu[m].ptr.in = emu[m].buf
    BY <2>1, KindsOf
  <2>3. LogOf(m) = LogIn(heap, emu[m])
    BY <2>2 DEF LogOf, LogIn
  <2>4. TextTold(LogOf(m), told[m].said, told[m].sent)
    BY <2>1, <2>3 DEF TextInv
  <2>5. \/ LogOf(m).used + 1 <= LogOf(m).size \/ LogOf(m) = NoLog
        \/ JustBeyond(m, LogOf(m))
    BY <2>1, <2>3 DEF FitNear, FitsBut, FitIn, LogIn
  <2> QED BY <2>4, <2>5 DEF TextTold
<1> QED BY <1>1, <1>2, <1>3, PTL DEF Spec

-----------------------------------------------------------------------------
(* The last access: its answer, what is marked, what was granted *)
HitOK(hit, span, dir, granted, level) ==
  hit = span \cap {p \in Port : dir \in granted[p] /\ (level \/ ~WithIopl)}

Answered(what, ans, map, granted, level) ==
  LET dir  == IF what = "in" THEN "R" ELSE "W"
      span == SpanOf(ans.at, Len(ans.val))
  IN  /\ HitOK(ans.hit, span, dir, granted, level)
      /\ \A p \in span \ ans.hit :
           /\ "accINVALID" \in map[p]
           /\ what = "in" => ans.val[Ith(ans.at, p) + 1] = Ff

ReqInv ==
  req.what \in {"in", "out"} =>
    Answered(req.what, req.answer, IoOf(req.of).map, told[req.of].granted, iopl)

(* The ports of a span that are granted *)
LEMMA HitIsGranted ==
  ASSUME NEW io, NEW level \in BOOLEAN, NEW t, PortsTold(io, t, level),
         NEW a \in Port, NEW n \in Width, NEW dir \in IoPerm
  PROVE  HitOK(Reached(io, a, n, dir), SpanOf(a, n), dir, t.granted, level)
<1>1. SpanOf(a, n) \subseteq Port
  BY SpanInPorts
<1>2. Reached(io, a, n, dir) = {p \in SpanOf(a, n) : Open(io, p, dir)}
  BY ReachedIsOpen
<1>3. ASSUME NEW p \in Port
      PROVE  Open(io, p, dir) <=> dir \in t.granted[p] /\ (level \/ ~WithIopl)
  BY OpenIsGranted
<1> HIDE DEF Open
<1> QED BY <1>1, <1>2, <1>3 DEF HitOK

(* What a request is called and whom it is for *)
LEMMA AskedIs ==
  ASSUME NEW what, NEW m, NEW answer, Asked(what, m, answer)
  PROVE  req'.what = what /\ req'.of = m /\ req'.answer = answer /\ calls' = calls + 1
BY DEF Asked

Called(m, names) == req'.of = m /\ req'.what \in names
Copies(m) == req'.what = "clone" => \E k \in Id : Clone(m, k) /\ req'.answer = k

(* ... by the group of requests it is in *)
LEMMA RequestNames ==
  ASSUME NEW m \in Id
  PROVE  /\ Memory(m) => Called(m, {"write", "perm", "map", "unmap"})
         /\ InOut(m) => Called(m, {"ports", "in", "out"})
         /\ Logging(m) => Called(m, {"set_log", "log", "note", "clear_log"})
         /\ Life(m) => /\ Called(m, {"new", "reset", "done", "clone", "wrmsr", "rdmsr", "handler"})
                       /\ Copies(m)
<1>1. ASSUME Memory(m)
      PROVE  Called(m, {"write", "perm", "map", "unmap"})
  <2>1. ASSUME NEW p \in Page, NEW v \in ValueArg, WriteCell(m, p, v)
        PROVE  Called(m, {"write", "perm", "map", "unmap"})
    <3> PICK answer : Asked("write", m, answer)
      BY <2>1 DEF WriteCell
    <3> QED BY AskedIs DEF Called
  <2>2. ASSUME NEW p \in Page, NEW perm \in PermArg, SetPerm(m, p, perm)
        PROVE  Called(m, {"write", "perm", "map", "unmap"})
    <3> PICK answer : Asked("perm", m, answer)
      BY <2>2 DEF SetPerm
    <3> QED BY AskedIs DEF Called
  <2>3. ASSUME NEW p \in Page, NEW hp \in HostPage, SetPage(m, p, hp)
        PROVE  Called(m, {"write", "perm", "map", "unmap"})
    <3> PICK answer : Asked("map", m, answer)
      BY <2>3 DEF SetPage
    <3> QED BY AskedIs DEF Called
  <2>4. ASSUME NEW p \in Page, ClearPage(m, p)
        PROVE  Called(m, {"write", "perm", "map", "unmap"})
    <3> PICK answer : Asked("unmap", m, answer)
      BY <2>4 DEF ClearPage
    <3> QED BY AskedIs DEF Called
  <2> QED BY <1>1, <2>1, <2>2, <2>3, <2>4 DEF Memory
<1>2. ASSUME InOut(m)
      PROVE  Called(m, {"ports", "in", "out"})
  <2>1. ASSUME NEW r \in RangeArg, NEW perm \in IoPermArg, SetPorts(m, r, perm)
        PROVE  Called(m, {"ports", "in", "out"})
    <3> PICK answer : Asked("ports", m, answer)
      BY <2>1 DEF SetPorts
    <3> QED BY AskedIs DEF Called
  <2>2. ASSUME NEW a \in PortArg, NEW n \in Width, InPort(m, a, n)
        PROVE  Called(m, {"ports", "in", "out"})
    <3> PICK answer : Asked("in", m, answer)
      BY <2>2 DEF InPort
    <3> QED BY AskedIs DEF Called
  <2>3. ASSUME NEW a \in PortArg, NEW n \in Width, OutPort(m, a, n, OutArg[n])
        PROVE  Called(m, {"ports", "in", "out"})
    <3> PICK answer : Asked("out", m, answer)
      BY <2>3 DEF OutPort
    <3> QED BY AskedIs DEF Called
  <2> QED BY <1>2, <2>1, <2>2, <2>3 DEF InOut
<1>3. ASSUME Logging(m)
      PROVE  Called(m, {"set_log", "log", "note", "clear_log"})
  <2>1. ASSUME NEW l \in LogArg, SetLog(m, l.size, l.flush)
        PROVE  Called(m, {"set_log", "log", "note", "clear_log"})
    <3> PICK answer : Asked("set_log", m, answer)
      BY <2>1 DEF SetLog
    <3> QED BY AskedIs DEF Called
  <2>2. ASSUME NEW n \in SayArg, Say(m, n)
        PROVE  Called(m, {"set_log", "log", "note", "clear_log"})
    <3> PICK answer : Asked("log", m, answer)
      BY <2>2 DEF Say
    <3> QED BY AskedIs DEF Called
  <2>3. ASSUME NEW w \in NoteArg, Note(m, w.guard, w.n)
        PROVE  Called(m, {"set_log", "log", "note", "clear_log"})
    <3> PICK answer : Asked("note", m, answer)
      BY <2>3 DEF Note
    <3> QED BY AskedIs DEF Called
  <2>4. ASSUME NEW flush \in BOOLEAN, ClearLog(m, flush)
        PROVE  Called(m, {"set_log", "log", "note", "clear_log"})
    <3> PICK answer : Asked("clear_log", m, answer)
      BY <2>4 DEF ClearLog
    <3> QED BY AskedIs DEF Called
  <2> QED BY <1>3, <2>1, <2>2, <2>3, <2>4 DEF Logging
<1>4. ASSUME Life(m)
      PROVE  /\ Called(m, {"new", "reset", "done", "clone", "wrmsr", "rdmsr", "handler"})
              /\ Copies(m)
  <2> DEFINE Named == /\ Called(m, {"new", "reset", "done", "clone", "wrmsr", "rdmsr", "handler"})
                      /\ Copies(m)
  <2>1. ASSUME Create(m) PROVE Named
    <3> PICK answer : Asked("new", m, answer)
      BY <2>1 DEF Create
    <3> QED BY AskedIs DEF Called, Copies
  <2>2. ASSUME Reset(m) PROVE Named
    <3> PICK answer : Asked("reset", m, answer)
      BY <2>2 DEF Reset
    <3> QED BY AskedIs DEF Called, Copies
  <2>3. ASSUME Done(m) PROVE Named
    <3> PICK answer : Asked("done", m, answer)
      BY <2>3 DEF Done
    <3> QED BY AskedIs DEF Called, Copies
  <2>4. ASSUME NEW k \in Id, Clone(m, k) PROVE Named
    <3>1. Asked("clone", m, k)
      BY <2>4 DEF Clone
    <3> QED BY <2>4, <3>1, AskedIs DEF Called, Copies
  <2>5. ASSUME NEW u \in Msr, NEW v \in ValueArg, WriteMsr(m, u, v) PROVE Named
    <3> PICK answer : Asked("wrmsr", m, answer)
      BY <2>5 DEF WriteMsr
    <3> QED BY AskedIs DEF Called, Copies
  <2>6. ASSUME NEW u \in Msr, ReadMsr(m, u) PROVE Named
    <3> PICK answer : Asked("rdmsr", m, answer)
      BY <2>6 DEF ReadMsr
    <3> QED BY AskedIs DEF Called, Copies
  <2>7. ASSUME NEW new \in {"vm", "own"}, SetHandler(m, new) PROVE Named
    <3> PICK answer : Asked("handler", m, answer)
      BY <2>7 DEF SetHandler
    <3> QED BY AskedIs DEF Called, Copies
  <2> QED BY <1>4, <2>1, <2>2, <2>3, <2>4, <2>5, <2>6, <2>7 DEF Life
<1> QED BY <1>1, <1>2, <1>3, <1>4

(* The answer to a read from ports *)
LEMMA InIsAnswered ==
  ASSUME Agree, NEW m \in Id, NEW a \in PortArg, NEW n \in Width, InPort(m, a, n)
  PROVE  ReqInv'
<1> DEFINE io  == IoOf(m)
           hit == Reached(io, a, n, "R")
           val == InValue(io, a, n)
           ans == [at |-> a, val |-> val, hit |-> hit]
<1>1. /\ emu[m] # Gone /\ emu'[m] = emu[m] /\ heap'[emu[m].io].io = In(io, a, n)
      /\ told'[m].granted = told[m].granted
      /\ \A p \in Port : p \in SpanOf(a, n) \ hit => "accINVALID" \in heap'[emu[m].io].io.map[p]
  BY InPortKeeps
<1>2. req' = [what |-> "in", of |-> m, answer |-> ans] /\ iopl' = iopl
  BY DEF InPort, Asked
<1>3. a \in Port /\ Len(val) = n /\ SpanOf(a, n) \subseteq Port
  BY ArgAssumption, ValueLengths, SpanInPorts
<1>4. PortsTold(io, told[m], iopl) /\ iopl \in BOOLEAN
  BY <1>1 DEF Agree, IInv, Counts, PortsInv, IoOf
<1>5. HitOK(hit, SpanOf(a, n), "R", told[m].granted, iopl)
  <2>1. "R" \in IoPerm
    BY DEF IoPerm
  <2> HIDE DEF io
  <2> QED BY <1>3, <1>4, <2>1, HitIsGranted
<1>6. ASSUME NEW p \in SpanOf(a, n) \ hit PROVE val[Ith(a, p) + 1] = Ff
  BY <1>3, DeniedReadsFf
<1> HIDE DEF hit, val, io
<1>7. Answered("in", ans, heap'[emu[m].io].io.map, told'[m].granted, iopl)
  BY <1>1, <1>3, <1>5, <1>6 DEF Answered
<1>8. req'.what = "in" /\ req'.of = m /\ req'.answer = ans
  BY <1>2
<1> HIDE DEF ans
<1>9. IoOf(m)' = heap'[emu[m].io].io
  BY <1>1 DEF IoOf
<1>10. PICK r : r = req'
  OBVIOUS
<1>11. Answered(req'.what, req'.answer, IoOf(m)'.map, told'[m].granted, iopl')
  BY <1>2, <1>7, <1>8, <1>9
<1>12. IoOf(req.of)' = IoOf(m)' /\ told'[req'.of] = told'[m]
  BY <1>8 DEF IoOf
<1> QED BY <1>11, <1>12 DEF ReqInv

(* The answer to a write to ports *)
LEMMA OutIsAnswered ==
  ASSUME Agree, NEW m \in Id, NEW a \in PortArg, NEW n \in Width, OutPort(m, a, n, OutArg[n])
  PROVE  ReqInv'
<1> DEFINE io  == IoOf(m)
           hit == Reached(io, a, n, "W")
           val == OutArg[n]
           ans == [at |-> a, val |-> val, hit |-> hit, bytes |-> OutBytes(io, a, n, val)]
<1>1. /\ emu[m] # Gone /\ emu'[m] = emu[m] /\ heap'[emu[m].io].io = Out(io, a, n)
      /\ told'[m].granted = told[m].granted
      /\ \A p \in Port : p \in SpanOf(a, n) \ hit => "accINVALID" \in heap'[emu[m].io].io.map[p]
  BY OutPortKeeps
<1>2. req' = [what |-> "out", of |-> m, answer |-> ans] /\ iopl' = iopl
  BY DEF OutPort, Asked
<1>3. a \in Port /\ Len(val) = n /\ SpanOf(a, n) \subseteq Port
  BY ArgAssumption, ValueLengths, SpanInPorts
<1>4. PortsTold(io, told[m], iopl) /\ iopl \in BOOLEAN
  BY <1>1 DEF Agree, IInv, Counts, PortsInv, IoOf
<1>5. HitOK(hit, SpanOf(a, n), "W", told[m].granted, iopl)
  <2>1. "W" \in IoPerm
    BY DEF IoPerm
  <2> HIDE DEF io
  <2> QED BY <1>3, <1>4, <2>1, HitIsGranted
<1> HIDE DEF hit, val, io
<1>7. Answered("out", ans, heap'[emu[m].io].io.map, told'[m].granted, iopl)
  BY <1>1, <1>3, <1>5 DEF Answered
<1>8. req'.what = "out" /\ req'.of = m /\ req'.answer = ans
  BY <1>2
<1> HIDE DEF ans
<1>9. IoOf(m)' = heap'[emu[m].io].io
  BY <1>1 DEF IoOf
<1>11. Answered(req'.what, req'.answer, IoOf(m)'.map, told'[m].granted, iopl')
  BY <1>2, <1>7, <1>8, <1>9
<1>12. IoOf(req.of)' = IoOf(m)' /\ told'[req'.of] = told'[m]
  BY <1>8 DEF IoOf
<1> QED BY <1>11, <1>12 DEF ReqInv

(* The ports an access reaches are those x86emu_set_io_perm() granted, and *)
(* only if the process may; what is denied is marked and reads as ff; and  *)
(* each access is counted once: for any ports, widths and addresses, the   *)
(* ones that wrap around the last port included.                           *)
THEOREM PortsAreKept == Spec => []PortsKept
<1>1. Init => ReqInv
  BY DEF Init, ReqInv
<1>2. Agree /\ ReqInv /\ [Next]_vars => ReqInv'
  <2> SUFFICES ASSUME Agree, ReqInv, [Next]_vars PROVE ReqInv'
    OBVIOUS
  <2>1. CASE Next
    <3>1. PICK m \in Id : Memory(m) \/ InOut(m) \/ Logging(m) \/ Life(m)
      BY <2>1 DEF Next
    <3>2. ASSUME NEW a \in PortArg, NEW n \in Width, InPort(m, a, n) PROVE ReqInv'
      BY <3>2, InIsAnswered
    <3>3. ASSUME NEW a \in PortArg, NEW n \in Width, OutPort(m, a, n, OutArg[n]) PROVE ReqInv'
      BY <3>3, OutIsAnswered
    <3>4. CASE InOut(m)
      <4>1. ASSUME NEW r \in RangeArg, NEW perm \in IoPermArg, SetPorts(m, r, perm) PROVE ReqInv'
        <5>1. req'.what = "ports"
          BY <4>1 DEF SetPorts, Asked
        <5> QED BY <5>1 DEF ReqInv
      <4> QED BY <3>2, <3>3, <3>4, <4>1 DEF InOut
    <3>5. CASE Memory(m) \/ Logging(m) \/ Life(m)
      <4>1. req'.what \notin {"in", "out"}
        BY <3>5, RequestNames DEF Called
      <4> QED BY <4>1 DEF ReqInv
    <3> QED BY <3>1, <3>4, <3>5
  <2>2. CASE UNCHANGED vars
    BY <2>2 DEF vars, ReqInv, IoOf
  <2> QED BY <2>1, <2>2
<1>3. Agree /\ ReqInv => PortsKept
  <2> SUFFICES ASSUME Agree, ReqInv PROVE PortsKept
    OBVIOUS
  <2>1. ASSUME NEW m \in Live
        PROVE  /\ IoOf(m).stats_i = told[m].in /\ IoOf(m).stats_o = told[m].out
               /\ \A p \in Port : IoOf(m).map[p] \cap IoPerm = told[m].granted[p]
    <3>1. PortsTold(IoOf(m), told[m], iopl)
      BY DEF Agree, PortsInv, Live, IoOf
    <3> QED BY <3>1 DEF PortsTold
  <2>2. ASSUME req.what \in {"in", "out"}
        PROVE  LET dir  == IF req.what = "in" THEN "R" ELSE "W"
                   span == SpanOf(req.answer.at, Len(req.answer.val))
               IN  /\ req.answer.hit = span \cap Granted(req.of, dir)
                   /\ \A p \in span \ req.answer.hit :
                        /\ "accINVALID" \in IoOf(req.of).map[p]
                        /\ req.what = "in" => req.answer.val[Ith(req.answer.at, p) + 1] = Ff
    <3>1. Answered(req.what, req.answer, IoOf(req.of).map, told[req.of].granted, iopl)
      BY <2>2 DEF ReqInv
    <3> QED BY <3>1 DEF Answered, HitOK, Granted
  <2> QED BY <2>1, <2>2 DEF PortsKept
<1> QED BY <1>1, <1>2, <1>3, AlwaysAgrees, PTL DEF Spec

-----------------------------------------------------------------------------
(* View() of a machine e in a heap h, without the variables *)
DataIn(h, x) ==
  CASE x.data \in HostPage -> <<"host", x.data>>
    [] x.data \in Block /\ h[x.data].is = "page" -> <<"own", h[x.data].data>>
    [] x.data = Nil -> <<"own", 0>>
    [] OTHER -> <<"nowhere">>

CellIn(h, x) ==
  [attr |-> IF x.attr = Nil THEN x.def ELSE h[x.attr].attr, def |-> x.def, data |-> DataIn(h, x)]

EntryIn(h, e, p) == (IF e.dir = Nil THEN [q \in Page |-> NoPage(e.def_attr)]
                     ELSE h[e.dir].page)[p]

ViewIn(h, e) ==
  [mem |-> [p \in Page |-> CellIn(h, EntryIn(h, e, p))], def |-> e.def_attr,
   io |-> h[e.io].io, msr |-> h[e.msr],
   log |-> IF e.ptr.in = Nil THEN NoLog
           ELSE [size |-> e.size, used |-> e.ptr.used, flush |-> e.flush,
                 text |-> h[e.ptr.in].text],
   handler |-> e.handler]

(* View() now *)
LEMMA ViewIs ==
  ASSUME NEW m
  PROVE  View(m) = ViewIn(heap, emu[m])
BY DEF View, Cell, Entries, LogOf, IoOf, Is, ViewIn, CellIn, EntryIn, DataIn

(* View() after a step *)
LEMMA ViewWillBe ==
  ASSUME NEW CONSTANT m
  PROVE  View(m)' = ViewIn(heap', emu'[m])
BY DEF View, Cell, Entries, LogOf, IoOf, Is, ViewIn, CellIn, EntryIn, DataIn

(* Where the bytes of a page are, by its pointers *)
LEMMA DataOfEntry ==
  ASSUME NEW h, NEW x \in Entry, EntryOK(h, x)
  PROVE  /\ x.attr = Nil => DataIn(h, x) = <<"own", 0>>
         /\ x.attr # Nil /\ x.data = x.attr => DataIn(h, x) = <<"own", h[x.attr].data>>
         /\ x.attr # Nil /\ x.data # x.attr => DataIn(h, x) = <<"host", x.data>>
<1>1. /\ Nil \notin HostPage /\ Nil \notin Block
      /\ \A b \in Block : b \notin HostPage
  BY NilIsNoBlock
<1>2. CASE x.attr = Nil
  <2>1. x.data = Nil
    BY <1>2 DEF EntryOK
  <2> QED BY <1>1, <1>2, <2>1 DEF DataIn
<1>3. CASE x.attr # Nil
  <2>1. /\ x.attr \in Block /\ h[x.attr] \in PageKind /\ x.data \in {x.attr} \cup HostPage
    BY <1>3 DEF EntryOK, Entry
  <2>2. h[x.attr].is = "page"
    BY <2>1, KindsApart
  <2>3. CASE x.data = x.attr
    <3>1. x.data \notin HostPage /\ x.data \in Block /\ h[x.data].is = "page"
      BY <1>1, <2>1, <2>2, <2>3
    <3> QED BY <1>3, <2>3, <3>1 DEF DataIn
  <2>4. CASE x.data # x.attr
    <3>1. x.data \in HostPage /\ x.data \notin Block /\ x.data # Nil
      BY <1>1, <2>1, <2>4
    <3> QED BY <1>3, <2>4, <3>1 DEF DataIn
  <2> QED BY <2>3, <2>4
<1> QED BY <1>2, <1>3

(* Two entries that lead to the same bytes and attributes *)
SameEntry(h, x, g, y) ==
  /\ y.def = x.def
  /\ x.attr = Nil <=> y.attr = Nil
  /\ x.attr # Nil => /\ g[y.attr] = h[x.attr]
                     /\ x.data = x.attr => y.data = y.attr
                     /\ x.data # x.attr => y.data = x.data /\ y.data # y.attr

(* A page with such an entry looks the same. *)
LEMMA SameCell ==
  ASSUME NEW h, NEW x \in Entry, EntryOK(h, x), NEW g, NEW y \in Entry, EntryOK(g, y),
         SameEntry(h, x, g, y)
  PROVE  CellIn(g, y) = CellIn(h, x)
<1>1. DataIn(g, y) = DataIn(h, x)
  <2>1. CASE x.attr = Nil
    <3>1. y.attr = Nil
      BY <2>1 DEF SameEntry
    <3> QED BY <2>1, <3>1, DataOfEntry
  <2>2. CASE x.attr # Nil /\ x.data = x.attr
    <3>1. y.attr # Nil /\ y.data = y.attr /\ g[y.attr] = h[x.attr]
      BY <2>2 DEF SameEntry
    <3>2. DataIn(g, y) = <<"own", g[y.attr].data>> /\ DataIn(h, x) = <<"own", h[x.attr].data>>
      BY <2>2, <3>1, DataOfEntry
    <3> QED BY <3>1, <3>2
  <2>3. CASE x.attr # Nil /\ x.data # x.attr
    <3>1. y.attr # Nil /\ y.data = x.data /\ y.data # y.attr
      BY <2>3 DEF SameEntry
    <3>2. DataIn(g, y) = <<"host", y.data>> /\ DataIn(h, x) = <<"host", x.data>>
      BY <2>3, <3>1, DataOfEntry
    <3> QED BY <3>1, <3>2
  <2> QED BY <2>1, <2>2, <2>3
<1>2. y.def = x.def /\ (IF y.attr = Nil THEN y.def ELSE g[y.attr].attr) =
                       (IF x.attr = Nil THEN x.def ELSE h[x.attr].attr)
  BY DEF SameEntry
<1> QED BY <1>1, <1>2 DEF CellIn

SameView(h, e, g, n) ==
  /\ \A p \in Page : CellIn(g, EntryIn(g, n, p)) = CellIn(h, EntryIn(h, e, p))
  /\ n.def_attr = e.def_attr /\ g[n.io] = h[e.io] /\ g[n.msr] = h[e.msr]
  /\ n.ptr.in = Nil <=> e.ptr.in = Nil
  /\ e.ptr.in # Nil => /\ g[n.ptr.in] = h[e.ptr.in]
                       /\ n.size = e.size /\ n.ptr.used = e.ptr.used /\ n.flush = e.flush
  /\ n.handler = e.handler

(* What is the same field by field is equal. *)
LEMMA SameViewIsEqual ==
  ASSUME NEW h, NEW e, NEW g, NEW n, SameView(h, e, g, n)
  PROVE  ViewIn(g, n) = ViewIn(h, e)
<1> DEFINE mem(x, z) == [p \in Page |-> CellIn(x, EntryIn(x, z, p))]
           log(x, z) == IF z.ptr.in = Nil THEN NoLog
                        ELSE [size |-> z.size, used |-> z.ptr.used, flush |-> z.flush,
                              text |-> x[z.ptr.in].text]
<1>1. mem(g, n) = mem(h, e)
  <2>1. \A p \in Page : CellIn(g, EntryIn(g, n, p)) = CellIn(h, EntryIn(h, e, p))
    BY DEF SameView
  <2> HIDE DEF CellIn, EntryIn
  <2> QED BY <2>1
<1>2. log(g, n) = log(h, e)
  BY DEF SameView
<1>3. /\ n.def_attr = e.def_attr /\ g[n.io] = h[e.io] /\ g[n.msr] = h[e.msr]
      /\ n.handler = e.handler
  BY DEF SameView
<1>4. /\ ViewIn(g, n) = [mem |-> mem(g, n), def |-> n.def_attr, io |-> g[n.io].io,
                         msr |-> g[n.msr], log |-> log(g, n), handler |-> n.handler]
      /\ ViewIn(h, e) = [mem |-> mem(h, e), def |-> e.def_attr, io |-> h[e.io].io,
                         msr |-> h[e.msr], log |-> log(h, e), handler |-> e.handler]
  BY DEF ViewIn
<1> HIDE DEF mem, log
<1> QED BY <1>1, <1>2, <1>3, <1>4

(* Which entry there is for a page *)
LEMMA EntryIs ==
  ASSUME NEW h, NEW e \in Emu, PointersOK(h, e), NEW p \in Page
  PROVE  /\ EntryIn(h, e, p) \in Entry /\ EntryOK(h, EntryIn(h, e, p))
         /\ e.dir = Nil => EntryIn(h, e, p) = NoPage(e.def_attr)
         /\ e.dir # Nil => EntryIn(h, e, p) = h[e.dir].page[p]
<1>1. CASE e.dir = Nil
  <2>1. EntryIn(h, e, p) = NoPage(e.def_attr)
    BY <1>1 DEF EntryIn
  <2>2. e.def_attr \in SUBSET MemFlag
    BY DEF Emu
  <2>3. NoPage(e.def_attr) \in Entry /\ EntryOK(h, NoPage(e.def_attr))
    BY <2>2 DEF NoPage, Entry, EntryOK
  <2> QED BY <1>1, <2>1, <2>3
<1>2. CASE e.dir # Nil
  <2>1. EntryIn(h, e, p) = h[e.dir].page[p]
    BY <1>2 DEF EntryIn
  <2>2. h[e.dir].page[p] \in Entry /\ EntryOK(h, h[e.dir].page[p])
    BY <1>2, HasBlocks DEF PointersOK, DirOK
  <2> QED BY <1>2, <2>1, <2>2
<1> QED BY <1>1, <1>2

(* A machine answers the same as long as nobody touches its blocks. *)
LEMMA ViewFrame ==
  ASSUME NEW h, NEW g, NEW e \in Emu, PointersOK(h, e),
         \A b \in Has(h, e) : g[b] = h[b]
  PROVE  ViewIn(g, e) = ViewIn(h, e)
<1>1. /\ PointersOK(g, e) /\ g[e.io] = h[e.io] /\ g[e.msr] = h[e.msr]
      /\ e.dir # Nil => g[e.dir] = h[e.dir]
      /\ \A p \in Page : e.dir # Nil /\ h[e.dir].page[p].attr # Nil =>
           g[h[e.dir].page[p].attr] = h[h[e.dir].page[p].attr]
  BY Frame
<1>2. ASSUME NEW p \in Page PROVE CellIn(g, EntryIn(g, e, p)) = CellIn(h, EntryIn(h, e, p))
  <2> DEFINE x == EntryIn(h, e, p)
             y == EntryIn(g, e, p)
  <2>1. x \in Entry /\ EntryOK(h, x) /\ y \in Entry /\ EntryOK(g, y)
    BY <1>1, EntryIs
  <2>2. y = x
    BY <1>1, EntryIs
  <2>3. x.attr # Nil => g[x.attr] = h[x.attr]
    <3>1. e.dir = Nil => x.attr = Nil
      <4>1. e.dir = Nil => x = NoPage(e.def_attr)
        BY EntryIs
      <4> QED BY <4>1 DEF NoPage
    <3>2. e.dir # Nil => x = h[e.dir].page[p]
      BY EntryIs
    <3> QED BY <1>1, <3>1, <3>2
  <2> HIDE DEF x, y
  <2>4. SameEntry(h, x, g, y)
    BY <2>2, <2>3 DEF SameEntry
  <2>5. CellIn(g, y) = CellIn(h, x)
    BY <2>1, <2>4, SameCell
  <2> QED BY <2>5 DEF x, y
<1>3. e.ptr.in # Nil => g[e.ptr.in] = h[e.ptr.in]
  <2>1. e # Gone /\ e.ptr.in = e.buf
    BY KindsApart DEF PointersOK
  <2> QED BY <2>1 DEF Has
<1>4. SameView(h, e, g, e)
  BY <1>1, <1>2, <1>3 DEF SameView
<1> QED BY <1>4, SameViewIsEqual

(* A copy answers what the original answers. *)
LEMMA ViewCopy ==
  ASSUME NEW h, NEW e \in Emu, PointersOK(h, e), NEW cp, NEW g, NEW n,
         CopyOf(cp, h, e, g, n)
  PROVE  ViewIn(g, n) = ViewIn(h, e)
<1>1. /\ g[n.io] = h[e.io] /\ g[n.msr] = h[e.msr]
      /\ e.buf = Nil <=> n.buf = Nil
      /\ e.buf # Nil => g[n.buf] = h[e.buf]
      /\ n.ptr.in = n.buf
      /\ e.dir = Nil <=> n.dir = Nil
      /\ e.dir # Nil => \A p \in Page : g[n.dir].page[p] = EntryMoved(cp, h[e.dir].page[p])
  BY CopiedBlocks
<1>2. /\ n \in Emu /\ n.def_attr = e.def_attr /\ n.ptr.used = e.ptr.used /\ n.size = e.size
      /\ n.flush = e.flush /\ n.handler = e.handler
  BY DEF CopyOf
<1>3. PointersOK(g, n)
  BY CopySound
<1>4. ASSUME NEW p \in Page PROVE CellIn(g, EntryIn(g, n, p)) = CellIn(h, EntryIn(h, e, p))
  <2> DEFINE x == EntryIn(h, e, p)
             y == EntryIn(g, n, p)
  <2>1. x \in Entry /\ EntryOK(h, x) /\ y \in Entry /\ EntryOK(g, y)
    BY <1>2, <1>3, EntryIs
  <2>2. ASSUME e.dir = Nil PROVE SameEntry(h, x, g, y)
    <3>1. x = NoPage(e.def_attr) /\ y = NoPage(e.def_attr)
      <4>1. n.dir = Nil
        BY <1>1, <2>2
      <4>2. x = NoPage(e.def_attr)
        BY <2>2, EntryIs
      <4>3. y = NoPage(n.def_attr)
        BY <1>2, <1>3, <4>1, EntryIs
      <4> QED BY <1>2, <4>2, <4>3
    <3>2. x.attr = Nil /\ y.attr = Nil /\ y.def = x.def
      BY <3>1 DEF NoPage
    <3> HIDE DEF x, y
    <3> QED BY <3>2 DEF SameEntry
  <2>3. ASSUME e.dir # Nil PROVE SameEntry(h, x, g, y)
    <3> DEFINE z == EntryMoved(cp, h[e.dir].page[p])
    <3>1. x = h[e.dir].page[p]
      BY <2>3, EntryIs
    <3>2. y = z
      <4>1. n.dir # Nil
        BY <1>1, <2>3
      <4>2. y = g[n.dir].page[p]
        BY <1>2, <1>3, <4>1, EntryIs
      <4> QED BY <1>1, <2>3, <4>2
    <3>3. /\ z.def = h[e.dir].page[p].def
          /\ h[e.dir].page[p].attr = Nil => z.attr = Nil /\ z.data = Nil
          /\ h[e.dir].page[p].attr # Nil =>
               /\ g[z.attr] = h[h[e.dir].page[p].attr] /\ z.attr \in Block
               /\ h[e.dir].page[p].data = h[e.dir].page[p].attr => z.data = z.attr
               /\ h[e.dir].page[p].data # h[e.dir].page[p].attr =>
                    z.data = h[e.dir].page[p].data /\ z.data \in HostPage
      <4> DEFINE v == h[e.dir].page[p]
      <4>1. EntryCopied(h, e, cp, g, v, z)
        BY <2>3, CopiedEntry, Zenon
      <4> HIDE DEF v, z
      <4>2. /\ z.def = v.def
            /\ v.attr = Nil => z.attr = Nil /\ z.data = Nil
            /\ v.attr # Nil =>
                 /\ g[z.attr] = h[v.attr] /\ z.attr \in Block
                 /\ v.data = v.attr => z.data = z.attr
                 /\ v.data # v.attr => z.data = v.data /\ z.data \in HostPage
        BY <4>1 DEF EntryCopied
      <4> QED BY <4>2, Zenon DEF v
    <3> HIDE DEF z
    <3>4. \A b \in Block : b # Nil /\ b \notin HostPage
      BY NilIsNoBlock
    <3> HIDE DEF x, y
    <3>5. /\ y.def = x.def
          /\ x.attr = Nil => y.attr = Nil
          /\ x.attr # Nil => /\ y.attr # Nil /\ g[y.attr] = h[x.attr]
                             /\ x.data = x.attr => y.data = y.attr
                             /\ x.data # x.attr => y.data = x.data /\ y.data # y.attr
      BY <3>1, <3>2, <3>3, <3>4
    <3> QED BY <3>5 DEF SameEntry
  <2> HIDE DEF x, y
  <2>4. SameEntry(h, x, g, y)
    BY <2>2, <2>3
  <2>5. CellIn(g, y) = CellIn(h, x)
    BY <2>1, <2>4, SameCell
  <2> QED BY <2>5 DEF x, y
<1>5. e.ptr.in = e.buf
  BY DEF PointersOK
<1>6. SameView(h, e, g, n)
  BY <1>1, <1>2, <1>4, <1>5 DEF SameView
<1> QED BY <1>6, SameViewIsEqual

(* A request to machine m, or one that makes machine x of it, leaves all   *)
(* others as they are.                                                     *)
LEMMA OthersAnswer ==
  ASSUME Agree, NEW m \in Id, Memory(m) \/ InOut(m) \/ Logging(m) \/ Life(m)
  PROVE  OthersAnswerAsBefore
<1>1. PICK x \in Id : KeepsTo(x) /\ (x = m \/ emu[x] = Gone)
  BY RequestKeeps
<1>2. Others(emu, heap, emu', heap', x) /\ Sound(emu, heap)
  BY <1>1 DEF KeepsTo, Stays, Agree, IInv
<1>3. req'.of = m
  BY RequestNames DEF Called
<1>4. ASSUME NEW i \in Live, i # req'.of PROVE i \in Live' /\ View(i)' = View(i)
  <2>1. i \in Id /\ emu[i] # Gone /\ i # x
    BY <1>1, <1>3, <1>4 DEF Live
  <2>2. emu'[i] = emu[i] /\ \A b \in Has(heap, emu[i]) : heap'[b] = heap[b]
    BY <1>2, <2>1 DEF Others
  <2>3. emu[i] \in Emu /\ PointersOK(heap, emu[i])
    BY <1>2, <2>1 DEF Sound
  <2>4. ViewIn(heap', emu[i]) = ViewIn(heap, emu[i])
    BY <2>2, <2>3, ViewFrame
  <2>5. View(i)' = ViewIn(heap', emu'[i])
    BY ViewWillBe
  <2>6. View(i) = ViewIn(heap, emu[i])
    BY ViewIs
  <2>7. i \in Live'
    BY <2>1, <2>2 DEF Live
  <2> QED BY <2>2, <2>4, <2>5, <2>6, <2>7
<1> QED BY <1>4 DEF OthersAnswerAsBefore

(* A clone answers as its original, which has not changed. *)
LEMMA CopyAnswers ==
  ASSUME Agree, NEW i \in Id, Memory(i) \/ InOut(i) \/ Logging(i) \/ Life(i)
  PROVE  CopyAnswersAsOriginal
<1> SUFFICES ASSUME NEW m \in Live, NEW k \in Id,
                    req' = [what |-> "clone", of |-> m, answer |-> k]
             PROVE  View(k)' = View(m) /\ View(m)' = View(m)
  BY DEF CopyAnswersAsOriginal
<1>1. req'.what = "clone" /\ req'.of = m /\ req'.answer = k
  OBVIOUS
<1>2. i = m /\ Clone(m, k)
  <2>1. Life(i)
    BY <1>1, RequestNames DEF Called
  <2>2. req'.of = i /\ Copies(i)
    BY <2>1, RequestNames DEF Called
  <2> QED BY <1>1, <2>2 DEF Copies
<1>3. Sound(emu, heap) /\ m \in Id /\ emu \in [Id -> Emu \cup {Gone}]
  BY DEF Agree, IInv, Sound, Live
<1>4. /\ emu[m] # Gone /\ emu[k] = Gone
      /\ \E cp, g, n : /\ CopyOf(cp, heap, emu[m], g, n)
                       /\ heap' = g /\ DOMAIN g = Block /\ emu' = [emu EXCEPT ![k] = n]
  BY <1>2, <1>3, CloneCopies
<1>5. PICK cp, g, n : /\ CopyOf(cp, heap, emu[m], g, n)
                      /\ heap' = g /\ emu' = [emu EXCEPT ![k] = n]
  BY <1>4
<1>6. emu[m] \in Emu /\ PointersOK(heap, emu[m])
  BY <1>3, <1>4 DEF Sound
<1>7. ViewIn(g, n) = ViewIn(heap, emu[m])
  BY <1>5, <1>6, ViewCopy
<1>8. emu'[k] = n /\ emu'[m] = emu[m]
  BY <1>3, <1>4, <1>5
<1>9. View(k)' = View(m)
  <2>1. View(k)' = ViewIn(heap', emu'[k])
    BY ViewWillBe
  <2>2. View(m) = ViewIn(heap, emu[m])
    BY ViewIs
  <2> QED BY <1>5, <1>7, <1>8, <2>1, <2>2
<1>10. View(m)' = View(m)
  <2>1. KeepsTo(k)
    BY <1>2, <1>3, CloneKeeps
  <2>2. \A b \in Has(heap, emu[m]) : heap'[b] = heap[b]
    BY <1>3, <1>4, <2>1 DEF KeepsTo, Stays, Others
  <2>3. ViewIn(heap', emu[m]) = ViewIn(heap, emu[m])
    BY <1>6, <2>2, ViewFrame
  <2>4. View(m)' = ViewIn(heap', emu'[m])
    BY ViewWillBe
  <2>5. View(m) = ViewIn(heap, emu[m])
    BY ViewIs
  <2> QED BY <1>8, <2>3, <2>4, <2>5
<1> QED BY <1>9, <1>10

(* Whatever is asked of one machine, the others answer as before, and      *)
(* x86emu_clone() makes a machine that answers as the original does: for   *)
(* any number of machines, pages, ports and requests.                      *)
THEOREM MachinesAreApart == Spec => Apart
<1>1. Agree /\ [Next]_vars => [OthersAnswerAsBefore /\ CopyAnswersAsOriginal]_vars
  <2> SUFFICES ASSUME Agree, Next PROVE OthersAnswerAsBefore /\ CopyAnswersAsOriginal
    OBVIOUS
  <2>1. PICK m \in Id : Memory(m) \/ InOut(m) \/ Logging(m) \/ Life(m)
    BY DEF Next
  <2> QED BY <2>1, OthersAnswer, CopyAnswers
<1> QED BY <1>1, AlwaysAgrees, PTL DEF Spec, Apart
=============================================================================
